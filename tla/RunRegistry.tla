---------------------------- MODULE RunRegistry ----------------------------
(***************************************************************************)
(* The core process as seen by supervised runs: the in-memory registry of  *)
(* active runs (internal/executions/registry.go), the control handlers     *)
(* that use it (http.go), the gateway's path of a blocked call, and the    *)
(* durable table they share (ExecutionRow).                                *)
(*                                                                         *)
(* Every request is served by a goroutine.  A goroutine is a thread of     *)
(* Handlers; each of its steps is one critical section of Registry.mu or   *)
(* one SQLite transaction, because these are the places where goroutines   *)
(* can interleave: the registry releases its lock around every store call. *)
(* Records live on a heap and are reached through pointers, as in the Go   *)
(* code, where a signal handler can outlive the registration it serves.    *)
(*                                                                         *)
(* A core may crash at any step, losing the heap and every goroutine, and  *)
(* a later one recovers the table.  Requests carry the right credentials;  *)
(* wrong ones are refused before any state is read.                        *)
(***************************************************************************)
EXTENDS ExecutionRow, Naturals, Sequences

CONSTANTS
    Runs,            \* run IDs
    Handlers,        \* goroutines that serve requests
    Addrs,           \* addresses of activeRun records; bounds registrations
    Nil,             \* the nil pointer
    NoRun,           \* the run of a handler that serves none
    Inputs,          \* finish requests that runners send
    SecondCore,      \* TRUE: another core may start on the same database
    AmbiguousWrites, \* TRUE: a store call may fail after its write committed
    MaxRestarts      \* bound: restarts of the core

FinishInput == [state : RunnerTerminal, term : Terminations, code : Codes]

ASSUME InputsAssumption == Inputs \subseteq FinishInput
ASSUME NilAssumption == Nil \notin Addrs /\ NoRun \notin Runs
ASSUME SwitchAssumption == SecondCore \in BOOLEAN /\ AmbiguousWrites \in BOOLEAN
ASSUME RestartsAssumption == MaxRestarts \in Nat

VARIABLES
    rows,      \* the executions table
    runs,      \* Registry.runs: run ID -> pointer
    heap,      \* the activeRun records
    pc,        \* where each handler is
    job,       \* the run it serves
    rec,       \* the record pointer it holds
    fin,       \* the locals of a finish request
    kept,      \* the block handler's local: was the block persisted?
    up,        \* the core is running
    restarts,  \* restarts so far
    panic,     \* a goroutine closed a closed channel or sent on one
    delivered, \* history: the notices written to a run's signal stream
    asked,     \* history: runs for which a finish request was accepted
    acked      \* history: runs whose finish request was answered 200

vars == <<rows, runs, heap, pc, job, rec, fin, kept, up, restarts, panic,
          delivered, asked, acked>>

\* A notice says whether its block is in the table.
Notices == {"persisted", "unpersisted"}

Record == [run : Runs \cup {NoRun}, ready : BOOLEAN, claimed : BOOLEAN,
           closed : BOOLEAN, finishing : BOOLEAN, notified : BOOLEAN,
           chan : {"open", "closed"}, buffer : Notices \cup {"empty"}]

FreeRecord == [run |-> NoRun, ready |-> FALSE, claimed |-> FALSE,
               closed |-> FALSE, finishing |-> FALSE, notified |-> FALSE,
               chan |-> "open", buffer |-> "empty"]

\* input: the request; result: what the store is asked to write; blocked: the
\* handler has seen the row blocked; error: how the store call ended.
FinishLocals == [input : FinishInput, result : Result, blocked : BOOLEAN,
                 error : {"none", "transition", "other"}]

NoInput == [state |-> "failed", term |-> "null", code |-> "none"]
NoFinish == [input |-> NoInput, result |-> NoInput, blocked |-> FALSE, error |-> "none"]

RegisterPcs == {"register_start", "register_ready", "register_undo"}
FinishPcs == {"finish_write", "finish_undo", "finish_remove"}
StreamPcs == {"stream", "release"}
Pcs == {"idle", "request", "notify", "finish_claim", "finish_reread"}
         \cup RegisterPcs \cup FinishPcs \cup StreamPcs

TypeOK ==
    /\ rows \in [Runs -> Row]
    /\ runs \in [Runs -> Addrs \cup {Nil}]
    /\ heap \in [Addrs -> Record]
    /\ pc \in [Handlers -> Pcs]
    /\ job \in [Handlers -> Runs \cup {NoRun}]
    /\ rec \in [Handlers -> Addrs \cup {Nil}]
    /\ fin \in [Handlers -> FinishLocals]
    /\ kept \in [Handlers -> BOOLEAN]
    /\ up \in BOOLEAN
    /\ restarts \in Nat
    /\ panic \in BOOLEAN
    /\ delivered \in [Runs -> Seq(Notices)]
    /\ asked \in SUBSET Runs
    /\ acked \in SUBSET Runs

Init ==
    /\ rows = [r \in Runs |-> NoRow]
    /\ runs = [r \in Runs |-> Nil]
    /\ heap = [a \in Addrs |-> FreeRecord]
    /\ pc = [t \in Handlers |-> "idle"]
    /\ job = [t \in Handlers |-> NoRun]
    /\ rec = [t \in Handlers |-> Nil]
    /\ fin = [t \in Handlers |-> NoFinish]
    /\ kept = [t \in Handlers |-> FALSE]
    /\ up = TRUE
    /\ restarts = 0
    /\ panic = FALSE
    /\ delivered = [r \in Runs |-> <<>>]
    /\ asked = {}
    /\ acked = {}

-----------------------------------------------------------------------------
\* Moving a handler.

Goto(t, label) == pc' = [pc EXCEPT ![t] = label]

\* The handler returns: its locals are gone.
Return(t) ==
    /\ pc' = [pc EXCEPT ![t] = "idle"]
    /\ job' = [job EXCEPT ![t] = NoRun]
    /\ rec' = [rec EXCEPT ![t] = Nil]
    /\ fin' = [fin EXCEPT ![t] = NoFinish]
    /\ kept' = [kept EXCEPT ![t] = FALSE]

Accept(t, r, label) ==
    /\ up
    /\ pc[t] = "idle"
    /\ pc' = [pc EXCEPT ![t] = label]
    /\ job' = [job EXCEPT ![t] = r]

core == <<up, restarts>>
history == <<delivered, asked, acked>>

\* A run that is in the map and whose registration is complete.
Registered(r) == runs[r] # Nil /\ heap[runs[r]].ready

\* Mutant: the lookups forget that a finish is being settled.
MutTokenWhileFinishing(r) == Registered(r)

\* The run token and the signal token are accepted.
TokenLive(r) == Registered(r) /\ ~heap[runs[r]].finishing

-----------------------------------------------------------------------------
\* Registry.Register, behind POST /api/executions.

\* The map is reserved first, so that two requests for one run ID cannot both
\* go on; an ID that is in the map is refused (ErrRunActive, no step).
RegisterReserve(t, r) ==
    /\ Accept(t, r, "register_start")
    /\ runs[r] = Nil
    /\ \E a \in Addrs :
         /\ heap[a] = FreeRecord
         /\ heap' = [heap EXCEPT ![a].run = r]
         /\ runs' = [runs EXCEPT ![r] = a]
         /\ rec' = [rec EXCEPT ![t] = a]
    /\ UNCHANGED <<rows, fin, kept, core, panic, history>>

\* StartExecution, outside the lock: it inserts the row, finds one, or fails.
RegisterStart(t) ==
    /\ pc[t] = "register_start"
    /\ \/ /\ CanStart(rows[job[t]])
          /\ rows' = [rows EXCEPT ![job[t]] = StartedRow]
          /\ \/ Goto(t, "register_ready")
             \/ AmbiguousWrites /\ Goto(t, "register_undo")
       \/ Goto(t, "register_undo") /\ UNCHANGED rows
    /\ UNCHANGED <<runs, heap, job, rec, fin, kept, core, panic, history>>

RegisterUndo(t) ==
    /\ pc[t] = "register_undo"
    /\ runs' = [runs EXCEPT ![job[t]] = Nil]
    /\ Return(t)
    /\ UNCHANGED <<rows, heap, core, panic, history>>

RegisterReady(t) ==
    /\ pc[t] = "register_ready"
    /\ heap' = [heap EXCEPT ![rec[t]].ready = TRUE]
    /\ Return(t)
    /\ UNCHANGED <<rows, runs, core, panic, history>>

-----------------------------------------------------------------------------
\* POST /api/executions/{id}/running: one conditional UPDATE, no registry.
MarkRunning(r) ==
    /\ up
    /\ CanRun(rows[r])
    /\ rows' = [rows EXCEPT ![r] = RunningRow(@)]
    /\ UNCHANGED <<runs, heap, pc, job, rec, fin, kept, core, panic, history>>

-----------------------------------------------------------------------------
\* A supervised gateway call that policy blocks.

\* authenticateExecution resolves the run token before anything else is done.
Authenticate(t, r) ==
    /\ Accept(t, r, "request")
    /\ TokenLive(r)
    /\ UNCHANGED <<rows, runs, heap, rec, fin, kept, core, panic, history>>

\* Preflight lets the call through (or fails): no block, no notice.
CallAllowed(t) ==
    /\ pc[t] = "request"
    /\ Return(t)
    /\ UNCHANGED <<rows, runs, heap, core, panic, history>>

\* RecordPolicyBlock: the event and the row, in one transaction.
RecordBlock(t) ==
    /\ pc[t] = "request"
    /\ CanBlock(rows[job[t]])
    /\ rows' = [rows EXCEPT ![job[t]] = BlockedRow(@)]
    /\ \/ kept' = [kept EXCEPT ![t] = TRUE]
       \/ AmbiguousWrites /\ UNCHANGED kept
    /\ Goto(t, "notify")
    /\ UNCHANGED <<runs, heap, job, rec, fin, core, panic, history>>

\* ErrPolicyBlockRecorded: another call has tripped the breaker; stay silent.
BlockAlreadyRecorded(t) ==
    /\ pc[t] = "request"
    /\ rows[job[t]].state = "blocked"
    /\ Return(t)
    /\ UNCHANGED <<rows, runs, heap, core, panic, history>>

\* Mutant: the notice does not carry PersistenceFailed.
MutSilentPersistenceFailure(t) ==
    /\ pc[t] = "request"
    /\ kept' = [kept EXCEPT ![t] = TRUE]
    /\ Goto(t, "notify")
    /\ UNCHANGED <<rows, runs, heap, job, rec, fin, core, panic, history>>

\* The block cannot be persisted (the row is in another state, or the store
\* fails): the runner is told all the same, with PersistenceFailed.
BlockNotRecorded(t) ==
    /\ pc[t] = "request"
    /\ Goto(t, "notify")
    /\ UNCHANGED <<rows, runs, heap, job, rec, fin, kept, core, panic, history>>

\* Mutant: a notice that comes before the stream is opened is not buffered.
MutNoticeNeedsStream(r) ==
    TokenLive(r) /\ ~heap[runs[r]].closed /\ heap[runs[r]].claimed

\* NotifyPolicyBlock's early return.
NoticeWanted(r) ==
    TokenLive(r) /\ ~heap[runs[r]].closed

\* The non-blocking send of the first notice; notifyOnce drops the others.
Notify(t) ==
    /\ pc[t] = "notify"
    /\ LET r == job[t]
           a == runs[r]
           send == NoticeWanted(r) /\ ~heap[a].notified
       IN /\ panic' = (panic \/ (send /\ heap[a].chan = "closed"))
          /\ heap' = IF send
                       THEN [heap EXCEPT ![a].notified = TRUE,
                                         ![a].buffer = IF @ # "empty" THEN @
                                                       ELSE IF kept[t] THEN "persisted"
                                                       ELSE "unpersisted"]
                       ELSE heap
    /\ Return(t)
    /\ UNCHANGED <<rows, runs, core, history>>

-----------------------------------------------------------------------------
\* GET /api/executions/{id}/signals.

\* close(record.signals) panics when the channel is closed already.
CloseChannel(a) ==
    /\ panic' = (panic \/ heap[a].chan = "closed")
    /\ heap' = [heap EXCEPT ![a].chan = "closed", ![a].closed = TRUE]

\* Mutants: close whatever `closed` says; the test of `closed` inverted.
MutCloseAlways(a) == TRUE
MutCloseInverted(a) == heap[a].closed

\* Both closers look at `closed` under the lock first.
MustClose(a) == ~heap[a].closed

CloseSignals(a) ==
    IF MustClose(a) THEN CloseChannel(a) ELSE UNCHANGED <<heap, panic>>

\* The signal token is good for one stream.
Subscribable(r) == TokenLive(r) /\ ~heap[runs[r]].claimed

Subscribe(t, r) ==
    /\ Accept(t, r, "stream")
    /\ Subscribable(r)
    /\ heap' = [heap EXCEPT ![runs[r]].claimed = TRUE]
    /\ rec' = [rec EXCEPT ![t] = runs[r]]
    /\ UNCHANGED <<rows, runs, fin, kept, core, panic, history>>

\* A receive finds the buffered notice even when the channel is closed.
StreamNotice(t) ==
    /\ pc[t] = "stream"
    /\ heap[rec[t]].buffer # "empty"
    /\ delivered' = [delivered EXCEPT ![job[t]] = Append(@, heap[rec[t]].buffer)]
    /\ heap' = [heap EXCEPT ![rec[t]].buffer = "empty"]
    /\ Goto(t, "release")
    /\ UNCHANGED <<rows, runs, job, rec, fin, kept, core, panic, asked, acked>>

StreamClosed(t) ==
    /\ pc[t] = "stream"
    /\ heap[rec[t]].buffer = "empty"
    /\ heap[rec[t]].chan = "closed"
    /\ Goto(t, "release")
    /\ UNCHANGED <<rows, runs, heap, job, rec, fin, kept, core, panic, history>>

\* The client is gone (request context done).
StreamDisconnect(t) ==
    /\ pc[t] = "stream"
    /\ Goto(t, "release")
    /\ UNCHANGED <<rows, runs, heap, job, rec, fin, kept, core, panic, history>>

\* The deferred release, on the record the handler holds.
Release(t) ==
    /\ pc[t] = "release"
    /\ CloseSignals(rec[t])
    /\ Return(t)
    /\ UNCHANGED <<rows, runs, core, history>>

-----------------------------------------------------------------------------
\* POST /api/executions/{id}/finish.

\* The handler reads the row (`before`) and answers 400 to a request that does
\* not fit it; only the others go on.
FinishRequest(t, r, input) ==
    LET blocked == rows[r].state = "blocked"
    IN /\ Accept(t, r, "finish_claim")
       /\ rows[r].state # "absent"
       /\ IF blocked THEN AcceptedWhenBlocked(input) ELSE AcceptedWhenActive(input)
       /\ fin' = [fin EXCEPT ![t] =
                    [input |-> input, blocked |-> blocked, error |-> "none",
                     result |-> IF blocked THEN BlockedResult(input) ELSE input]]
       /\ asked' = asked \cup {r}
       /\ UNCHANGED <<rows, runs, heap, rec, kept, core, panic, delivered, acked>>

\* An ErrInvalidTransition makes the handler look at the row again, once.
Rejected(t, error) ==
    IF error = "transition" /\ ~fin[t].blocked
      THEN Goto(t, "finish_reread") /\ UNCHANGED <<job, rec, fin, kept>>
      ELSE Return(t)

\* Registry.Finish, first critical section: one finisher at a time.
FinishClaim(t) ==
    /\ pc[t] = "finish_claim"
    /\ IF TokenLive(job[t])
         THEN /\ heap' = [heap EXCEPT ![runs[job[t]]].finishing = TRUE]
              /\ rec' = [rec EXCEPT ![t] = runs[job[t]]]
              /\ Goto(t, "finish_write")
              /\ UNCHANGED <<job, fin, kept>>
         ELSE /\ Rejected(t, IF Registered(job[t]) THEN "transition" ELSE "not_found")
              /\ UNCHANGED heap
    /\ UNCHANGED <<rows, runs, core, panic, history>>

\* FinishExecution, outside the lock.
FinishWrite(t) ==
    /\ pc[t] = "finish_write"
    /\ LET row == rows[job[t]]
           result == fin[t].result
           fails(error) == /\ Goto(t, "finish_undo")
                           /\ fin' = [fin EXCEPT ![t].error = error]
       IN \/ /\ WellFormed(result) /\ CanFinish(row, result)
             /\ rows' = [rows EXCEPT ![job[t]] = FinishedRow(row, result)]
             /\ \/ Goto(t, "finish_remove") /\ UNCHANGED fin
                \/ AmbiguousWrites /\ fails("other")
          \/ /\ WellFormed(result) /\ ~CanFinish(row, result)
             /\ fails("transition") /\ UNCHANGED rows
          \/ fails("other") /\ UNCHANGED rows
    /\ UNCHANGED <<runs, heap, job, rec, kept, core, panic, history>>

\* The store call failed: the credentials are good again.
FinishUndo(t) ==
    /\ pc[t] = "finish_undo"
    /\ heap' = [heap EXCEPT ![rec[t]].finishing = FALSE]
    /\ Rejected(t, fin[t].error)
    /\ UNCHANGED <<rows, runs, core, panic, history>>

\* The row may have been blocked between the first read and the write.
FinishReread(t) ==
    /\ pc[t] = "finish_reread"
    /\ \/ /\ rows[job[t]].state = "blocked"
          /\ AcceptedWhenBlocked(fin[t].input)
          /\ fin' = [fin EXCEPT ![t].blocked = TRUE,
                                ![t].result = BlockedResult(fin[t].input)]
          /\ Goto(t, "finish_claim")
          /\ UNCHANGED <<job, rec, kept>>
       \/ Return(t)
    /\ UNCHANGED <<rows, runs, heap, core, panic, history>>

\* The result is durable: revoke the credentials, end the stream, answer 200.
FinishRemove(t) ==
    /\ pc[t] = "finish_remove"
    /\ CloseSignals(rec[t])
    /\ runs' = [runs EXCEPT ![job[t]] = Nil]
    /\ acked' = acked \cup {job[t]}
    /\ Return(t)
    /\ UNCHANGED <<rows, core, delivered, asked>>

-----------------------------------------------------------------------------
\* The core process.

\* Everything in memory is lost at whatever step it had reached.
Crash ==
    /\ up
    /\ restarts < MaxRestarts
    /\ up' = FALSE
    /\ runs' = [r \in Runs |-> Nil]
    /\ heap' = [a \in Addrs |-> FreeRecord]
    /\ pc' = [t \in Handlers |-> "idle"]
    /\ job' = [t \in Handlers |-> NoRun]
    /\ rec' = [t \in Handlers |-> Nil]
    /\ fin' = [t \in Handlers |-> NoFinish]
    /\ kept' = [t \in Handlers |-> FALSE]
    /\ UNCHANGED <<rows, restarts, panic, history>>

RecoverExecutions == rows' = [r \in Runs |-> RecoveredRow(rows[r])]

\* RunCore recovers the table before it listens.
Restart ==
    /\ ~up
    /\ up' = TRUE
    /\ restarts' = restarts + 1
    /\ RecoverExecutions
    /\ UNCHANGED <<runs, heap, pc, job, rec, fin, kept, panic, history>>

\* A second `virgil` on the same configuration opens the same database and
\* recovers it before net.Listen tells it that the port is taken.
StartSecondCore ==
    /\ SecondCore
    /\ up
    /\ RecoverExecutions
    /\ UNCHANGED <<runs, heap, pc, job, rec, fin, kept, core, panic, history>>

-----------------------------------------------------------------------------
HandlerStep(t) ==
    \/ RegisterStart(t) \/ RegisterUndo(t) \/ RegisterReady(t)
    \/ CallAllowed(t) \/ RecordBlock(t) \/ BlockAlreadyRecorded(t)
    \/ BlockNotRecorded(t) \/ Notify(t)
    \/ StreamNotice(t) \/ StreamClosed(t) \/ Release(t)
    \/ FinishClaim(t) \/ FinishWrite(t) \/ FinishUndo(t)
    \/ FinishReread(t) \/ FinishRemove(t)

NewRequest(t, r) ==
    \/ RegisterReserve(t, r) \/ Authenticate(t, r) \/ Subscribe(t, r)
    \/ \E input \in Inputs : FinishRequest(t, r, input)

Next ==
    \/ \E t \in Handlers : HandlerStep(t) \/ StreamDisconnect(t)
    \/ \E t \in Handlers, r \in Runs : NewRequest(t, r)
    \/ \E r \in Runs : MarkRunning(r)
    \/ Crash \/ Restart \/ StartSecondCore

Spec == Init /\ [][Next]_vars

\* A goroutine that can run is eventually scheduled; nobody has to send a
\* request, to disconnect, to crash or to restart.
FairSpec == Spec /\ \A t \in Handlers : WF_vars(HandlerStep(t))

-----------------------------------------------------------------------------
\* Safety.

\* No goroutine closes the signal channel twice or sends on it after it was
\* closed: Finish, the stream's deferred release and NotifyPolicyBlock race,
\* and the Go runtime would take the whole gateway down.
NoChannelPanic == ~panic

\* A run token that the gateway accepts belongs to an execution whose outcome
\* is still open: credentials are revoked before the outcome is written and
\* given back only when it was not.
TokenImpliesActive == \A r \in Runs : TokenLive(r) => Active(rows[r])

\* A finish answered 200 is durable and final for the credentials, whatever
\* other finish, register or gateway calls were in flight.
AckedIsFinal == \A r \in acked : rows[r].ended /\ ~TokenLive(r)

\* One circuit break per execution, however many calls are blocked at once,
\* through reconnects and core restarts.
OneCircuitBreak == \A r \in Runs : Len(delivered[r]) <= 1

\* A notice that does not say PersistenceFailed is backed by the table: the
\* policy decision it carries can be read there, then and ever after.
NoticeIsTrue ==
    \A r \in Runs : \A i \in 1..Len(delivered[r]) :
        delivered[r][i] = "persisted" => rows[r].policy

\* At most one handler is between claiming a run's outcome and settling it.
Settling(t, r) == pc[t] \in FinishPcs /\ job[t] = r
SoleFinisher ==
    \A r \in Runs : \A t, u \in Handlers : Settling(t, r) /\ Settling(u, r) => t = u

-----------------------------------------------------------------------------
\* Liveness: the signal stream closes after a terminal transition, so a runner
\* that waits on it is let go.
StreamEndsAfterFinish ==
    \A t \in Handlers : (pc[t] = "stream" /\ job[t] \in acked) ~> (pc[t] = "idle")

\* A persisted block reaches a runner that listens and has not reported yet:
\* the stream writes the notice and ends (or the client or the core is gone).
\* A runner that has reported knows already that its child is gone, and the
\* notice may be dropped while its report is being settled.
Streaming(r) == \E t \in Handlers : pc[t] = "stream" /\ job[t] = r
BlockReachesStream ==
    \A r \in Runs : (rows[r].policy /\ Streaming(r)) ~> (~Streaming(r) \/ r \in asked)

-----------------------------------------------------------------------------
\* The durable table keeps its promises, whatever the handlers do.
Lifecycle == INSTANCE ExecutionLifecycle WITH Runs <- Runs, rows <- rows
LifecycleSpec == Lifecycle!Spec
=============================================================================
