---------------------------- MODULE Supervision ----------------------------
(***************************************************************************)
(* `virgil run`: one supervisor, the child process tree it owns, and the   *)
(* core it talks to over loopback HTTP and one signal stream               *)
(* (internal/runner/supervisor.go, control_client.go, process.go).         *)
(*                                                                         *)
(* The supervisor waits in one select on the child's exit, the signal      *)
(* stream, the deadline, an interruption and the answer of the `running`   *)
(* request it has sent in the background: the child runs, and can be       *)
(* blocked, before the core knows that it does.                            *)
(*                                                                         *)
(* What the core does to a request is one step here, on the row and on the *)
(* registration; RunRegistry has the steps inside.  A finish that races a  *)
(* block is answered as if it came after it, which is what the handler's   *)
(* second read achieves.                                                   *)
(*                                                                         *)
(* The child is a root process and its descendants in one process group    *)
(* (or one job).  The root can end and leave descendants behind; the       *)
(* goroutine that waits for the root then sweeps the group, once, and that *)
(* can fail.  A descendant that has left the group is nobody's: it is not  *)
(* modelled.                                                               *)
(***************************************************************************)
EXTENDS ExecutionRow, Naturals

CONSTANTS
    FaultSets,    \* what may go wrong together: sets of FaultKinds
    MaxRestarts   \* bound: restarts of the core

\* crash: the core stops and may start again; network: a request, an answer or
\* the stream is lost; store: a store call fails; kill: the operating system
\* refuses to signal the process group (or to terminate, or close, the job).
FaultKinds == {"crash", "network", "store", "kill"}

ASSUME FaultsAssumption == FaultSets \subseteq SUBSET FaultKinds
ASSUME RestartsAssumption == MaxRestarts \in Nat

VARIABLES
    \* the core
    up,         \* it is running
    restarts,
    row,        \* the run's row
    live,       \* the registration is ready: the run token is accepted
    gateway,    \* the gateway's handler of a blocked call of this run
    notified,   \* notifyOnce of the registration
    stream,     \* the signal stream, as the core sees it
    \* the supervisor
    sup,        \* where it is
    heard,      \* what the stream's reader has passed on: at most one event
    mark,       \* the background `running` request
    result,     \* the finish request being put together
    stop,       \* its stop reason
    exitSeen,   \* processAlreadyDone
    supErr,     \* supervisorErr is not nil
    summary,    \* the row that came with a 200, or NoRow
    \* its environment
    child,      \* the process tree; left: its root has ended, descendants may run
    exit,       \* exit status of its root
    waited,     \* Wait has a result: the root is reaped, the group was swept
    sweep,      \* closePlatform, which acts once: none yet, ok, or failed (closeErr)
    fired,      \* the deadline: not yet, in the channel, or taken
    interrupted,\* the context is cancelled
    faults,     \* what may go wrong in this behavior; never changes
    tripped     \* history: policy has blocked a call of this run

coreVars == <<up, restarts, row, live, gateway, notified, stream>>
supVars == <<sup, heard, mark, result, stop, exitSeen, supErr, summary>>
envVars == <<child, exit, waited, sweep, fired, interrupted, faults, tripped>>
vars == <<coreVars, supVars, envVars>>

Undecided == [state |-> "none", term |-> "not_required", code |-> "none"]
StopReasons == {"none", "signal_unavailable", "start_failed", "policy_block", "signal_lost",
                "deadline", "interrupted", "control_unavailable"}

TypeOK ==
    /\ up \in BOOLEAN /\ restarts \in Nat
    /\ row \in Row
    /\ live \in BOOLEAN
    /\ gateway \in {"idle", "record", "notify"}
    /\ notified \in BOOLEAN
    /\ stream \in {"none", "open", "notice", "closed"}
    /\ sup \in {"register", "subscribe", "start", "supervise", "terminate", "finish", "done"}
    /\ heard \in {"nothing", "break", "lost"}
    /\ mark \in {"none", "sent", "ok", "err", "read"}
    /\ result \in [state : RunnerTerminal \cup {"none"}, term : Terminations, code : Codes]
    /\ stop \in StopReasons
    /\ exitSeen \in BOOLEAN /\ supErr \in BOOLEAN
    /\ summary \in Row
    /\ child \in {"none", "running", "left", "exited"}
    /\ exit \in {"none", "zero", "nonzero"}
    /\ waited \in BOOLEAN /\ sweep \in {"none", "ok", "failed"}
    /\ fired \in {"no", "yes", "taken"}
    /\ interrupted \in BOOLEAN /\ tripped \in BOOLEAN
    /\ faults \in FaultSets

Init ==
    /\ up = TRUE /\ restarts = 0
    /\ row = NoRow /\ live = FALSE
    /\ gateway = "idle" /\ notified = FALSE /\ stream = "none"
    /\ sup = "register" /\ heard = "nothing" /\ mark = "none"
    /\ result = Undecided /\ stop = "none"
    /\ exitSeen = FALSE /\ supErr = FALSE /\ summary = NoRow
    /\ child = "none" /\ exit = "none" /\ waited = FALSE /\ sweep = "none"
    /\ fired = "no" /\ interrupted = FALSE /\ tripped = FALSE
    /\ faults \in FaultSets

\* A control request can fail: nobody answers, or the answer never comes.
Unreachable == ~up \/ "network" \in faults
\* So can one whose context is the command's.
Cancellable == Unreachable \/ interrupted

-----------------------------------------------------------------------------
\* Before the child runs.

RegisterServed ==
    /\ sup = "register" /\ up
    /\ CanStart(row)
    /\ row' = StartedRow
    /\ live' = TRUE
    /\ \/ sup' = "subscribe" /\ UNCHANGED supErr
       \/ Cancellable /\ sup' = "done" /\ supErr' = TRUE
    /\ UNCHANGED <<up, restarts, gateway, notified, stream, heard, mark, result, stop,
                   exitSeen, summary, envVars>>

RegisterFails ==
    /\ sup = "register"
    /\ Cancellable \/ "store" \in faults
    /\ sup' = "done"
    /\ supErr' = TRUE
    /\ UNCHANGED <<coreVars, heard, mark, result, stop, exitSeen, summary, envVars>>

\* A run that never had a child ends as failed, without a termination.
FailBeforeChild(reason) ==
    /\ result' = [Undecided EXCEPT !.state = "failed"]
    /\ stop' = reason
    /\ sup' = "finish"
    /\ supErr' = TRUE
    /\ UNCHANGED <<heard, mark, exitSeen, summary, envVars>>

\* Signals returns only after the `ready` event.
SubscribeServed ==
    /\ sup = "subscribe" /\ up /\ live
    /\ stream' = "open"
    /\ sup' = "start"
    /\ UNCHANGED <<up, restarts, row, live, gateway, notified, heard, mark, result, stop,
                   exitSeen, supErr, summary, envVars>>

SubscribeFails ==
    /\ sup = "subscribe"
    /\ Cancellable \/ ~live
    /\ FailBeforeChild("signal_unavailable")
    /\ UNCHANGED coreVars

StartChild ==
    /\ sup = "start" /\ ~interrupted
    /\ child' = "running"
    /\ mark' = "sent"
    /\ sup' = "supervise"
    /\ UNCHANGED <<coreVars, heard, result, stop, exitSeen, supErr, summary,
                   exit, waited, sweep, fired, interrupted, tripped, faults>>

StartFails ==
    /\ sup = "start"
    /\ FailBeforeChild("start_failed")
    /\ UNCHANGED coreVars

-----------------------------------------------------------------------------
\* The environment of the select.

\* The root ends, by itself or by a signal, with or without descendants.
RootEnds ==
    /\ child = "running"
    /\ child' \in {"left", "exited"}
    /\ exit' \in {"zero", "nonzero"}

ChildExits ==
    /\ RootEnds
    /\ UNCHANGED <<coreVars, supVars, waited, sweep, fired, interrupted, tripped, faults>>

\* Descendants end by themselves.
DescendantsExit ==
    /\ child = "left"
    /\ child' = "exited"
    /\ UNCHANGED <<coreVars, supVars, exit, waited, sweep, fired, interrupted, tripped, faults>>

\* Mutant: the error of the sweep is lost.
MutSweepErrorLost ==
    /\ child \in {"left", "exited"} /\ ~waited
    /\ waited' = TRUE /\ sweep' = "ok"
    /\ child' = "exited" \/ ("kill" \in faults /\ UNCHANGED child)
    /\ UNCHANGED <<coreVars, supVars, exit, fired, interrupted, tripped, faults>>

\* The goroutine that waits for the root: cmd.Wait, closePlatform, close(done).
Reap ==
    /\ child \in {"left", "exited"} /\ ~waited
    /\ waited' = TRUE
    /\ \/ sweep # "none" /\ UNCHANGED <<sweep, child>>
       \/ sweep = "none" /\ sweep' = "ok" /\ child' = "exited"
       \/ /\ sweep = "none" /\ "kill" \in faults /\ child = "left"
          /\ sweep' = "failed" /\ UNCHANGED child
    /\ UNCHANGED <<coreVars, supVars, exit, fired, interrupted, tripped, faults>>

\* The timer starts with the supervision; Ctrl-C can come at any time.
DeadlineFires ==
    /\ sup = "supervise" /\ fired = "no"
    /\ fired' = "yes"
    /\ UNCHANGED <<coreVars, supVars, child, exit, waited, sweep, interrupted, tripped, faults>>

Interrupt ==
    /\ sup # "done" /\ ~interrupted
    /\ interrupted' = TRUE
    /\ UNCHANGED <<coreVars, supVars, child, exit, waited, sweep, fired, tripped, faults>>

\* The background request reaches the core (cancelMark may come too late).
MarkServed ==
    /\ mark = "sent" /\ up
    /\ IF CanRun(row)
         THEN /\ row' = RunningRow(row)
              /\ mark' = "ok" \/ (Cancellable /\ mark' = "err")
         ELSE mark' = "err" /\ UNCHANGED row
    /\ UNCHANGED <<up, restarts, live, gateway, notified, stream, sup, heard, result, stop,
                   exitSeen, supErr, summary, envVars>>

MarkFails ==
    /\ mark = "sent"
    /\ Cancellable \/ "store" \in faults \/ sup # "supervise"
    /\ mark' = "err"
    /\ UNCHANGED <<coreVars, sup, heard, result, stop, exitSeen, supErr, summary, envVars>>

-----------------------------------------------------------------------------
\* The gateway blocks a call of the child, or of a descendant it left.

CallBlocked ==
    /\ child \in {"running", "left"} /\ up /\ live /\ gateway = "idle"
    /\ gateway' = "record"
    /\ tripped' = TRUE
    /\ UNCHANGED <<up, restarts, row, live, notified, stream, supVars,
                   child, exit, waited, sweep, fired, interrupted, faults>>

\* Mutant: a block that cannot be recorded is not notified.
MutUnrecordedIsSilent ==
    /\ gateway = "record"
    /\ \/ CanBlock(row) /\ row' = BlockedRow(row) /\ gateway' = "notify"
       \/ gateway' = "idle" /\ UNCHANGED row
    /\ UNCHANGED <<up, restarts, live, notified, stream, supVars, envVars>>

\* RecordPolicyBlock; a block that cannot be recorded is notified all the same.
RecordBlock ==
    /\ gateway = "record"
    /\ \/ CanBlock(row) /\ row' = BlockedRow(row) /\ gateway' = "notify"
       \/ row.state = "blocked" /\ gateway' = "idle" /\ UNCHANGED row
       \/ /\ "store" \in faults \/ (~CanBlock(row) /\ row.state # "blocked")
          /\ gateway' = "notify" /\ UNCHANGED row
    /\ UNCHANGED <<up, restarts, live, notified, stream, supVars, envVars>>

Notify ==
    /\ gateway = "notify"
    /\ gateway' = "idle"
    /\ IF live /\ ~notified /\ stream = "open"
         THEN notified' = TRUE /\ stream' = "notice"
         ELSE UNCHANGED <<notified, stream>>
    /\ UNCHANGED <<up, restarts, row, live, supVars, envVars>>

\* The core writes the event and ends the stream; the reader passes it on and
\* keeps the end of the stream to itself.
DeliverNotice ==
    /\ stream = "notice"
    /\ heard' = "break"
    /\ stream' = "closed"
    /\ UNCHANGED <<up, restarts, row, live, gateway, notified, sup, mark, result, stop,
                   exitSeen, supErr, summary, envVars>>

\* The stream breaks; the reader is silent when the context is cancelled.
LoseStream ==
    IF stream \in {"open", "notice"}
      THEN stream' = "closed" /\ heard' = IF interrupted THEN heard ELSE "lost"
      ELSE UNCHANGED <<stream, heard>>

CutStream ==
    /\ stream \in {"open", "notice"}
    /\ "network" \in faults \/ interrupted
    /\ LoseStream
    /\ UNCHANGED <<up, restarts, row, live, gateway, notified, sup, mark, result, stop,
                   exitSeen, supErr, summary, envVars>>

-----------------------------------------------------------------------------
\* The select loop.

MarkPending == mark # "read"

\* Mutant: the child is left alone.
MutLeaveChild(state, reason) ==
    /\ stop' = reason
    /\ sup' = "finish"
    /\ result' = [result EXCEPT !.state = state]

\* A decision with a stop reason terminates the tree, unless the root is gone.
Decide(state, reason) ==
    /\ stop' = reason
    /\ sup' = IF reason # "none" /\ ~exitSeen' THEN "terminate" ELSE "finish"
    /\ result' = [result EXCEPT !.state = state,
                                !.term = IF reason # "none" /\ exitSeen'
                                           THEN "succeeded" ELSE @]

\* The result of Wait has the error of the sweep in it; nothing else says so.
ByExit == IF exit = "zero" /\ sweep # "failed" THEN "completed" ELSE "failed"

SeeExit ==
    /\ sup = "supervise" /\ waited /\ ~exitSeen
    /\ exitSeen' = TRUE
    /\ IF MarkPending THEN UNCHANGED <<sup, result, stop>> ELSE Decide(ByExit, "none")
    /\ UNCHANGED <<coreVars, heard, mark, supErr, summary, envVars>>

SeeCircuitBreak ==
    /\ sup = "supervise" /\ heard = "break"
    /\ UNCHANGED exitSeen
    /\ Decide("failed", "policy_block")
    /\ UNCHANGED <<coreVars, heard, mark, supErr, summary, envVars>>

\* Mutant: the state that goes with a decision does not depend on the mark.
MutAlwaysRunning(state) == state

\* A row that may still be starting can only end as failed.
Unmarked(state) == IF MarkPending THEN "failed" ELSE state

\* Mutants: the select has no case for the failures of the stream, or for the
\* end of the context.
MutDeafToLoss == FALSE
MutDeafToInterrupt == FALSE

SeeSignalLost ==
    /\ sup = "supervise" /\ heard = "lost"
    /\ UNCHANGED exitSeen
    /\ Decide(Unmarked("gateway_failed"), "signal_lost")
    /\ UNCHANGED <<coreVars, heard, mark, supErr, summary, envVars>>

SeeDeadline ==
    /\ sup = "supervise" /\ fired = "yes"
    /\ fired' = "taken"
    /\ UNCHANGED exitSeen
    /\ Decide(Unmarked("deadline"), "deadline")
    /\ UNCHANGED <<coreVars, heard, mark, supErr, summary,
                   child, exit, waited, sweep, interrupted, tripped, faults>>

SeeInterrupt ==
    /\ sup = "supervise" /\ interrupted
    /\ UNCHANGED exitSeen
    /\ Decide(Unmarked("interrupted"), "interrupted")
    /\ UNCHANGED <<coreVars, heard, mark, supErr, summary, envVars>>

SeeMarked ==
    /\ sup = "supervise" /\ mark = "ok"
    /\ mark' = "read"
    /\ UNCHANGED exitSeen
    /\ IF exitSeen THEN Decide(ByExit, "none") ELSE UNCHANGED <<sup, result, stop>>
    /\ UNCHANGED <<coreVars, heard, supErr, summary, envVars>>

\* Cancellation and deadlines take precedence over the request error.
SeeMarkError ==
    /\ sup = "supervise" /\ mark = "err"
    /\ mark' = "read"
    /\ UNCHANGED exitSeen
    /\ fired' = IF fired = "yes" THEN "taken" ELSE fired
    /\ LET reason == IF fired = "yes" THEN "deadline"
                     ELSE IF interrupted THEN "interrupted"
                     ELSE "control_unavailable"
       IN /\ Decide("failed", reason)
          /\ supErr' = (reason = "control_unavailable")
    /\ UNCHANGED <<coreVars, heard, summary,
                   child, exit, waited, sweep, interrupted, tripped, faults>>

-----------------------------------------------------------------------------
\* Terminate: the group is signalled, and the root ends of it ...
TerminateChild ==
    /\ sup = "terminate"
    /\ RootEnds
    /\ UNCHANGED <<coreVars, supVars, waited, sweep, fired, interrupted, tripped, faults>>

NotTerminated ==
    /\ result' = [state |-> "termination_failed", term |-> "failed", code |-> "normalized"]
    /\ supErr' = TRUE

\* ... Terminate returns when the root has been waited for, with the error of
\* the sweep.
TerminateReturns ==
    /\ sup = "terminate" /\ waited
    /\ IF sweep = "failed"
         THEN NotTerminated
         ELSE result' = [result EXCEPT !.term = "succeeded"] /\ UNCHANGED supErr
    /\ sup' = "finish"
    /\ UNCHANGED <<coreVars, heard, mark, stop, exitSeen, summary, envVars>>

\* The group cannot be signalled: the sweep is tried at once, and the root is
\* killed alone.  Three seconds later it is gone, or it is not.
TerminateFails ==
    /\ sup = "terminate" /\ "kill" \in faults /\ ~waited
    /\ sweep' \in {"ok", "failed"}
    /\ child' \in {child, "left", "exited"}
    /\ exit' = IF child = "running" /\ child' # child THEN "nonzero" ELSE exit
    /\ waited' = (child' # "running")
    /\ NotTerminated
    /\ sup' = "finish"
    /\ UNCHANGED <<coreVars, heard, mark, stop, exitSeen, summary,
                   fired, interrupted, tripped, faults>>

-----------------------------------------------------------------------------
\* Finish: what the core makes of the request, and what the supervisor makes
\* of the answer.

Return ==
    /\ sup' = "done"
    /\ UNCHANGED <<result, stop>>

\* Mutant: a 400 is like any other error.
MutNoReconcile == FALSE

\* A natural exit that the core refuses with 400 was preceded by a block.
Reconciles == result.term = "not_required" /\ exitSeen

\* Mutant: the error of the finish request is not joined to the others.
MutSwallowFinishError(ok) == Return /\ UNCHANGED supErr

Answer(ok) ==
    IF ok THEN Return /\ UNCHANGED supErr ELSE Return /\ supErr' = TRUE

Stored == IF row.state = "blocked" THEN BlockedResult(result) ELSE result

FinishAccepted ==
    IF row.state = "blocked" THEN AcceptedWhenBlocked(result) ELSE AcceptedWhenActive(result)

FinishServed ==
    /\ sup = "finish" /\ up
    /\ FinishAccepted
    /\ live /\ WellFormed(Stored) /\ CanFinish(row, Stored)
    /\ row' = FinishedRow(row, Stored)
    /\ live' = FALSE
    /\ \/ Answer(TRUE) /\ summary' = row'
       \/ Unreachable /\ Answer(FALSE) /\ UNCHANGED summary
    /\ UNCHANGED <<up, restarts, gateway, notified, stream, heard, mark, exitSeen, envVars>>

\* 400: on a blocked row the request does not say how the termination went.
FinishRefused ==
    /\ sup = "finish" /\ up
    /\ row.state # "absent" /\ ~FinishAccepted
    /\ IF Reconciles
         THEN /\ result' = [result EXCEPT !.term = "succeeded"]
              /\ stop' = "policy_block"
              /\ UNCHANGED <<sup, supErr>>
         ELSE Answer(FALSE)
    /\ UNCHANGED <<coreVars, heard, mark, exitSeen, summary, envVars>>

\* 404, 409, 500 or no answer: one attempt is made.
FinishFails ==
    /\ sup = "finish"
    /\ \/ Unreachable \/ "store" \in faults \/ row.state = "absent"
       \/ FinishAccepted /\ ~(live /\ WellFormed(Stored) /\ CanFinish(row, Stored))
    /\ Answer(FALSE)
    /\ UNCHANGED <<coreVars, heard, mark, exitSeen, summary, envVars>>

-----------------------------------------------------------------------------
\* The core stops (killed, or shut down on request): what it has in memory is
\* lost, and so are the requests in flight.
Crash ==
    /\ up /\ "crash" \in faults /\ restarts < MaxRestarts
    /\ up' = FALSE
    /\ live' = FALSE
    /\ gateway' = "idle"
    /\ mark' = IF mark = "sent" THEN "err" ELSE mark
    /\ LoseStream
    /\ UNCHANGED <<restarts, row, notified, sup, result, stop, exitSeen, supErr, summary, envVars>>

Restart ==
    /\ ~up
    /\ up' = TRUE
    /\ restarts' = restarts + 1
    /\ row' = RecoveredRow(row)
    /\ UNCHANGED <<live, gateway, notified, stream, supVars, envVars>>

-----------------------------------------------------------------------------
SupervisorStep ==
    \/ RegisterServed \/ RegisterFails \/ SubscribeServed \/ SubscribeFails
    \/ StartChild \/ StartFails
    \/ SeeExit \/ SeeCircuitBreak \/ SeeSignalLost \/ SeeDeadline \/ SeeInterrupt
    \/ SeeMarked \/ SeeMarkError
    \/ TerminateChild \/ TerminateReturns \/ TerminateFails
    \/ FinishServed \/ FinishRefused \/ FinishFails

BlockStep == RecordBlock \/ Notify

MarkStep == MarkServed \/ MarkFails

Environment ==
    \/ ChildExits \/ DescendantsExit \/ DeadlineFires \/ Interrupt \/ CallBlocked \/ CutStream \/ Crash

Next == SupervisorStep \/ Reap \/ BlockStep \/ DeliverNotice \/ MarkStep \/ Environment \/ Restart

Spec == Init /\ [][Next]_vars

\* The supervisor, the goroutine that waits for the root, the two goroutines of
\* the core (the blocked call's and the stream's) and the background request go
\* on; a request is answered or fails.
\* The child, the user, the clock and the network owe nothing.
FairSpec ==
    /\ Spec
    /\ WF_vars(SupervisorStep)
    /\ WF_vars(Reap)
    /\ WF_vars(BlockStep)
    /\ WF_vars(DeliverNotice)
    /\ WF_vars(MarkStep)

-----------------------------------------------------------------------------
\* Safety.

\* The command does not return while the root runs, whatever stopped the
\* supervision, unless it could not be killed and the command says so; and it
\* leaves descendants behind only when it tried to kill them and could not.
NoOrphan == sup = "done" =>
    /\ child = "running" => result.term = "failed" /\ supErr
    /\ child = "left" => sweep = "failed" \/ result.term = "failed"

\* The table says that the tree has ended by itself, or was terminated, only
\* when the root is gone and its group was swept; descendants can then be there
\* only because the sweep failed.  Nothing else is excepted, but that is: when
\* the root had ended before the supervisor stopped it, the row says "succeeded",
\* although the design has it that "Virgil must not claim that the circuit break
\* succeeded".
TerminationIsTruthful ==
    row.term \in {"not_required", "succeeded"} =>
        child # "running" /\ (child = "left" => sweep = "failed")

\* A command that returns no error has its outcome in the table, for good: the
\* late `running` request, a block in flight or a core restart cannot take it
\* back, and a blocked run is not reported as anything else.
SuccessIsRecorded ==
    sup = "done" /\ ~supErr =>
        /\ row.ended /\ summary = row
        /\ row.policy => row.state = "blocked"
        /\ row.state = "completed" => exit = "zero" /\ child = "exited"

\* When nothing fails, what the supervisor has to report is accepted, in every
\* race of the child's exit, a block, the deadline, an interruption and the
\* background `running` request.
ReportIsAccepted ==
    faults = {} /\ sup = "done" /\ result.state # "none" => row.ended

\* README: "A policy block is recorded and terminates the supervised process
\* tree."  Once the gateway has dealt with a block, it is in the table.
BlockIsRecorded == tripped /\ gateway = "idle" => row.policy

-----------------------------------------------------------------------------
\* Liveness.

\* The tree is gone, or the operating system would not kill it.
Stopped == child = "exited" \/ sweep = "failed" \/ result.term = "failed"

\* The circuit breaker works: a child with a blocked call is stopped, even if
\* the block cannot be recorded or the core or the stream dies under way.
TrippedChildStops == (tripped /\ child # "none" /\ sup = "supervise") ~> Stopped

\* A child does not outlive the core it was started under.
CoreLossStopsChild == (~up /\ child # "none") ~> Stopped

\* A deadline or an interruption ends the command.
StopRequestReturns ==
    ((fired = "yes" \/ interrupted) /\ sup = "supervise") ~> (sup = "done")

=============================================================================
