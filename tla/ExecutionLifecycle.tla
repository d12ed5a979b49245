------------------------ MODULE ExecutionLifecycle ------------------------
(***************************************************************************)
(* What the durable execution table promises to whoever reads it (the      *)
(* dashboard, the runner's summary, a later core), whatever handlers,      *)
(* crashes and restarts are behind it.  It says nothing of the registry,   *)
(* of credentials or of HTTP: RunRegistry is shown to implement it.        *)
(*                                                                         *)
(* The promise, read off the WHERE clauses of storage/executions.go:       *)
(*   - an execution is begun once and runs at most once;                   *)
(*   - only a running execution is tripped by a policy, and the policy     *)
(*     columns written then are never lost;                                *)
(*   - exactly one outcome is recorded, and it is never overwritten;       *)
(*   - the outcome agrees with the history: a tripped execution ends as    *)
(*     blocked or termination_failed, one that never ran cannot complete,  *)
(*     and termination_failed goes with a failed termination.              *)
(***************************************************************************)
EXTENDS ExecutionRow

CONSTANT Runs

VARIABLE rows

Init == rows = [r \in Runs |-> NoRow]

Begin(r) ==
    /\ rows[r] = NoRow
    /\ rows' = [rows EXCEPT ![r] = StartedRow]

Run(r) ==
    /\ rows[r].state = "starting"
    /\ rows' = [rows EXCEPT ![r].state = "running"]

Trip(r) ==
    /\ rows[r].state = "running"
    /\ rows' = [rows EXCEPT ![r] = [@ EXCEPT !.state = "blocked", !.policy = TRUE]]

\* The outcomes that agree with what is already known of the execution.
Outcome(row) ==
    {out \in [state : RunnerTerminal \cup {"blocked"}, term : Terminations] :
        /\ out.state = "termination_failed" <=> out.term = "failed"
        /\ out.state = "blocked" => row.policy /\ out.term = "succeeded"
        /\ row.policy => out.state \in {"blocked", "termination_failed"}
        /\ row.state = "starting" => out.state \in {"failed", "termination_failed"}}

Conclude(r) ==
    /\ Active(rows[r])
    /\ \E out \in Outcome(rows[r]) :
         rows' = [rows EXCEPT ![r] = [@ EXCEPT !.state = out.state,
                                               !.term = out.term,
                                               !.ended = TRUE]]

\* A core that starts interrupts every run that is starting or running.
Recover == rows' = [r \in Runs |-> RecoveredRow(rows[r])]

Next == Recover \/ \E r \in Runs : Begin(r) \/ Run(r) \/ Trip(r) \/ Conclude(r)

Spec == Init /\ [][Next]_rows
=============================================================================
