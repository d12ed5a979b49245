---------------------------- MODULE ExecutionRow ----------------------------
(***************************************************************************)
(* One row of the SQLite table `executions`, what each statement of        *)
(* internal/storage does to it, and which finish requests the core passes  *)
(* to the store.  Every statement is a conditional UPDATE (or an INSERT .. *)
(* ON CONFLICT DO NOTHING) run in one transaction, so a statement is a     *)
(* guard on the row and a function from row to row.  The modules of the    *)
(* registry and of the supervisor use these operators.                     *)
(*                                                                         *)
(* Abstractions: timestamps, exit codes and the texts of the stop reason   *)
(* and of the policy decision are left out.  `policy` says whether the     *)
(* policy columns are filled, `ended` whether ended_at_unix_ns is.         *)
(***************************************************************************)

\* States a runner may report (the ones the finish endpoint accepts).
RunnerTerminal == {"completed", "failed", "deadline", "interrupted",
                   "gateway_failed", "termination_failed"}

\* The persisted states; "absent" stands for "there is no row".
States == {"absent", "starting", "running", "blocked"} \cup RunnerTerminal

\* "null" is SQL NULL, and the empty string of the API (NULLIF(?, '')).
Terminations == {"null", "not_required", "succeeded", "failed"}

\* A termination error code: none, of the normalised form, or of another form.
Codes == {"none", "normalized", "malformed"}

Row == [state : States, policy : BOOLEAN, term : Terminations, ended : BOOLEAN]

\* ExecutionResult: what a finish call asks the store to write.
Result == [state : RunnerTerminal \cup {"blocked"},
           term : Terminations, code : Codes]

NoRow == [state |-> "absent", policy |-> FALSE, term |-> "null", ended |-> FALSE]

-----------------------------------------------------------------------------
\* Mutant: ON CONFLICT(run_id) DO UPDATE, an execution can be begun again.
MutUpsert(row) == TRUE

\* INSERT .. ON CONFLICT(run_id) DO NOTHING: only an absent row is created.
CanStart(row) == row.state = "absent"
StartedRow == [NoRow EXCEPT !.state = "starting"]

\* UPDATE .. SET state='running' WHERE state='starting'.
CanRun(row) == row.state = "starting"
RunningRow(row) == [row EXCEPT !.state = "running"]

\* UPDATE .. SET state='blocked', policy=.. WHERE state='running'.
CanBlock(row) == row.state = "running"
BlockedRow(row) == [row EXCEPT !.state = "blocked", !.policy = TRUE]

\* The results FinishExecution is ready to write; it refuses any other with a
\* plain error before it touches the table.
WellFormed(res) ==
    \/ res.state = "blocked" /\ res.term = "succeeded" /\ res.code = "none"
    \/ res.state = "termination_failed" /\ res.term = "failed" /\ res.code = "normalized"
    \/ /\ res.state \notin {"blocked", "termination_failed"}
       /\ res.term # "failed"
       /\ res.code = "none"

\* Mutant: one WHERE clause for every result, the widest.
MutOneWhereClause(state) == {"starting", "blocked", "running"}

\* The WHERE clause of the UPDATE chosen by the result's state.
FinishSources(state) ==
    IF state = "blocked" THEN {"blocked"}
    ELSE IF state = "termination_failed" THEN {"starting", "blocked", "running"}
    ELSE IF state = "failed" THEN {"starting", "running"}
    ELSE {"running"}

CanFinish(row, res) ==
    /\ row.state \in FinishSources(res.state)
    /\ res.state \in {"blocked", "termination_failed"} => row.term = "null"

\* Mutants: the two termination columns bound in the wrong order; the UPDATE of
\* a blocked row without ended_at_unix_ns.
MutSwappedColumns(row, res) ==
    [row EXCEPT !.state = res.state, !.term = res.code, !.ended = TRUE]
MutBlockedNotEnded(row, res) ==
    [row EXCEPT !.state = res.state, !.term = res.term, !.ended = res.state # "blocked"]

FinishedRow(row, res) ==
    [row EXCEPT !.state = res.state, !.term = res.term, !.ended = TRUE]

\* RecoverExecutions: the rows a previous core left active.
RecoveredRow(row) ==
    IF row.state \in {"starting", "running"}
      THEN [row EXCEPT !.state = "interrupted", !.ended = TRUE]
      ELSE row

-----------------------------------------------------------------------------
\* What the finish endpoint makes of a request before the store sees it.

\* blockedFinishResult: on a blocked row only the termination counts.
AcceptedWhenBlocked(input) ==
    \/ input.term = "succeeded" /\ input.code = "none"
    \/ input.term = "failed" /\ input.code # "none"

BlockedResult(input) ==
    [input EXCEPT !.state = IF input.term = "succeeded" THEN "blocked"
                            ELSE "termination_failed"]

AcceptedWhenActive(input) ==
    IF input.state = "termination_failed"
      THEN input.term = "failed" /\ input.code # "none"
      ELSE input.term # "failed" /\ input.code = "none"

-----------------------------------------------------------------------------
\* A run whose outcome is not recorded yet: starting, running, or blocked and
\* waiting for the outcome of the process-tree termination.
Active(row) == row.state \in {"starting", "running", "blocked"} /\ ~row.ended
=============================================================================
