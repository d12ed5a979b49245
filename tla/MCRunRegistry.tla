--------------------------- MODULE MCRunRegistry ---------------------------
\* RunRegistry with small sets of runs, handlers and records.
EXTENDS RunRegistry, TLC

\* What the supervisor sends: a normal exit, a stopped child, a child it could
\* not stop; and a result whose code the store refuses.
MCInputs ==
    {[state |-> "completed", term |-> "not_required", code |-> "none"],
     [state |-> "failed", term |-> "succeeded", code |-> "none"],
     [state |-> "termination_failed", term |-> "failed", code |-> "normalized"],
     [state |-> "termination_failed", term |-> "failed", code |-> "malformed"]}

Symmetric == Permutations(Handlers) \cup Permutations(Addrs)
=============================================================================
