------------------------------ MODULE Outbox ------------------------------
(***************************************************************************)
(* The outbox table (internal/storage outbox.go, sqlite.go, retention.go): *)
(* one row for each event that waits for the Control Plane.                *)
(*                                                                         *)
(* The clock is abstracted to what the table compares it with: a row is    *)
(* "ripe" when the next attempt of a pending or retryable row, or the      *)
(* lease of a row in state sending, is over.                               *)
(***************************************************************************)
EXTENDS Integers, FiniteSets

CONSTANTS
    Events,        \* the events of the journal
    MaxAttempts,   \* maxAttempts: 10 in the code
    BatchLimit     \* rows leased at a time: 100 in the code

ASSUME OutboxAssumption ==
    MaxAttempts \in Nat \ {0} /\ BatchLimit \in Nat \ {0}

VARIABLE outbox

\* "none" before the event is stored; "pruned" once it was deleted.
RowStates == {"none", "pending", "retryable", "sending", "delivered", "dead_letter", "pruned"}

NoRow == [state |-> "none", attempts |-> 0, ripe |-> FALSE]
Present(e) == outbox[e].state \notin {"none", "pruned"}

\* The events and outbox rows of one append, in one transaction.
Insert(e) == outbox' = [outbox EXCEPT ![e] = [NoRow EXCEPT !.state = "pending", !.ripe = TRUE]]

\* Mutant: a row that is being sent is leased again at once.
MutLeaseAgain == {e \in Events : outbox[e].state \in {"pending", "retryable", "sending"}}

\* Mutant: a row whose sender has died is never leased again.
MutLeaseOnce == {e \in Events : outbox[e].state \in {"pending", "retryable"} /\ outbox[e].ripe}

Leasable == {e \in Events : outbox[e].state \in {"pending", "retryable", "sending"}
                            /\ outbox[e].ripe}

\* The batches that Lease may choose.
Batches == {S \in SUBSET Leasable :
               Cardinality(S) = (IF Cardinality(Leasable) < BatchLimit
                                 THEN Cardinality(Leasable) ELSE BatchLimit)}

Lease(S) ==
    outbox' = [e \in Events |->
        IF e \in S THEN [outbox[e] EXCEPT !.state = "sending", !.ripe = FALSE] ELSE outbox[e]]

\* Ack and DeadLetter change a row that is being sent, whoever leased it.
Ack(e) ==
    outbox' = IF outbox[e].state = "sending"
              THEN [outbox EXCEPT ![e].state = "delivered", ![e].ripe = FALSE] ELSE outbox

DeadLetter(e) ==
    outbox' = IF outbox[e].state = "sending"
              THEN [outbox EXCEPT ![e].state = "dead_letter", ![e].ripe = FALSE,
                                  ![e].attempts = @ + 1]
              ELSE outbox

\* The second statement of Fail: it changes the row in whatever state it is.
\* seen is what the first statement read.
FailRow(e, seen) ==
    outbox' = IF ~Present(e) THEN outbox
              ELSE [outbox EXCEPT ![e] =
                [state |-> IF seen + 1 >= MaxAttempts THEN "dead_letter" ELSE "retryable",
                 attempts |-> seen + 1, ripe |-> FALSE]]

\* Time passes the next attempt or the lease of a row.
Ripen(e) ==
    /\ outbox[e].state \in {"retryable", "sending"} /\ ~outbox[e].ripe
    /\ outbox' = [outbox EXCEPT ![e].ripe = TRUE]

\* What Prune may delete of the events that are old enough.
Prunable(e) == outbox[e].state = "delivered"

Prune(old) ==
    outbox' = [e \in Events |->
        IF e \in old /\ Prunable(e) THEN [NoRow EXCEPT !.state = "pruned"] ELSE outbox[e]]
=============================================================================
