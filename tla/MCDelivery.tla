---------------------------- MODULE MCDelivery ----------------------------
(* Cores, limits and policies for the runs of Delivery. *)
EXTENDS Delivery

CONSTANTS main, other, e1, e2, p1, p2

LocalLimits == [calls |-> 3, cost |-> NoCap, providers |-> {p1}, deny |-> FALSE]

\* One that would raise the local limit, name another provider and set a cap.
Served == <<[version |-> 1, calls |-> 5, cost |-> 2, providers |-> {p2}]>>

Starts(m, o) == [c \in Cores |-> IF c = main THEN m ELSE o]

Faulty == [starts |-> Starts(1, 0), calls |-> {e1}, served |-> {1}, faults |-> TRUE,
           sleeps |-> TRUE, hangs |-> FALSE]

Hanging == [Faulty EXCEPT !.faults = FALSE, !.sleeps = FALSE, !.hangs = TRUE]

\* Two cores, the second one started by mistake, with an event and with a
\* policy; a restart; two events in a batch; and a Control Plane that may hang.
MCWorkloads ==
    {[Faulty EXCEPT !.starts = Starts(1, 1), !.served = {}],
     [Faulty EXCEPT !.starts = Starts(1, 1), !.calls = {}],
     [Faulty EXCEPT !.starts = Starts(2, 0)],
     [Faulty EXCEPT !.calls = {e1, e2}, !.served = {}, !.sleeps = FALSE],
     Hanging, [Hanging EXCEPT !.starts = Starts(1, 1), !.served = {}]}

\* A Control Plane that may hang whenever it is given an event.
HangWorkloads == {[Hanging EXCEPT !.served = {}]}

\* A core that has nothing to deliver.
IdleWorkloads == {[Faulty EXCEPT !.calls = {}, !.served = {}, !.faults = FALSE]}
=============================================================================
