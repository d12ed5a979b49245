------------------------- MODULE DeliveryPromise --------------------------
(***************************************************************************)
(* What the outbox promises of each event: it is delivered only if the     *)
(* Control Plane took it, given up only after a refusal or after the last  *)
(* attempt, forgotten only once it is delivered, and final unless a sender *)
(* lost its lease on it.                                                   *)
(***************************************************************************)
CONSTANT Events

VARIABLES
    status,     \* "none", "open", "delivered", "dead" or "forgotten"
    taken,      \* events that the Control Plane has stored
    refused,    \* events that it has called invalid
    exhausted,  \* events whose attempts are used up
    overtaken   \* events whose lease ended under a sender

vars == <<status, taken, refused, exhausted, overtaken>>

Init ==
    /\ status = [e \in Events |-> "none"]
    /\ taken = {} /\ refused = {} /\ exhausted = {} /\ overtaken = {}

Become(e, from, to) ==
    /\ status[e] \in from
    /\ status' = [status EXCEPT ![e] = to]

Store(e) == Become(e, {"none"}, "open")

Deliver(e) == e \in taken /\ Become(e, {"open"}, "delivered")

GiveUp(e) == e \in refused \cup exhausted' /\ Become(e, {"open"}, "dead")

\* A sender that lost its lease reports a failure late.
Reopen(e) ==
    /\ e \in overtaken
    /\ \/ Become(e, {"delivered", "dead"}, "open")
       \/ e \in exhausted' /\ Become(e, {"delivered"}, "dead")

Forget(S) ==
    /\ \A e \in S : status[e] = "delivered"
    /\ status' = [e \in Events |-> IF e \in S THEN "forgotten" ELSE status[e]]

\* The Control Plane forgets nothing, and nothing is refused or stored by a
\* step that settles an event.
Next ==
    /\ taken \subseteq taken' /\ refused \subseteq refused'
    /\ \/ status' = status
       \/ /\ UNCHANGED <<taken, refused>>
          /\ \/ \E e \in Events : Store(e) \/ Deliver(e) \/ GiveUp(e) \/ Reopen(e)
             \/ \E S \in SUBSET Events : Forget(S)

Spec == Init /\ [][Next]_vars
=============================================================================
