--------------------------- MODULE RemotePolicy ---------------------------
(***************************************************************************)
(* Limits, and the merge of the local limits with a remote policy          *)
(* (internal/policies policy.go, internal/controlplane policy.go).         *)
(*                                                                         *)
(* "calls" stands for every integer limit of a run, "cost" for the cost    *)
(* cap and "providers" for the three allowlists, which the code treats     *)
(* alike.  The operators keep no state.                                    *)
(***************************************************************************)
EXTENDS Integers

CONSTANT Providers     \* what an allowlist may name

\* A cost cap that is not set; a limit of zero is one that is not set.
NoCap == -1
Unlimited == 0

Cap == Nat \cup {NoCap}

\* deny: the lists of the two sides have nothing in common.
Limits == [calls : Nat, cost : Cap, providers : SUBSET Providers, deny : BOOLEAN]

\* A negative integer stands for every value that Merge refuses.
PolicyEnvelope == [version : Nat, calls : Int, cost : Cap, providers : SUBSET Providers]

\* Mutant: a limit that the remote policy sets replaces the local one.
MutRemoteWins(a, b) == IF b = Unlimited THEN a ELSE b

stricterInt(a, b) ==
    IF a = Unlimited THEN b ELSE IF b = Unlimited \/ a < b THEN a ELSE b

stricterCost(a, b) ==
    IF a = NoCap THEN b ELSE IF b = NoCap \/ a <= b THEN a ELSE b

\* An empty list allows everything.
stricterList(local, remote) ==
    IF local = {} THEN remote ELSE IF remote = {} THEN local ELSE local \cap remote

Disjoint(local, remote) == local # {} /\ remote # {} /\ local \cap remote = {}

\* When Merge returns limits and not an error.
Mergeable(remote, lastVersion) ==
    /\ remote.version > 0
    /\ lastVersion > 0 => remote.version > lastVersion
    /\ remote.calls >= 0

Merge(local, remote) ==
    [calls |-> stricterInt(local.calls, remote.calls),
     cost |-> stricterCost(local.cost, remote.cost),
     providers |-> stricterList(local.providers, remote.providers),
     deny |-> local.deny \/ Disjoint(local.providers, remote.providers)]

\* What limits allow: a run's n-th call, a cost, a provider (allowed).
AllowsCall(l, n) == l.calls = Unlimited \/ n <= l.calls
AllowsCost(l, c) == l.cost = NoCap \/ c <= l.cost
AllowsProvider(l, p) == ~l.deny /\ (l.providers = {} \/ p \in l.providers)

\* Whatever l allows, m allows.
AsStrictAs(l, m) ==
    /\ \A n \in Nat : AllowsCall(l, n) => AllowsCall(m, n)
    /\ \A c \in Nat : AllowsCost(l, c) => AllowsCost(m, c)
    /\ \A p \in Providers : AllowsProvider(l, p) => AllowsProvider(m, p)
=============================================================================
