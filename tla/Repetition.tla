---------------------------- MODULE Repetition ----------------------------
(***************************************************************************)
(* The repetition counts of the policy engine (internal/policies           *)
(* repetition.go) and the rows that keep them over a restart               *)
(* (internal/storage repetition.go).                                       *)
(*                                                                         *)
(* A count is changed under a mutex and saved after it, and a check that   *)
(* does not find a run in memory reads its row and fills the cache, again  *)
(* without the mutex in between.  A cache drops its oldest run when it is  *)
(* full.                                                                   *)
(***************************************************************************)
EXTENDS Integers, Sequences, SequencesExt

CONSTANTS
    Runs,
    MaxRuns,      \* maxRepetitionRuns: 1024 in the code
    MaxSeen,      \* maxFeedbackIDsPerRun: 256 in the code
    Threshold,    \* 3 in the code
    None          \* no value

ASSUME RepetitionAssumption == {MaxRuns, MaxSeen, Threshold} \subseteq Nat \ {0}

VARIABLES
    cache,   \* repetitions, providerRepetitions, callRepetitions
    order,   \* repetitionOrder, providerOrder, callOrder
    saved    \* run_repetition_state

repetition == <<cache, order, saved>>

\* In the order in which Preflight asks for them.
Kinds == <<"tool_error", "provider_error", "tool_call">>
KindSet == {Kinds[n] : n \in DOMAIN Kinds}

NoEntry == [value |-> None, count |-> -1, seen |-> <<>>]
Zero == [NoEntry EXCEPT !.count = 0]

\* A row; a count of zero and no row are treated alike.
NoRow == [value |-> None, count |-> 0]
Row(entry) == [value |-> entry.value, count |-> entry.count]

RepetitionInit ==
    /\ cache = [k \in KindSet |-> [r \in Runs |-> NoEntry]]
    /\ order = [k \in KindSet |-> <<>>]
    /\ saved = [k \in KindSet |-> [r \in Runs |-> NoRow]]

Cached(k, r) == cache[k][r] # NoEntry
EntryOf(k, r) == IF Cached(k, r) THEN cache[k][r] ELSE Zero

\* Mutant: a full cache drops the newest run.
MutDropNewest(k, r, entry) ==
    LET full == ~Cached(k, r) /\ Len(order[k]) >= MaxRuns
    IN  /\ cache' = [cache EXCEPT ![k] = [q \in Runs |->
               IF full /\ q = Head(order[k]) THEN @[q] ELSE IF q = r THEN entry ELSE @[q]]]
        /\ order' = [order EXCEPT ![k] =
               IF Cached(k, r) THEN @ ELSE Append(IF full THEN Tail(@) ELSE @, r)]

\* An entry is put into its cache; the oldest one leaves a full cache.
Put(k, r, entry) ==
    LET full == ~Cached(k, r) /\ Len(order[k]) >= MaxRuns
    IN  /\ cache' = [cache EXCEPT ![k] = [q \in Runs |->
               IF q = r THEN entry ELSE IF full /\ q = Head(order[k]) THEN NoEntry ELSE @[q]]]
        /\ order' = [order EXCEPT ![k] =
               IF Cached(k, r) THEN @ ELSE Append(IF full THEN Tail(@) ELSE @, r)]

\* A value that follows itself is counted on, another one from one.
Count(entry, value) ==
    [entry EXCEPT !.count = IF entry.value = value THEN @ + 1 ELSE 1, !.value = value]

-----------------------------------------------------------------------------
\* What a handler makes of an entry, under the mutex.
RecordToolCalls(entry, prints) == FoldLeft(Count, entry, prints)

\* Mutant: a success leaves the count of errors as it is.
MutKeepErrors(entry, status, code) == IF status = "success" THEN entry ELSE Count(entry, code)

RecordProviderOutcome(entry, status, code) ==
    IF status = "success" THEN Zero ELSE Count(entry, code)

\* A result whose id the entry has seen changes nothing.
RecordToolResult(entry, id, result) ==
    LET e == [entry EXCEPT !.seen = Append(IF Len(@) >= MaxSeen THEN Tail(@) ELSE @, id)]
    IN  IF Contains(entry.seen, id) THEN entry
        ELSE IF result = "success" THEN [e EXCEPT !.count = 0, !.value = result]
        ELSE Count(e, result)

\* SaveRepetitionState, whatever the row was.
SaveRow(k, r, row) == saved' = [saved EXCEPT ![k][r] = row]

\* Mutant: a cold check trusts its row over what was recorded meanwhile.
MutFillAlways(k, r, row) ==
    Put(k, r, [Zero EXCEPT !.count = row.count,
                           !.value = IF k = "tool_error" THEN None ELSE row.value])

\* Mutant: the row's count is restored without what was counted.
MutFillCountOnly(k, r, row) ==
    IF Cached(k, r) THEN UNCHANGED <<cache, order>>
    ELSE Put(k, r, [Zero EXCEPT !.count = row.count])

\* A check fills the cache from the row it has read, unless a handler was
\* there first.  What the tool errors were, and the ids seen, is not restored.
Fill(k, r, row) ==
    IF Cached(k, r) THEN UNCHANGED <<cache, order>>
    ELSE Put(k, r, [Zero EXCEPT !.count = row.count,
                                !.value = IF k = "tool_error" THEN None ELSE row.value])

\* A process that ends leaves the rows.
Forgotten ==
    /\ cache' = [k \in KindSet |-> [r \in Runs |-> NoEntry]]
    /\ order' = [k \in KindSet |-> <<>>]
    /\ UNCHANGED saved

\* Retention takes the rows of the runs that it finds old.
Pruned(old) ==
    /\ saved' = [k \in KindSet |-> [r \in Runs |-> IF r \in old THEN NoRow ELSE saved[k][r]]]
    /\ UNCHANGED <<cache, order>>

CachesOK ==
    \A k \in KindSet :
        /\ Len(order[k]) <= MaxRuns
        /\ {r \in Runs : Cached(k, r)} = ToSet(order[k])
        /\ \A r \in Runs : Len(cache[k][r].seen) <= MaxSeen
=============================================================================
