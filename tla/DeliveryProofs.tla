-------------------------- MODULE DeliveryProofs ---------------------------
(***************************************************************************)
(* Proofs about Delivery, for every set of events, cores and providers,    *)
(* every sequence of policies, every bound and every fault switch.  Three  *)
(* inductive invariants, each on top of the ones before: PolicyInv (what   *)
(* is in force is what was merged and saved), Typed (types, and who has a  *)
(* batch) and EventInv (what the callers, the queue, the senders and the   *)
(* rows know of each other).  The last one makes every step of the outbox  *)
(* a step of DeliveryPromise.                                              *)
(***************************************************************************)
EXTENDS Delivery, TLAPS

-----------------------------------------------------------------------------
(***************************************************************************)
(* The merge.                                                              *)
(***************************************************************************)

\* The merge of limits with a policy that is not refused is limits.
LEMMA MergeType ==
  ASSUME NEW local \in Limits, NEW remote \in PolicyEnvelope, remote.calls >= 0
  PROVE  Merge(local, remote) \in Limits
  BY DEF Merge, Limits, PolicyEnvelope, Cap, NoCap, Unlimited, stricterInt, stricterCost,
         stricterList

\* A limit of the merge is never above the local one.
LEMMA StricterLimits ==
  ASSUME NEW local \in Limits, NEW remote \in PolicyEnvelope, remote.calls >= 0
  PROVE  /\ \A n \in Nat : AllowsCall(Merge(local, remote), n) => AllowsCall(local, n)
         /\ \A c \in Nat : AllowsCost(Merge(local, remote), c) => AllowsCost(local, c)
  BY DEF Merge, Limits, PolicyEnvelope, Cap, NoCap, Unlimited, AllowsCall, AllowsCost,
         stricterInt, stricterCost

\* A provider that the merge allows is allowed by the local list.
LEMMA StricterProviders ==
  ASSUME NEW local \in Limits, NEW remote \in PolicyEnvelope, NEW p \in Providers,
         AllowsProvider(Merge(local, remote), p)
  PROVE  AllowsProvider(local, p)
  BY DEF Merge, Limits, PolicyEnvelope, AllowsProvider, stricterList, Disjoint

\* Merge: whatever the remote policy says, what is in force allows nothing
\* that the local limits forbid.
THEOREM MergeNeverLooser ==
  ASSUME NEW local \in Limits, NEW remote \in PolicyEnvelope, remote.calls >= 0
  PROVE  AsStrictAs(Merge(local, remote), local)
  BY StricterLimits, StricterProviders DEF AsStrictAs

-----------------------------------------------------------------------------
(***************************************************************************)
(* The policy.                                                             *)
(***************************************************************************)

\* Limits that are in force with the version v.
InForce(v) == IF v = 0 THEN Local ELSE Merge(Local, Policies[v])

\* A version that Merge has accepted, or none.
Accepted(v) == v = 0 \/ (v \in Versions /\ Policies[v].calls >= 0)

PolicyInv ==
    /\ Accepted(cached)
    /\ applied \in [Cores -> {0} \cup Versions]
    /\ limits = [c \in Cores |-> InForce(applied[c])]
    /\ \A c \in Cores : Accepted(applied[c]) /\ applied[c] <= cached

\* What any step does to the policy.
PolicyStep ==
    \/ UNCHANGED <<cached, applied, limits>>
    \/ \E v \in Versions : Policies[v].calls >= 0 /\ cached < v /\ cached' = v
                           /\ UNCHANGED <<applied, limits>>
    \/ \E c \in Cores : \E v \in {0, cached} :
         /\ UNCHANGED cached
         /\ applied' = [applied EXCEPT ![c] = v]
         /\ limits' = [limits EXCEPT ![c] = InForce(v)]
    \/ \E c \in Cores : \E v \in Versions :
         /\ Policies[v].calls >= 0 /\ cached < v /\ cached' = v
         /\ applied' = [applied EXCEPT ![c] = v]
         /\ limits' = [limits EXCEPT ![c] = InForce(v)]

\* The versions of the envelopes are what ASSUME says they are.
LEMMA VersionFacts ==
  ASSUME NEW v \in Versions
  PROVE  v \in Nat \ {0} /\ Policies[v] \in PolicyEnvelope /\ Policies[v].version = v
  BY PolicyAssumption DEF Versions

\* A policy that CacheAndApplyRemotePolicy takes was accepted by Merge.
LEMMA PolicySteps ==
  ASSUME PolicyInv, [Next]_vars
  PROVE  PolicyStep
  <1> USE DEF PolicyStep, policy
  <1>1. CASE Journal
    BY <1>1 DEF Journal, Append_, Enqueue, GiveUpWaiting, Write
  <1>2. ASSUME NEW c \in Cores, Loop(c)
        PROVE  PolicyStep
    <2>1. CASE Sync(c)
      <3>1. PICK v \in {0} \cup Versions :
                /\ Fetched(c, v)
                /\ \/ v <= applied[c] /\ UNCHANGED <<cached, applied, limits, progress>>
                   \/ v > applied[c] /\ CacheAndApplyRemotePolicy(c, v)
        BY <2>1 DEF Sync
      <3>2. ~(v = 0 /\ v > applied[c])
        BY VersionFacts DEF PolicyInv, Accepted
      <3>3. CASE v \in Versions /\ CacheAndApplyRemotePolicy(c, v)
        <4>1. v # 0
          BY <3>3, VersionFacts
        <4>2. QED
          BY <3>3, <4>1 DEF CacheAndApplyRemotePolicy, Mergeable, InForce
      <3>4. QED
        BY <3>1, <3>2, <3>3
    <2>2. CASE SyncFails(c)
      BY <2>2 DEF SyncFails, Mergeable
    <2>3. CASE SyncRevoked(c) \/ DrainLease(c) \/ SendBatch(c) \/ Settle(c) \/ Fail(c)
               \/ Hang(c) \/ SettleFails(c) \/ EndBatch(c)
      BY <2>3 DEF SyncRevoked, DrainLease, SendBatch, Settle, Fail, Hang, SettleFails, EndBatch
    <2>4. QED
      BY <1>2, <2>1, <2>2, <2>3 DEF Loop
  <1>3. ASSUME NEW c \in Cores, Life(c)
        PROVE  PolicyStep
    <2>1. CASE Start(c)
      BY <2>1 DEF Start, InForce
    <2>2. CASE Exit(c) \/ Crash(c)
      BY <2>2 DEF Exit, Crash, Quit, InForce
    <2>3. CASE Stop(c) \/ CloseChannel(c)
      BY <2>3 DEF Stop, CloseChannel
    <2>4. QED
      BY <1>3, <2>1, <2>2, <2>3 DEF Life
  <1>4. ASSUME NEW e \in Events, Elapse(e)
        PROVE  PolicyStep
    BY <1>4 DEF Elapse
  <1>5. CASE UNCHANGED vars
    BY <1>5 DEF vars
  <1>6. QED
    BY <1>1, <1>2, <1>3, <1>4, <1>5 DEF Next

\* No policy is in force, or in the cache, in a new installation.
LEMMA PolicyInit == Init => PolicyInv
  BY DEF Init, PolicyInv, Accepted, InForce

\* A policy is saved before it is in force, and versions only grow.
LEMMA PolicyKept == PolicyInv /\ [Next]_vars => PolicyInv'
  <1> SUFFICES ASSUME PolicyInv, PolicyStep PROVE PolicyInv'
    BY PolicySteps
  <1> USE DEF PolicyInv, Accepted, InForce
  <1>0. cached \in Nat /\ \A c \in Cores : applied[c] \in Nat
    BY VersionFacts
  <1>1. CASE UNCHANGED <<cached, applied, limits>>
    BY <1>1
  <1>2. ASSUME NEW v \in Versions, Policies[v].calls >= 0, cached < v, cached' = v,
               UNCHANGED <<applied, limits>>
        PROVE  PolicyInv'
    BY <1>0, <1>2, VersionFacts
  <1>3. ASSUME NEW c \in Cores, NEW v \in {0, cached}, UNCHANGED cached,
               applied' = [applied EXCEPT ![c] = v], limits' = [limits EXCEPT ![c] = InForce(v)]
        PROVE  PolicyInv'
    BY <1>0, <1>3
  <1>4. ASSUME NEW c \in Cores, NEW v \in Versions, Policies[v].calls >= 0, cached < v,
               cached' = v,
               applied' = [applied EXCEPT ![c] = v], limits' = [limits EXCEPT ![c] = InForce(v)]
        PROVE  PolicyInv'
    BY <1>0, <1>4, VersionFacts
  <1>5. QED
    BY <1>1, <1>2, <1>3, <1>4 DEF PolicyStep

\* Spec's fairness plays no part.
LEMMA PolicyAlways == Spec => []PolicyInv
  BY PolicyInit, PolicyKept, PTL DEF Spec, HangSpec

\* No policy of the Control Plane lets a core do what its configuration file
\* forbids.
THEOREM LocalLimitsHold == Spec => []NeverLooserThanLocal
  <1>1. PolicyInv => NeverLooserThanLocal
    <2> SUFFICES ASSUME PolicyInv, NEW c \in Cores
                 PROVE  AsStrictAs(limits[c], Local)
      BY DEF NeverLooserThanLocal, AsStrictAs
    <2>1. CASE applied[c] = 0
      BY <2>1 DEF PolicyInv, InForce, AsStrictAs
    <2>2. CASE applied[c] # 0
      BY <2>2, VersionFacts, PolicyAssumption, MergeNeverLooser DEF PolicyInv, Accepted, InForce
    <2>3. QED
      BY <2>1, <2>2
  <1>2. QED
    BY <1>1, PolicyAlways, PTL

\* What is in force is in the database, for the next start to find.
THEOREM PoliciesAreSaved == Spec => []NoPolicyIsForgotten
  <1>1. PolicyInv => NoPolicyIsForgotten
    BY VersionFacts DEF PolicyInv, Accepted, InForce, NoPolicyIsForgotten
  <1>2. QED
    BY <1>1, PolicyAlways, PTL

-----------------------------------------------------------------------------
(***************************************************************************)
(* Type correctness.                                                       *)
(***************************************************************************)

OutboxOK == outbox \in [Events -> [state : RowStates, attempts : Nat, ripe : BOOLEAN]]

RoundOK ==
    /\ batch \in [Cores -> SUBSET Events]
    /\ accepted \in [Cores -> SUBSET Events]
    /\ invalid \in [Cores -> SUBSET Events]
    /\ failing \in [Cores -> {NoFail} \cup (Events \X Nat)]
    /\ \A c \in Cores : failing[c] # NoFail => failing[c][1] \in batch[c]
    /\ progress \in [Cores -> BOOLEAN]
    /\ overtaken \subseteq UNION {batch[c] : c \in Cores}

\* Only a core that is up runs its loop, and only a loop that sends or settles
\* has events in hand.
HandsFree ==
    \A c \in Cores : /\ core[c] # "up" => pc[c] = "off"
                     /\ pc[c] \in {"off", "sync", "drain", "stopped"} => batch[c] = {}

Typed == TypeOK /\ PolicyInv /\ HandsFree

\* The statements on the outbox keep its type.
LEMMA OutboxTyped ==
  ASSUME OutboxOK
  PROVE  /\ \A e \in Events : Insert(e) \/ Ack(e) \/ DeadLetter(e) \/ Ripen(e) => OutboxOK'
         /\ \A e \in Events : \A n \in Nat : FailRow(e, n) => OutboxOK'
         /\ \A S \in SUBSET Events : Lease(S) \/ Prune(S) => OutboxOK'
  <1> DEFINE RowType == [state : RowStates, attempts : Nat, ripe : BOOLEAN]
  <1>1. ASSUME NEW e \in Events, NEW row \in RowType, outbox' = [outbox EXCEPT ![e] = row]
        PROVE  OutboxOK'
    BY <1>1 DEF OutboxOK
  <1>2. ASSUME NEW row \in RowType
        PROVE  /\ \A state \in RowStates : \A ripe \in BOOLEAN :
                    [row EXCEPT !.state = state, !.ripe = ripe] \in RowType
               /\ [row EXCEPT !.ripe = TRUE] \in RowType
               /\ [row EXCEPT !.state = "dead_letter", !.ripe = FALSE, !.attempts = @ + 1]
                    \in RowType
    <2>1. \A state \in RowStates : \A ripe \in BOOLEAN :
             [row EXCEPT !.state = state, !.ripe = ripe] \in RowType
      OBVIOUS
    <2>2. [row EXCEPT !.ripe = TRUE] \in RowType
      OBVIOUS
    <2>3. \A state \in RowStates : \A n \in Nat :
             [row EXCEPT !.state = state, !.ripe = FALSE, !.attempts = n] \in RowType
      OBVIOUS
    <2>6. row.attempts + 1 \in Nat
      OBVIOUS
    <2>4. "dead_letter" \in RowStates
      BY DEF RowStates
    <2>5. QED
      BY <2>1, <2>2, <2>3, <2>4, <2>6
  <1>3. NoRow \in RowType /\ \A state \in RowStates : [NoRow EXCEPT !.state = state] \in RowType
    BY DEF NoRow, RowStates
  <1>4. ASSUME NEW e \in Events
        PROVE  Insert(e) \/ Ack(e) \/ DeadLetter(e) \/ Ripen(e) => OutboxOK'
    <2>1. outbox[e] \in RowType /\ {"pending", "delivered"} \subseteq RowStates
      BY DEF OutboxOK, RowStates
    <2>2. CASE Insert(e)
      <3>1. [NoRow EXCEPT !.state = "pending", !.ripe = TRUE] \in RowType
        BY DEF NoRow, RowStates
      <3>2. QED
        BY <1>1, <2>2, <3>1 DEF Insert
    <2>3. CASE Ack(e)
      BY <1>1, <1>2, <2>1, <2>3 DEF Ack, OutboxOK
    <2>4. CASE DeadLetter(e)
      BY <1>1, <1>2, <2>1, <2>4 DEF DeadLetter, OutboxOK
    <2>5. CASE Ripen(e)
      BY <1>1, <1>2, <2>1, <2>5 DEF Ripen, OutboxOK
    <2>6. QED
      BY <2>2, <2>3, <2>4, <2>5
  <1>5. ASSUME NEW e \in Events, NEW n \in Nat, FailRow(e, n)
        PROVE  OutboxOK'
    BY <1>5 DEF FailRow, Present, OutboxOK, RowStates
  <1>6. ASSUME NEW S \in SUBSET Events, Lease(S)
        PROVE  OutboxOK'
    <2>1. "sending" \in RowStates
      BY DEF RowStates
    <2>2. \A e \in Events : [outbox[e] EXCEPT !.state = "sending", !.ripe = FALSE] \in RowType
      BY <1>2, <2>1 DEF OutboxOK
    <2>3. QED
      BY <1>6, <2>2 DEF Lease, OutboxOK
  <1>7. ASSUME NEW S \in SUBSET Events, Prune(S)
        PROVE  OutboxOK'
    <2>1. [NoRow EXCEPT !.state = "pruned"] \in RowType
      BY <1>3 DEF RowStates
    <2>2. QED
      BY <1>7, <2>1 DEF Prune, OutboxOK
  <1>8. QED
    BY <1>4, <1>5, <1>6, <1>7

\* A round that ends leaves nothing in hand.
LEMMA ForgetTyped ==
  ASSUME RoundOK, NEW c \in Cores, Forget(c)
  PROVE  RoundOK' /\ batch' = [batch EXCEPT ![c] = {}]
  BY DEF RoundOK, Forget, InHand, NoFail

\* An event that is settled is no longer in hand.
LEMMA SettledTyped ==
  ASSUME RoundOK, NEW c \in Cores, NEW e \in Events, Settled(c, e),
         failing[c] = NoFail \/ failing' = [failing EXCEPT ![c] = NoFail],
         failing[c] = NoFail => UNCHANGED failing,
         progress' \in [Cores -> BOOLEAN], UNCHANGED <<accepted, invalid>>
  PROVE  RoundOK' /\ batch' = [batch EXCEPT ![c] = @ \ {e}]
  BY DEF RoundOK, Settled, InHand, NoFail

\* Nothing is there before the first start.
LEMMA TypeInit == Init => Typed
  <1> SUFFICES ASSUME Init PROVE Typed
    OBVIOUS
  <1>1. Local \in Limits
    BY PolicyAssumption
  <1>2. queue \in Seq(Events) /\ Len(queue) <= QueueSize
    BY CoreAssumption DEF Init
  <1>3. 0 \in 0..MaxStreak
    BY BoundAssumption
  <1>4. work \in Workload
    BY BoundAssumption DEF Init
  <1>5. TypeOK
    BY <1>1, <1>2, <1>3, <1>4 DEF Init, TypeOK, NoRow, RowStates, NoFail
  <1>6. QED
    BY <1>5, PolicyInit DEF Init, Typed, HandsFree

\* The variables that no invariant but the types relates to each other.
JournalOK ==
    /\ caller \in [Events -> {"none", "blocked", "waiting", "ok", "refused", "failed"}]
    /\ queue \in Seq(Events) /\ Len(queue) <= QueueSize

LoopOK ==
    /\ core \in [Cores -> {"off", "up", "closing", "closed"}]
    /\ work \in Workload
    /\ last \in [Cores -> {0} \cup Versions]
    /\ revoked \in [Cores -> BOOLEAN]
    /\ pc \in [Cores -> {"off", "sync", "drain", "send", "settle", "stopped"}]
    /\ streak \in [Cores -> 0..MaxStreak]
    /\ taken \subseteq Events /\ refused \subseteq Events

\* Once the policy is right, its types are.
LEMMA TypesTogether ==
  PolicyInv => (TypeOK <=> OutboxOK /\ RoundOK /\ JournalOK /\ LoopOK)
  <1> SUFFICES ASSUME PolicyInv
               PROVE  /\ cached \in {0} \cup Versions
                      /\ applied \in [Cores -> {0} \cup Versions]
                      /\ limits \in [Cores -> Limits]
    BY DEF TypeOK, OutboxOK, RoundOK, JournalOK, LoopOK
  <1>1. ASSUME NEW c \in Cores PROVE InForce(applied[c]) \in Limits
    BY MergeType, PolicyAssumption, VersionFacts DEF PolicyInv, Accepted, InForce
  <1>2. QED
    BY <1>1 DEF PolicyInv, Accepted

\* A round that ends, and a loop that ends.
LEMMA EndTyped ==
  ASSUME RoundOK, LoopOK, HandsFree, NEW c \in Cores, EndRound(c) \/ EndLoop(c),
         pc[c] # "off", UNCHANGED core
  PROVE  /\ RoundOK' /\ HandsFree'
         /\ pc' \in [Cores -> {"off", "sync", "drain", "send", "settle", "stopped"}]
         /\ streak' \in [Cores -> 0..MaxStreak]
  <1>1. RoundOK' /\ batch' = [batch EXCEPT ![c] = {}]
    BY ForgetTyped DEF EndRound, EndLoop
  <1>2. HandsFree' /\ pc' \in [Cores -> {"off", "sync", "drain", "send", "settle", "stopped"}]
    BY <1>1 DEF EndRound, EndLoop, HandsFree, RoundOK, LoopOK
  <1>3. streak' \in [Cores -> 0..MaxStreak]
    BY BoundAssumption DEF EndRound, EndLoop, LoopOK
  <1>4. QED
    BY <1>1, <1>2, <1>3

\* A core that is gone leaves nothing in hand.
LEMMA QuitTyped ==
  ASSUME RoundOK, JournalOK, LoopOK, HandsFree, NEW c \in Cores, Quit(c),
         UNCHANGED <<work, taken, refused>>
  PROVE  RoundOK' /\ JournalOK' /\ LoopOK' /\ HandsFree'
  <1>1. RoundOK' /\ batch' = [batch EXCEPT ![c] = {}]
    BY ForgetTyped DEF Quit
  <1>2. HandsFree'
    BY <1>1 DEF Quit, HandsFree, RoundOK, LoopOK
  <1>3. caller' \in [Events -> {"none", "blocked", "waiting", "ok", "refused", "failed"}]
    BY DEF Quit, JournalOK
  <1>4. queue' \in Seq(Events) /\ Len(queue') <= QueueSize
    BY CoreAssumption DEF Quit, JournalOK
  <1>5. LoopOK'
    BY BoundAssumption DEF Quit, LoopOK
  <1>6. QED
    BY <1>1, <1>2, <1>3, <1>4, <1>5 DEF JournalOK

\* The journal's part.
LEMMA JournalTyped ==
  ASSUME OutboxOK, JournalOK, Journal
  PROVE  OutboxOK' /\ JournalOK'
  <1>1. ASSUME NEW e \in Events, Append_(e)
        PROVE  OutboxOK' /\ JournalOK'
    BY <1>1 DEF Append_, OutboxOK, JournalOK
  <1>2. ASSUME NEW e \in Events, Enqueue(e)
        PROVE  OutboxOK' /\ JournalOK'
    BY <1>2, CoreAssumption DEF Enqueue, OutboxOK, JournalOK
  <1>3. ASSUME NEW e \in Events, GiveUpWaiting(e)
        PROVE  OutboxOK' /\ JournalOK'
    BY <1>3 DEF GiveUpWaiting, OutboxOK, JournalOK
  <1>4. CASE Write
    <2>1. Head(queue) \in Events /\ Tail(queue) \in Seq(Events) /\ Len(Tail(queue)) <= QueueSize
      BY <1>4, CoreAssumption DEF Write, Writable, JournalOK
    <2>2. JournalOK'
      BY <1>4, <2>1 DEF Write, JournalOK
    <2>3. Insert(Head(queue)) \/ UNCHANGED outbox
      BY <1>4 DEF Write
    <2>4. QED
      BY <2>1, <2>2, <2>3, OutboxTyped DEF OutboxOK
  <1>5. QED
    BY <1>1, <1>2, <1>3, <1>4 DEF Journal

\* Whether idle rounds are counted is a truth value.
LEMMA CountsOK ==
  ASSUME RoundOK, NEW c \in Cores,
         progress' = progress \/ progress' = [progress EXCEPT ![c] = MaxStreak > 0]
  PROVE  progress' \in [Cores -> BOOLEAN]
  <1>1. (MaxStreak > 0) \in BOOLEAN
    OBVIOUS
  <1>2. progress \in [Cores -> BOOLEAN]
    BY DEF RoundOK
  <1>3. QED
    BY <1>1, <1>2, Zenon

\* A step of a loop keeps the types.
LEMMA LoopTyped ==
  ASSUME OutboxOK, RoundOK, LoopOK, HandsFree, NEW c \in Cores, Loop(c)
  PROVE  OutboxOK' /\ RoundOK' /\ LoopOK' /\ HandsFree' /\ UNCHANGED journal
  <1> USE DEF server, policy
  <1>1. CASE SyncRevoked(c)
    BY <1>1, EndTyped DEF SyncRevoked, OutboxOK, LoopOK
  <1>2. CASE Sync(c)
    <2>1. last' \in [Cores -> {0} \cup Versions]
      BY <1>2 DEF Sync, Fetched, LoopOK
    <2>2. progress' = progress \/ progress' = [progress EXCEPT ![c] = MaxStreak > 0]
      BY <1>2 DEF Sync
    <2>5. progress' \in [Cores -> BOOLEAN]
      BY <2>2, CountsOK
    <2>3. UNCHANGED <<outbox, core, work, journal, revoked, batch, accepted, invalid, failing,
                      overtaken, streak, server>> /\ Goto(c, "drain") /\ pc[c] = "sync"
      BY <1>2 DEF Sync
    <2>4. RoundOK'
      BY <2>3, <2>5 DEF RoundOK
    <2>6. HandsFree'
      BY <2>3 DEF Goto, LoopOK, HandsFree
    <2>7. QED
      BY <2>1, <2>3, <2>4, <2>6 DEF Goto, OutboxOK, LoopOK
  <1>3. CASE SyncFails(c)
    <2>1. last' \in [Cores -> {0} \cup Versions]
      BY <1>3 DEF SyncFails, Fetched, LoopOK
    <2>2. QED
      BY <1>3, <2>1, EndTyped DEF SyncFails, OutboxOK, LoopOK
  <1>4. CASE DrainLease(c)
    <2>1. PICK S \in Batches :
            \/ EndRound(c) /\ (Lease(S) \/ UNCHANGED outbox)
            \/ /\ S # {} /\ Lease(S)
               /\ batch' = [batch EXCEPT ![c] = S]
               /\ Goto(c, "send")
               /\ UNCHANGED <<accepted, invalid, failing, overtaken, progress, streak>>
      BY <1>4 DEF DrainLease
    <2>2. S \in SUBSET Events
      BY DEF Batches, Leasable
    <2>3. UNCHANGED <<core, work, journal, last, revoked, taken, refused>> /\ pc[c] = "drain"
      BY <1>4 DEF DrainLease
    <2>4. CASE EndRound(c) /\ (Lease(S) \/ UNCHANGED outbox)
      BY <2>2, <2>3, <2>4, EndTyped, OutboxTyped DEF OutboxOK, LoopOK
    <2>5. CASE Lease(S) /\ batch' = [batch EXCEPT ![c] = S] /\ Goto(c, "send")
               /\ UNCHANGED <<accepted, invalid, failing, overtaken, progress, streak>>
      <3>1. batch[c] = {}
        BY <2>3 DEF HandsFree
      <3>2. RoundOK'
        BY <2>2, <2>5, <3>1 DEF RoundOK
      <3>3. LoopOK' /\ HandsFree'
        BY <2>2, <2>3, <2>5 DEF Goto, LoopOK, HandsFree, RoundOK
      <3>4. QED
        BY <2>2, <2>3, <2>5, <3>2, <3>3, OutboxTyped
    <2>6. QED
      BY <2>1, <2>4, <2>5
  <1>5. CASE SendBatch(c)
    <2>4. batch[c] \subseteq Events
      BY DEF RoundOK
    <2>5. /\ taken' \subseteq Events /\ refused' \subseteq Events
          /\ accepted' \in [Cores -> SUBSET Events] /\ invalid' \in [Cores -> SUBSET Events]
      BY <1>5, <2>4 DEF SendBatch, RoundOK, LoopOK
    <2>6. revoked' = revoked \/ revoked' = [revoked EXCEPT ![c] = TRUE]
      BY <1>5 DEF SendBatch
    <2>7. revoked' \in [Cores -> BOOLEAN]
      BY <2>6 DEF LoopOK
    <2>8. UNCHANGED <<batch, failing, overtaken, progress>>
      BY <1>5 DEF SendBatch
    <2>1. RoundOK' /\ taken' \subseteq Events /\ refused' \subseteq Events
          /\ revoked' \in [Cores -> BOOLEAN]
      BY <2>5, <2>7, <2>8 DEF RoundOK
    <2>2. UNCHANGED <<outbox, core, work, journal, last, batch, streak>> /\ Goto(c, "settle")
          /\ pc[c] = "send"
      BY <1>5 DEF SendBatch
    <2>3. QED
      BY <2>1, <2>2 DEF Goto, OutboxOK, LoopOK, HandsFree
  <1>6. CASE Settle(c)
    <2>1. UNCHANGED <<core, work, journal, last, revoked, pc, accepted, invalid, streak, taken,
                      refused>> /\ pc[c] = "settle" /\ failing[c] = NoFail
      BY <1>6 DEF Settle
    <2>2. PICK e \in batch[c] :
            \/ (SettleAck(c, e) \/ SettleInvalid(c, e)) /\ UNCHANGED failing
            \/ /\ e \notin accepted[c] \cup invalid[c] /\ Present(e)
               /\ failing' = [failing EXCEPT ![c] = <<e, outbox[e].attempts>>]
               /\ UNCHANGED <<outbox, batch, overtaken, progress>>
      BY <1>6 DEF Settle
    <2>3. e \in Events
      BY DEF RoundOK
    <2>4. LoopOK'
      BY <2>1 DEF LoopOK
    <2>5. CASE (SettleAck(c, e) \/ SettleInvalid(c, e)) /\ UNCHANGED failing
      <3>1. progress' \in [Cores -> BOOLEAN]
        BY <2>5, CountsOK DEF SettleAck, SettleInvalid
      <3>2. RoundOK' /\ batch' = [batch EXCEPT ![c] = @ \ {e}]
        BY <2>1, <2>3, <2>5, <3>1, SettledTyped DEF SettleAck, SettleInvalid
      <3>3. OutboxOK'
        BY <2>3, <2>5, OutboxTyped DEF SettleAck, SettleInvalid
      <3>4. HandsFree'
        BY <2>1, <3>2 DEF HandsFree, RoundOK
      <3>5. QED
        BY <2>1, <2>4, <3>2, <3>3, <3>4
    <2>6. CASE /\ failing' = [failing EXCEPT ![c] = <<e, outbox[e].attempts>>]
               /\ UNCHANGED <<outbox, batch, overtaken, progress>>
      <3>1. outbox[e].attempts \in Nat
        BY <2>3 DEF OutboxOK
      <3>2. RoundOK'
        BY <2>1, <2>3, <2>6, <3>1 DEF RoundOK, NoFail
      <3>3. QED
        BY <2>1, <2>4, <2>6, <3>2 DEF OutboxOK, HandsFree
    <2>7. QED
      BY <2>2, <2>5, <2>6
  <1>7. CASE Fail(c)
    <2> DEFINE e == failing[c][1]
    <2>1. e \in batch[c] /\ e \in Events /\ failing[c][2] \in Nat
      BY <1>7 DEF Fail, RoundOK
    <2>2. RoundOK' /\ batch' = [batch EXCEPT ![c] = @ \ {e}]
      BY <1>7, <2>1, SettledTyped DEF Fail, RoundOK
    <2>3. OutboxOK'
      BY <1>7, <2>1, OutboxTyped DEF Fail
    <2>4. UNCHANGED <<core, work, journal, last, revoked, pc, streak, taken, refused>>
      BY <1>7 DEF Fail
    <2>5. HandsFree'
      BY <2>2, <2>4 DEF HandsFree, RoundOK
    <2>6. QED
      BY <2>2, <2>3, <2>4, <2>5 DEF LoopOK
  <1>8. CASE SettleFails(c)
    BY <1>8, EndTyped DEF SettleFails, OutboxOK, LoopOK
  <1>9. CASE EndBatch(c)
    BY <1>9, EndTyped DEF EndBatch, OutboxOK, LoopOK
  <1>10. CASE Hang(c)
    <2>1. taken' \subseteq Events
      BY <1>10 DEF Hang, RoundOK, LoopOK
    <2>2. QED
      BY <1>10, <2>1, EndTyped DEF Hang, OutboxOK, LoopOK
  <1>11. QED
    BY <1>1, <1>2, <1>3, <1>4, <1>5, <1>6, <1>7, <1>8, <1>9, <1>10 DEF Loop

\* Starts and stops keep the types.
LEMMA LifeTyped ==
  ASSUME OutboxOK, RoundOK, JournalOK, LoopOK, HandsFree, NEW c \in Cores, Life(c)
  PROVE  OutboxOK' /\ RoundOK' /\ JournalOK' /\ LoopOK' /\ HandsFree'
  <1> USE DEF server, policy, journal
  <1>1. CASE Start(c)
    <2>1. OutboxOK'
      BY <1>1, OutboxTyped DEF Start
    <2>2. UNCHANGED <<caller, queue, last, revoked, round, streak, taken, refused>>
          /\ Goto(c, "sync") /\ work' = [work EXCEPT !.starts[c] = @ - 1] /\ work.starts[c] > 0
          /\ core' = [core EXCEPT ![c] = "up"] /\ core[c] = "off"
      BY <1>1 DEF Start
    <2>3. work' \in Workload
      BY <2>2 DEF LoopOK, Workload
    <2>4. LoopOK'
      BY <2>2, <2>3 DEF LoopOK, Goto
    <2>5. RoundOK' /\ HandsFree'
      BY <2>2 DEF RoundOK, HandsFree, LoopOK, Goto, round
    <2>6. QED
      BY <2>1, <2>2, <2>4, <2>5 DEF JournalOK
  <1>2. CASE Stop(c)
    <2>1. RoundOK' /\ batch' = [batch EXCEPT ![c] = {}]
      BY <1>2, ForgetTyped DEF Stop
    <2>2. QED
      BY <1>2, <2>1 DEF Stop, Goto, OutboxOK, JournalOK, LoopOK, HandsFree, RoundOK
  <1>3. CASE CloseChannel(c)
    <2>1. RoundOK' /\ HandsFree'
      BY <1>3 DEF CloseChannel, NoReader, RoundOK, LoopOK, HandsFree, round
    <2>2. QED
      BY <1>3, <2>1 DEF CloseChannel, OutboxOK, JournalOK, LoopOK
  <1>4. CASE Exit(c) \/ Crash(c)
    BY <1>4, QuitTyped DEF Exit, Crash, OutboxOK
  <1>5. QED
    BY <1>1, <1>2, <1>3, <1>4 DEF Life

\* Time passing keeps the types.
LEMMA ElapseTyped ==
  ASSUME OutboxOK, RoundOK, NEW e \in Events, Elapse(e)
  PROVE  OutboxOK' /\ RoundOK' /\ UNCHANGED <<pc, core, batch>>
  <1>1. OutboxOK'
    BY OutboxTyped DEF Elapse
  <1>2. RoundOK'
    BY DEF Elapse, RoundOK, InHand
  <1>3. QED
    BY <1>1, <1>2 DEF Elapse

\* Every step keeps the types.
LEMMA TypeStep == Typed /\ [Next]_vars => Typed'
  <1> SUFFICES ASSUME Typed, [Next]_vars PROVE Typed'
    OBVIOUS
  <1>1. PolicyInv' /\ OutboxOK /\ RoundOK /\ JournalOK /\ LoopOK /\ HandsFree
    BY PolicyKept, TypesTogether DEF Typed
  <1>2. OutboxOK' /\ RoundOK' /\ JournalOK' /\ LoopOK' /\ HandsFree'
    <2>1. CASE Journal
      <3>1. UNCHANGED <<core, work, last, revoked, pc, round, streak, taken, refused>>
        BY <2>1 DEF Journal, Append_, Enqueue, GiveUpWaiting, Write, server
      <3>2. QED
        BY <1>1, <2>1, <3>1, JournalTyped DEF RoundOK, LoopOK, HandsFree, round
    <2>2. ASSUME NEW c \in Cores, Loop(c)
          PROVE  OutboxOK' /\ RoundOK' /\ JournalOK' /\ LoopOK' /\ HandsFree'
      BY <1>1, <2>2, LoopTyped DEF JournalOK, journal
    <2>3. ASSUME NEW c \in Cores, Life(c)
          PROVE  OutboxOK' /\ RoundOK' /\ JournalOK' /\ LoopOK' /\ HandsFree'
      BY <1>1, <2>3, LifeTyped
    <2>4. ASSUME NEW e \in Events, Elapse(e)
          PROVE  OutboxOK' /\ RoundOK' /\ JournalOK' /\ LoopOK' /\ HandsFree'
      <3>1. UNCHANGED <<caller, queue, core, work, last, revoked, pc, streak, taken, refused>>
        BY <2>4 DEF Elapse, server
      <3>2. QED
        BY <1>1, <2>4, <3>1, ElapseTyped DEF JournalOK, LoopOK, HandsFree
    <2>5. CASE UNCHANGED vars
      BY <1>1, <2>5 DEF vars, OutboxOK, RoundOK, JournalOK, LoopOK, HandsFree
    <2>6. QED
      BY <2>1, <2>2, <2>3, <2>4, <2>5 DEF Next
  <1>3. TypeOK'
    BY <1>1, <1>2, TypesTogether, PTL
  <1>4. QED
    BY <1>1, <1>2, <1>3 DEF Typed

\* The types hold in every state.
LEMMA TypedAlways == Spec => []Typed
  BY TypeInit, TypeStep, PTL DEF Spec, HangSpec

\* Every variable keeps its type.
THEOREM TypeCorrect == Spec => []TypeOK
  BY TypedAlways, PTL DEF Typed

-----------------------------------------------------------------------------
(***************************************************************************)
(* Callers, queue, senders and rows.                                       *)
(***************************************************************************)

Queued(e) == \E n \in 1..Len(queue) : queue[n] = e

\* An event is stored once, after it was queued once.
CallersInv ==
    /\ \A e \in Events :
        /\ caller[e] \in {"none", "blocked", "refused"} => outbox[e].state = "none" /\ ~Queued(e)
        /\ caller[e] = "ok" => outbox[e].state # "none"
        /\ Queued(e) => outbox[e].state = "none"
    /\ \A m, n \in 1..Len(queue) : queue[m] = queue[n] => m = n

\* A row in hand is being sent, unless its lease has ended.
HandsInv ==
    /\ \A c \in Cores : \A e \in batch[c] :
        /\ outbox[e].state # "none"
        /\ e \in overtaken \/ (outbox[e].state = "sending" /\ ~outbox[e].ripe)
    /\ OneSender

\* The Control Plane has done what its answer says.
AnswerInv == \A c \in Cores : accepted[c] \subseteq taken /\ invalid[c] \subseteq refused

\* What the statements on rows that exist have in common.
RowsStay == \A e \in Events : (outbox[e].state = "none") <=> (outbox'[e].state = "none")

\* No statement but Insert and Prune creates or deletes a row.
LEMMA RowsStayThere ==
  ASSUME OutboxOK
  PROVE  /\ UNCHANGED outbox => RowsStay
         /\ \A e \in Events : Ack(e) \/ DeadLetter(e) \/ Ripen(e) => RowsStay
         /\ \A e \in Events : \A n \in Nat : FailRow(e, n) => RowsStay
         /\ \A S \in Batches : Lease(S) => RowsStay
         /\ \A S \in SUBSET Events : Prune(S) => RowsStay
  <1> USE DEF OutboxOK, RowsStay
  <1>1. ASSUME NEW e \in Events
        PROVE  Ack(e) \/ DeadLetter(e) \/ Ripen(e) => RowsStay
    BY DEF Ack, DeadLetter, Ripen
  <1>2. ASSUME NEW e \in Events, NEW n \in Nat, FailRow(e, n)
        PROVE  RowsStay
    BY <1>2 DEF FailRow, Present
  <1>3. ASSUME NEW S \in Batches, Lease(S)
        PROVE  RowsStay
    BY <1>3 DEF Lease, Batches, Leasable
  <1>4. ASSUME NEW S \in SUBSET Events, Prune(S)
        PROVE  RowsStay
    BY <1>4 DEF Prune, Prunable, NoRow
  <1>5. QED
    BY <1>1, <1>2, <1>3, <1>4

\* A step that leaves the callers alone and makes no row leaves CallersInv.
LEMMA CallersStay ==
  ASSUME CallersInv, RowsStay, UNCHANGED <<caller, queue>>
  PROVE  CallersInv'
  BY DEF CallersInv, RowsStay, Queued

\* What a loop does to the rows: it makes none.
LEMMA LoopRows ==
  ASSUME Typed, NEW c \in Cores, Loop(c)
  PROVE  RowsStay
  <1>1. OutboxOK /\ RoundOK
    BY TypesTogether DEF Typed
  <1>2. CASE SyncRevoked(c) \/ Sync(c) \/ SyncFails(c) \/ SendBatch(c) \/ Hang(c)
             \/ SettleFails(c) \/ EndBatch(c)
    BY <1>1, <1>2, RowsStayThere
       DEF SyncRevoked, Sync, SyncFails, SendBatch, Hang, SettleFails, EndBatch
  <1>3. CASE DrainLease(c)
    BY <1>1, <1>3, RowsStayThere DEF DrainLease
  <1>4. CASE Settle(c)
    <2>1. batch[c] \subseteq Events
      BY <1>1 DEF RoundOK
    <2>2. QED
      BY <1>1, <1>4, <2>1, RowsStayThere DEF Settle, SettleAck, SettleInvalid
  <1>5. CASE Fail(c)
    <2>1. failing[c][1] \in Events /\ failing[c][2] \in Nat
      BY <1>1, <1>5 DEF Fail, RoundOK
    <2>2. QED
      BY <1>1, <1>5, <2>1, RowsStayThere DEF Fail
  <1>6. QED
    BY <1>2, <1>3, <1>4, <1>5 DEF Loop

\* What callers, channel and rows have in common survives every step.
LEMMA CallersStep ==
  ASSUME Typed, CallersInv, [Next]_vars
  PROVE  CallersInv'
  <1>1. OutboxOK /\ JournalOK
    BY TypesTogether DEF Typed
  <1>2. ASSUME NEW e \in Events, Append_(e) \/ GiveUpWaiting(e)
        PROVE  CallersInv'
    BY <1>1, <1>2 DEF Append_, GiveUpWaiting, CallersInv, JournalOK, Queued
  <1>3. ASSUME NEW e \in Events, Enqueue(e)
        PROVE  CallersInv'
    <2>1. /\ caller[e] = "blocked" /\ caller' = [caller EXCEPT ![e] = "waiting"]
          /\ queue' = Append(queue, e) /\ UNCHANGED outbox
      BY <1>3 DEF Enqueue
    <2>2. ~Queued(e) /\ outbox[e].state = "none"
      BY <2>1 DEF CallersInv
    <2>3. /\ Len(queue') = Len(queue) + 1 /\ Len(queue) \in Nat
          /\ \A n \in 1..Len(queue) : queue'[n] = queue[n]
          /\ queue'[Len(queue) + 1] = e
      BY <1>1, <2>1 DEF JournalOK
    <2>4. \A x \in Events : Queued(x)' => Queued(x) \/ x = e
      BY <2>3 DEF Queued
    <2>5. \A m, n \in 1..Len(queue') : queue'[m] = queue'[n] => m = n
      BY <2>2, <2>3 DEF CallersInv, Queued
    <2>6. QED
      BY <1>1, <2>1, <2>2, <2>4, <2>5 DEF CallersInv, JournalOK
  <1>4. CASE Write
    <2> DEFINE e == Head(queue)
    <2>1. /\ queue # <<>> /\ queue' = Tail(queue)
          /\ caller' = caller \/ caller' = [caller EXCEPT ![e] = "failed"]
             \/ (caller' = [caller EXCEPT ![e] = "ok"] /\ Insert(e))
          /\ Insert(e) \/ UNCHANGED outbox
      BY <1>1, <1>4 DEF Write, Writable, JournalOK
    <2>2. /\ e \in Events /\ Queued(e) /\ e = queue[1]
          /\ Len(queue') = Len(queue) - 1 /\ Len(queue) \in Nat \ {0}
          /\ \A n \in 1..Len(queue') : queue'[n] = queue[n + 1]
      BY <1>1, <2>1 DEF JournalOK, Queued
    <2>3. \A x \in Events : Queued(x)' => Queued(x) /\ x # e
      BY <2>2 DEF CallersInv, Queued
    <2>4. \A m, n \in 1..Len(queue') : queue'[m] = queue'[n] => m = n
      BY SMTT(30), <2>2 DEF CallersInv
    <2>5. caller[e] \notin {"none", "blocked", "refused", "ok"}
      BY <2>2 DEF CallersInv
    <2>6. \A x \in Events : x # e => outbox'[x] = outbox[x] /\ caller'[x] = caller[x]
      BY <1>1, <2>1 DEF Insert, OutboxOK, JournalOK
    <2>7. caller'[e] \notin {"none", "blocked", "refused"}
          /\ (caller'[e] = "ok" => outbox'[e].state # "none")
      BY <1>1, <2>1, <2>2, <2>5 DEF Insert, OutboxOK, JournalOK, NoRow
    <2>8. QED
      BY <2>2, <2>3, <2>4, <2>6, <2>7 DEF CallersInv
  <1>5. ASSUME NEW c \in Cores, Loop(c)
        PROVE  CallersInv'
    <2>1. UNCHANGED <<caller, queue>>
      BY <1>5 DEF Loop, SyncRevoked, Sync, SyncFails, DrainLease, SendBatch, Settle, Fail,
                  Hang, SettleFails, EndBatch, journal
    <2>2. QED
      BY <1>5, <2>1, LoopRows, CallersStay
  <1>6. ASSUME NEW c \in Cores, Exit(c) \/ Crash(c)
        PROVE  CallersInv'
    <2>1. UNCHANGED outbox /\ (UNCHANGED queue \/ queue' = <<>>)
      BY <1>6 DEF Exit, Crash, Quit
    <2>2. caller' = caller \/ caller' = [e \in Events |->
             IF caller[e] \in {"blocked", "waiting"} THEN "failed" ELSE caller[e]]
      BY <1>6 DEF Exit, Crash, Quit
    <2>3. QED
      BY <1>1, <2>1, <2>2 DEF CallersInv, JournalOK, Queued
  <1>7. ASSUME NEW c \in Cores, Start(c) \/ Stop(c) \/ CloseChannel(c)
        PROVE  CallersInv'
    <2>1. UNCHANGED <<caller, queue>> /\ RowsStay
      BY <1>1, <1>7, RowsStayThere DEF Start, Stop, CloseChannel, journal
    <2>2. QED
      BY <2>1, CallersStay
  <1>8. ASSUME NEW e \in Events, Elapse(e)
        PROVE  CallersInv'
    <2>1. UNCHANGED <<caller, queue>> /\ RowsStay
      BY <1>1, <1>8, RowsStayThere DEF Elapse
    <2>2. QED
      BY <2>1, CallersStay
  <1>9. CASE UNCHANGED vars
    BY <1>1, <1>9, RowsStayThere, CallersStay DEF vars
  <1>10. QED
    BY <1>2, <1>3, <1>4, <1>5, <1>6, <1>7, <1>8, <1>9 DEF Next, Journal, Life

\* A step that takes nothing new in hand, and changes no row that a sender has
\* in hand and on lease, leaves HandsInv.
LEMMA HandsShrink ==
  ASSUME HandsInv, RowsStay,
         \A c \in Cores : batch'[c] \subseteq batch[c] /\ batch[c] \subseteq Events,
         overtaken' = overtaken \/ overtaken' = overtaken \cap InHand(batch'),
         \A c \in Cores : \A e \in batch'[c] : e \in overtaken \/ outbox'[e] = outbox[e]
  PROVE  HandsInv'
  <1>1. \A c \in Cores : \A e \in batch'[c] : e \in overtaken => e \in overtaken'
    BY DEF InHand
  <1>2. ASSUME NEW c \in Cores, NEW e \in batch'[c]
        PROVE  /\ outbox'[e].state # "none"
               /\ e \in overtaken' \/ (outbox'[e].state = "sending" /\ ~outbox'[e].ripe)
    <2>1. e \in batch[c] /\ e \in Events
      OBVIOUS
    <2>2. outbox'[e].state # "none"
      BY <2>1 DEF HandsInv, RowsStay
    <2>3. QED
      BY <1>1, <2>1, <2>2 DEF HandsInv
  <1>3. OneSender'
    BY <1>1 DEF HandsInv, OneSender
  <1>4. QED
    BY <1>2, <1>3 DEF HandsInv

\* So does the end of a round.
LEMMA HandsForget ==
  ASSUME Typed, HandsInv, NEW c \in Cores, Forget(c), UNCHANGED outbox
  PROVE  HandsInv'
  <1>1. OutboxOK /\ RoundOK
    BY TypesTogether DEF Typed
  <1>2. RowsStay
    BY <1>1, RowsStayThere
  <1>3. batch' = [batch EXCEPT ![c] = {}] /\ overtaken' = overtaken \cap InHand(batch')
    BY DEF Forget
  <1>4. QED
    BY <1>1, <1>2, <1>3, HandsShrink DEF RoundOK

\* A row that is on lease in a sender's hands is not leased, nor in another's.
LEMMA OnLease ==
  ASSUME HandsInv, NEW c \in Cores, NEW e \in batch[c], e \notin overtaken
  PROVE  /\ e \notin Leasable
         /\ \A d \in Cores : e \in batch[d] => d = c
  BY DEF HandsInv, OneSender, Leasable

\* An event that is settled changes no row that another sender has on lease.
LEMMA HandsSettle ==
  ASSUME Typed, HandsInv, NEW c \in Cores, NEW e \in batch[c], Settled(c, e), RowsStay,
         \A x \in Events : x # e => outbox'[x] = outbox[x]
  PROVE  HandsInv'
  <1>1. RoundOK
    BY TypesTogether DEF Typed
  <1>2. batch' = [batch EXCEPT ![c] = @ \ {e}] /\ overtaken' = overtaken \cap InHand(batch')
    BY DEF Settled
  <1>3. \A d \in Cores : batch'[d] \subseteq batch[d] /\ batch[d] \subseteq Events
    BY <1>1, <1>2 DEF RoundOK
  <1>4. ASSUME NEW d \in Cores, NEW x \in batch'[d], x \notin overtaken
        PROVE  outbox'[x] = outbox[x]
    <2>1. x \in Events /\ x \in batch[d]
      BY <1>3
    <2>2. CASE x = e
      <3>1. d = c
        BY <1>4, <2>1, <2>2, OnLease
      <3>2. e \notin batch'[c]
        BY <1>1, <1>2 DEF RoundOK
      <3>3. QED
        BY <2>2, <3>1, <3>2
    <2>3. QED
      BY <2>1, <2>2
  <1>5. QED
    BY <1>2, <1>3, <1>4, HandsShrink

\* A loop keeps HandsInv.
LEMMA HandsLoop ==
  ASSUME Typed, HandsInv, NEW c \in Cores, Loop(c)
  PROVE  HandsInv'
  <1>1. OutboxOK /\ RoundOK /\ HandsFree
    BY TypesTogether DEF Typed
  <1>2. RowsStay
    BY LoopRows
  <1>3. CASE SyncRevoked(c) \/ SyncFails(c) \/ Hang(c) \/ SettleFails(c) \/ EndBatch(c)
    BY <1>3, HandsForget
       DEF SyncRevoked, SyncFails, Hang, SettleFails, EndBatch, EndRound, EndLoop
  <1>4. CASE Sync(c) \/ SendBatch(c)
    BY <1>4 DEF Sync, SendBatch, HandsInv, OneSender
  <1>5. CASE DrainLease(c)
    <2>1. PICK S \in Batches :
            \/ EndRound(c) /\ (Lease(S) \/ UNCHANGED outbox)
            \/ /\ Lease(S) /\ batch' = [batch EXCEPT ![c] = S] /\ UNCHANGED overtaken
      BY <1>5 DEF DrainLease
    <2>2. S \subseteq Leasable /\ S \subseteq Events
      BY DEF Batches, Leasable
    <2>3. ASSUME Lease(S) \/ UNCHANGED outbox, NEW d \in Cores, NEW x \in batch[d],
                 x \notin overtaken
          PROVE  outbox'[x] = outbox[x]
      <3>1. x \in Events /\ x \notin S
        BY <1>1, <2>2, <2>3, OnLease DEF RoundOK
      <3>2. QED
        BY <2>3, <3>1 DEF Lease
    <2>4. CASE EndRound(c) /\ (Lease(S) \/ UNCHANGED outbox)
      <3>1. batch' = [batch EXCEPT ![c] = {}] /\ overtaken' = overtaken \cap InHand(batch')
        BY <2>4 DEF EndRound, Forget
      <3>2. \A d \in Cores : batch'[d] \subseteq batch[d] /\ batch[d] \subseteq Events
        BY <1>1, <3>1 DEF RoundOK
      <3>3. QED
        BY <1>2, <2>3, <2>4, <3>1, <3>2, HandsShrink
    <2>5. CASE Lease(S) /\ batch' = [batch EXCEPT ![c] = S] /\ UNCHANGED overtaken
      <3>1. \A x \in S : outbox'[x].state = "sending" /\ ~outbox'[x].ripe
        BY <1>1, <2>2, <2>5 DEF Lease, OutboxOK
      <3>2. ASSUME NEW d \in Cores, NEW x \in batch[d]
            PROVE  /\ outbox'[x].state # "none"
                   /\ x \in overtaken' \/ (outbox'[x].state = "sending" /\ ~outbox'[x].ripe)
        <4>1. x \in Events /\ outbox'[x].state # "none"
          BY <1>1, <1>2 DEF RoundOK, RowsStay, HandsInv
        <4>2. QED
          BY <2>3, <2>5, <4>1 DEF HandsInv
      <3>3. \A d \in Cores : \A x \in batch'[d] : x \in S \/ x \in batch[d]
        BY <1>1, <2>5 DEF RoundOK
      <3>4. OneSender'
        <4> SUFFICES ASSUME NEW d1 \in Cores, NEW d2 \in Cores, d1 # d2,
                            NEW x \in batch'[d1], x \in batch'[d2]
                     PROVE  x \in overtaken'
          BY DEF OneSender
        <4>1. CASE d1 # c /\ d2 # c
          BY <1>1, <2>5, <4>1 DEF RoundOK, HandsInv, OneSender
        <4>2. CASE d1 = c \/ d2 = c
          <5>1. x \in S /\ (x \in batch[d1] \/ x \in batch[d2])
            BY <1>1, <2>5, <4>2 DEF RoundOK
          <5>2. QED
            BY <2>2, <2>5, <5>1, OnLease
        <4>3. QED
          BY <4>1, <4>2
      <3>5. QED
        BY <3>1, <3>2, <3>3, <3>4 DEF HandsInv
    <2>6. QED
      BY <2>1, <2>4, <2>5
  <1>6. CASE Settle(c)
    <2>1. PICK e \in batch[c] :
            \/ SettleAck(c, e) \/ SettleInvalid(c, e)
            \/ UNCHANGED <<outbox, batch, overtaken>>
      BY <1>6 DEF Settle
    <2>2. e \in Events
      BY <1>1 DEF RoundOK
    <2>3. CASE SettleAck(c, e) \/ SettleInvalid(c, e)
      <3>1. Settled(c, e) /\ (Ack(e) \/ DeadLetter(e))
        BY <2>3 DEF SettleAck, SettleInvalid
      <3>2. \A x \in Events : x # e => outbox'[x] = outbox[x]
        BY <1>1, <3>1 DEF Ack, DeadLetter, OutboxOK
      <3>3. QED
        BY <1>2, <3>1, <3>2, HandsSettle
    <2>4. CASE UNCHANGED <<outbox, batch, overtaken>>
      BY <2>4 DEF HandsInv, OneSender
    <2>5. QED
      BY <2>1, <2>3, <2>4
  <1>7. CASE Fail(c)
    <2> DEFINE e == failing[c][1]
    <2>1. e \in batch[c] /\ e \in Events /\ Settled(c, e) /\ FailRow(e, failing[c][2])
      BY <1>1, <1>7 DEF Fail, RoundOK
    <2>2. \A x \in Events : x # e => outbox'[x] = outbox[x]
      BY <1>1, <2>1 DEF FailRow, OutboxOK
    <2>3. QED
      BY <1>2, <2>1, <2>2, HandsSettle
  <1>8. QED
    BY <1>3, <1>4, <1>5, <1>6, <1>7 DEF Loop

\* What loops have in hand survives every step.
LEMMA HandsStep ==
  ASSUME Typed, CallersInv, HandsInv, [Next]_vars
  PROVE  HandsInv'
  <1>1. OutboxOK /\ RoundOK /\ JournalOK
    BY TypesTogether DEF Typed
  <1>2. ASSUME UNCHANGED <<outbox, batch, overtaken>>
        PROVE  HandsInv'
    BY <1>2 DEF HandsInv, OneSender
  <1>3. CASE Write
    <2> DEFINE e == Head(queue)
    <2>1. UNCHANGED <<batch, overtaken>> /\ (Insert(e) \/ UNCHANGED outbox)
      BY <1>3 DEF Write, round
    <2>2. e \in Events /\ outbox[e].state = "none"
      BY <1>1, <1>3 DEF Write, Writable, JournalOK, CallersInv, Queued
    <2>3. \A c \in Cores : e \notin batch[c]
      BY <2>2 DEF HandsInv
    <2>4. \A x \in Events : x # e => outbox'[x] = outbox[x]
      BY <1>1, <2>1 DEF Insert, OutboxOK
    <2>5. QED
      BY <1>1, <2>1, <2>3, <2>4 DEF HandsInv, OneSender, RoundOK
  <1>4. ASSUME NEW e \in Events, Append_(e) \/ Enqueue(e) \/ GiveUpWaiting(e)
        PROVE  HandsInv'
    BY <1>2, <1>4 DEF Append_, Enqueue, GiveUpWaiting, round
  <1>5. ASSUME NEW c \in Cores, Loop(c)
        PROVE  HandsInv'
    BY <1>5, HandsLoop
  <1>6. ASSUME NEW c \in Cores, Exit(c) \/ Crash(c) \/ Stop(c)
        PROVE  HandsInv'
    BY <1>6, HandsForget DEF Exit, Crash, Stop, Quit
  <1>7. ASSUME NEW c \in Cores, Start(c)
        PROVE  HandsInv'
    <2>1. UNCHANGED <<batch, overtaken>> /\ \E old \in SUBSET Events : Prune(old)
      BY <1>7 DEF Start, round
    <2>2. RowsStay
      BY <1>1, <2>1, RowsStayThere
    <2>3. ASSUME NEW d \in Cores, NEW x \in batch[d], x \notin overtaken
          PROVE  outbox'[x] = outbox[x]
      <3>1. x \in Events /\ outbox[x].state = "sending"
        BY <1>1, <2>3 DEF RoundOK, HandsInv
      <3>2. QED
        BY <2>1, <3>1 DEF Prune, Prunable
    <2>4. QED
      BY <1>1, <2>1, <2>2, <2>3, HandsShrink DEF RoundOK
  <1>8. ASSUME NEW c \in Cores, CloseChannel(c)
        PROVE  HandsInv'
    BY <1>2, <1>8 DEF CloseChannel, round
  <1>9. ASSUME NEW e \in Events, Elapse(e)
        PROVE  HandsInv'
    <2>1. /\ Ripen(e) /\ UNCHANGED batch
          /\ overtaken \subseteq overtaken'
          /\ outbox[e].state = "sending" /\ e \in InHand(batch) => e \in overtaken'
      BY <1>9 DEF Elapse
    <2>2. \A x \in Events : /\ x # e => outbox'[x] = outbox[x]
                            /\ outbox'[x].state = outbox[x].state
      BY <1>1, <2>1 DEF Ripen, OutboxOK
    <2>3. \A c \in Cores : e \in batch[c] => e \in overtaken'
      BY <2>1 DEF HandsInv, InHand
    <2>4. \A c \in Cores : batch[c] \subseteq Events
      BY <1>1 DEF RoundOK
    <2>5. QED
      BY <2>1, <2>2, <2>3, <2>4 DEF HandsInv, OneSender
  <1>10. CASE UNCHANGED vars
    BY <1>2, <1>10 DEF vars
  <1>11. QED
    BY <1>3, <1>4, <1>5, <1>6, <1>7, <1>8, <1>9, <1>10 DEF Next, Journal, Life

\* What the Control Plane has stored or refused it does not forget, and an
\* answer says no more.
LEMMA AnswerStep ==
  ASSUME Typed, AnswerInv, [Next]_vars
  PROVE  AnswerInv' /\ taken \subseteq taken' /\ refused \subseteq refused'
  <1>1. RoundOK
    BY TypesTogether DEF Typed
  <1>2. ASSUME UNCHANGED <<accepted, invalid, taken, refused>>
        PROVE  AnswerInv' /\ taken \subseteq taken' /\ refused \subseteq refused'
    BY <1>2 DEF AnswerInv
  <1>3. ASSUME NEW c \in Cores, Forget(c), UNCHANGED <<taken, refused>>
        PROVE  AnswerInv' /\ taken \subseteq taken' /\ refused \subseteq refused'
    BY <1>1, <1>3 DEF AnswerInv, Forget, RoundOK
  <1> USE DEF round, server
  <1>4. CASE Journal
    BY <1>2, <1>4 DEF Journal, Append_, Enqueue, GiveUpWaiting, Write
  <1>5. ASSUME NEW c \in Cores, Loop(c)
        PROVE  AnswerInv' /\ taken \subseteq taken' /\ refused \subseteq refused'
    <2>1. CASE SyncRevoked(c) \/ SyncFails(c) \/ SettleFails(c) \/ EndBatch(c)
      BY <1>3, <2>1 DEF SyncRevoked, SyncFails, SettleFails, EndBatch, EndRound, EndLoop
    <2>2. CASE Sync(c) \/ Fail(c)
      BY <1>2, <2>2 DEF Sync, Fail
    <2>3. CASE Settle(c)
      BY <1>2, <2>3 DEF Settle
    <2>4. CASE DrainLease(c)
      BY <1>2, <1>3, <2>4 DEF DrainLease, EndRound
    <2>5. CASE SendBatch(c)
      BY <1>1, <2>5 DEF SendBatch, AnswerInv, RoundOK
    <2>6. CASE Hang(c)
      BY <1>1, <2>6 DEF Hang, EndRound, Forget, AnswerInv, RoundOK
    <2>7. QED
      BY <1>5, <2>1, <2>2, <2>3, <2>4, <2>5, <2>6 DEF Loop
  <1>6. ASSUME NEW c \in Cores, Life(c)
        PROVE  AnswerInv' /\ taken \subseteq taken' /\ refused \subseteq refused'
    BY <1>2, <1>3, <1>6 DEF Life, Start, Stop, CloseChannel, Exit, Crash, Quit
  <1>7. ASSUME NEW e \in Events, Elapse(e)
        PROVE  AnswerInv' /\ taken \subseteq taken' /\ refused \subseteq refused'
    BY <1>2, <1>7 DEF Elapse
  <1>8. CASE UNCHANGED vars
    BY <1>2, <1>8 DEF vars
  <1>9. QED
    BY <1>4, <1>5, <1>6, <1>7, <1>8 DEF Next

\* Nobody waits for room on the channel once it is closed.
LEMMA ChannelStep ==
  ASSUME Typed, NoSendOnClosedChannel, [Next]_vars
  PROVE  NoSendOnClosedChannel'
  <1>1. JournalOK /\ LoopOK
    BY TypesTogether DEF Typed
  <1>2. Server \in Cores
    BY CoreAssumption
  <1> USE DEF NoSendOnClosedChannel
  <1>3. CASE Journal
    BY <1>1, <1>3 DEF Journal, Append_, Enqueue, GiveUpWaiting, Write, JournalOK
  <1>4. ASSUME NEW c \in Cores, Loop(c)
        PROVE  NoSendOnClosedChannel'
    BY <1>4 DEF Loop, SyncRevoked, Sync, SyncFails, DrainLease, SendBatch, Settle, Fail,
                Hang, SettleFails, EndBatch, journal
  <1>5. ASSUME NEW c \in Cores, Life(c)
        PROVE  NoSendOnClosedChannel'
    <2>1. CASE Start(c) \/ Stop(c)
      BY <1>1, <1>2, <2>1 DEF Start, Stop, journal, LoopOK
    <2>2. CASE CloseChannel(c)
      BY <1>1, <1>2, <2>2 DEF CloseChannel, NoReader, journal, LoopOK
    <2>3. CASE Exit(c) \/ Crash(c)
      BY <1>1, <1>2, <2>3 DEF Exit, Crash, Quit, LoopOK
    <2>4. QED
      BY <1>5, <2>1, <2>2, <2>3 DEF Life
  <1>6. ASSUME NEW e \in Events, Elapse(e)
        PROVE  NoSendOnClosedChannel'
    BY <1>6 DEF Elapse
  <1>7. CASE UNCHANGED vars
    BY <1>7 DEF vars
  <1>8. QED
    BY <1>3, <1>4, <1>5, <1>6, <1>7 DEF Next

EventInv == CallersInv /\ HandsInv /\ AnswerInv /\ NoSendOnClosedChannel

\* At the start nobody waits and nothing is in hand.
LEMMA EventInit == Init => EventInv
  BY DEF Init, EventInv, CallersInv, Queued, HandsInv, OneSender, AnswerInv,
         NoSendOnClosedChannel, NoRow

\* EventInv is inductive with the types.
LEMMA EventAlways == Spec => [](Typed /\ EventInv)
  <1>1. Typed /\ EventInv /\ [Next]_vars => EventInv'
    BY CallersStep, HandsStep, AnswerStep, ChannelStep DEF EventInv
  <1>2. QED
    BY <1>1, EventInit, TypeInit, TypeStep, PTL DEF Spec, HangSpec

\* Append's answers are true, whoever gives up and whenever the core stops.
THEOREM CallersAreTold == Spec => []ToldTheTruth
  <1>1. EventInv => ToldTheTruth
    BY DEF EventInv, CallersInv, ToldTheTruth
  <1>2. QED
    BY <1>1, EventAlways, PTL

\* No caller sends on the channel that Close has closed.
THEOREM NoPanicAtClose == Spec => []NoSendOnClosedChannel
  BY EventAlways, PTL DEF EventInv

\* Two senders have an event in hand only when a lease has ended under one,
\* however many cores have the database open.
THEOREM LeaseExcludes == Spec => []OneSender
  BY EventAlways, PTL DEF EventInv, HandsInv

-----------------------------------------------------------------------------
(***************************************************************************)
(* The promise.                                                            *)
(***************************************************************************)

Exhausted(e) == outbox[e].attempts >= MaxAttempts

\* What a step does to the status of one event, when the others keep theirs.
Kept(e) ==
    \/ Status(e) = "none" /\ Status(e)' = "open"
    \/ Status(e) = "open" /\ Status(e)' = "delivered" /\ e \in taken
    \/ Status(e) = "open" /\ Status(e)' = "dead" /\ (e \in refused \/ Exhausted(e)')
    \/ Status(e) \in {"delivered", "dead"} /\ Status(e)' = "open" /\ e \in overtaken
    \/ Status(e) = "delivered" /\ Status(e)' = "dead" /\ e \in overtaken /\ Exhausted(e)'
    \/ Status(e)' = Status(e)

PromiseStep ==
    \/ \A e \in Events : Status(e)' = Status(e)
    \/ /\ UNCHANGED <<taken, refused>>
       /\ \E e \in Events : Kept(e) /\ \A x \in Events \ {e} : Status(x)' = Status(x)
    \/ /\ UNCHANGED <<taken, refused>>
       /\ \E S \in SUBSET Events :
            /\ \A e \in S : Status(e) = "delivered" /\ Status(e)' = "forgotten"
            /\ \A e \in Events \ S : Status(e)' = Status(e)

\* Such steps are steps of the promise.
LEMMA KeptIsPromised ==
  ASSUME PromiseStep, taken \subseteq taken', refused \subseteq refused'
  PROVE  Promise!Next
  <1> DEFINE status == [e \in Events |-> Status(e)]
             exhausted == {e \in Events : outbox[e].attempts >= MaxAttempts}
  <1>1. CASE \A e \in Events : Status(e)' = Status(e)
    <2>1. status' = status
      BY <1>1
    <2>2. QED
      BY <2>1 DEF Promise!Next
  <1>2. ASSUME UNCHANGED <<taken, refused>>, NEW e \in Events, Kept(e),
               \A x \in Events \ {e} : Status(x)' = Status(x)
        PROVE  Promise!Next
    <2>1. status' = [status EXCEPT ![e] = Status(e)']
      BY <1>2
    <2>2. Exhausted(e)' => e \in exhausted'
      BY DEF Exhausted
    <2>3. CASE Status(e)' = Status(e)
      <3>1. status' = status
        BY <1>2, <2>3
      <3>2. QED
        BY <3>1, <1>2 DEF Promise!Next
    <2>4. CASE Status(e) = "none" /\ Status(e)' = "open"
      BY <1>2, <2>1, <2>4 DEF Promise!Next, Promise!Store, Promise!Become
    <2>5. CASE Status(e) = "open" /\ Status(e)' = "delivered" /\ e \in taken
      BY <1>2, <2>1, <2>5 DEF Promise!Next, Promise!Deliver, Promise!Become
    <2>6. CASE Status(e) = "open" /\ Status(e)' = "dead" /\ (e \in refused \/ Exhausted(e)')
      BY <1>2, <2>1, <2>2, <2>6 DEF Promise!Next, Promise!GiveUp, Promise!Become
    <2>7. CASE Status(e) \in {"delivered", "dead"} /\ Status(e)' = "open" /\ e \in overtaken
      BY <1>2, <2>1, <2>7 DEF Promise!Next, Promise!Reopen, Promise!Become
    <2>8. CASE Status(e) = "delivered" /\ Status(e)' = "dead" /\ e \in overtaken /\ Exhausted(e)'
      BY <1>2, <2>1, <2>2, <2>8 DEF Promise!Next, Promise!Reopen, Promise!Become
    <2>9. QED
      BY <1>2, <2>3, <2>4, <2>5, <2>6, <2>7, <2>8 DEF Kept
  <1>3. ASSUME UNCHANGED <<taken, refused>>, NEW S \in SUBSET Events,
               \A e \in S : Status(e) = "delivered" /\ Status(e)' = "forgotten",
               \A e \in Events \ S : Status(e)' = Status(e)
        PROVE  Promise!Next
    <2>1. Promise!Forget(S)
      BY <1>3 DEF Promise!Forget
    <2>2. QED
      BY <1>3, <2>1 DEF Promise!Next
  <1>4. QED
    BY <1>1, <1>2, <1>3 DEF PromiseStep

\* The status of a row, state by state.
LEMMA StatusOf ==
  ASSUME NEW e \in Events
  PROVE  /\ outbox[e].state = "none" => Status(e) = "none"
         /\ outbox[e].state \in {"pending", "retryable", "sending"} => Status(e) = "open"
         /\ outbox[e].state = "delivered" => Status(e) = "delivered"
         /\ outbox[e].state = "dead_letter" => Status(e) = "dead"
         /\ outbox[e].state = "pruned" => Status(e) = "forgotten"
         /\ outbox'[e].state = "none" => Status(e)' = "none"
         /\ outbox'[e].state \in {"pending", "retryable", "sending"} => Status(e)' = "open"
         /\ outbox'[e].state = "delivered" => Status(e)' = "delivered"
         /\ outbox'[e].state = "dead_letter" => Status(e)' = "dead"
         /\ outbox'[e].state = "pruned" => Status(e)' = "forgotten"
         /\ outbox'[e].state = outbox[e].state => Status(e)' = Status(e)
  BY DEF Status

\* A step that settles no row.
LEMMA StatusStays ==
  ASSUME OutboxOK, OutboxOK',
         \/ UNCHANGED outbox
         \/ \E e \in Events : Ripen(e)
         \/ \E S \in Batches : Lease(S)
  PROVE  PromiseStep
  <1>1. CASE UNCHANGED outbox
    BY <1>1, StatusOf DEF PromiseStep
  <1>2. ASSUME NEW e \in Events, Ripen(e)
        PROVE  PromiseStep
    <2>1. \A x \in Events : outbox'[x].state = outbox[x].state
      BY <1>2 DEF Ripen, OutboxOK
    <2>2. QED
      BY <2>1, StatusOf DEF PromiseStep
  <1>3. ASSUME NEW S \in Batches, Lease(S)
        PROVE  PromiseStep
    <2>1. \A x \in Events \ S : outbox'[x] = outbox[x]
      BY <1>3 DEF Lease
    <2>2. \A x \in Events \cap S : /\ outbox[x].state \in {"pending", "retryable", "sending"}
                                   /\ outbox'[x].state = "sending"
      BY <1>3 DEF Lease, Batches, Leasable, OutboxOK
    <2>3. QED
      BY <2>1, <2>2, StatusOf DEF PromiseStep
  <1>4. QED
    BY <1>1, <1>2, <1>3

\* Delivery keeps the promise, step by step.
LEMMA StepsAreKept ==
  ASSUME Typed, Typed', EventInv, [Next]_vars
  PROVE  PromiseStep
  <1>1. OutboxOK /\ RoundOK /\ JournalOK
    BY TypesTogether DEF Typed
  <1>2. OutboxOK'
    BY TypesTogether, PTL DEF Typed
  <1>3. ASSUME UNCHANGED outbox
        PROVE  PromiseStep
    BY <1>1, <1>2, <1>3, StatusStays
  <1> USE DEF server
  <1>4. CASE Write
    <2>1. UNCHANGED <<taken, refused>>
      BY <1>4 DEF Write
    <2>2. PICK e \in Events : outbox[e].state = "none" /\ (Insert(e) \/ UNCHANGED outbox)
      BY <1>1, <1>4 DEF Write, Writable, JournalOK, EventInv, CallersInv, Queued
    <2>3. CASE Insert(e)
      <3>1. outbox'[e].state = "pending" /\ \A x \in Events \ {e} : outbox'[x] = outbox[x]
        BY <1>1, <2>2, <2>3 DEF Insert, OutboxOK, NoRow
      <3>2. Status(e) = "none" /\ Status(e)' = "open"
        BY <2>2, <3>1, StatusOf
      <3>3. \A x \in Events \ {e} : Status(x)' = Status(x)
        BY <3>1, StatusOf
      <3>4. QED
        BY <2>1, <2>2, <3>2, <3>3 DEF PromiseStep, Kept
    <2>4. QED
      BY <1>3, <2>2, <2>3
  <1>5. ASSUME NEW c \in Cores, Settle(c)
        PROVE  PromiseStep
    <2>1. UNCHANGED <<taken, refused>>
      BY <1>5 DEF Settle
    <2>2. PICK e \in batch[c] : SettleAck(c, e) \/ SettleInvalid(c, e) \/ UNCHANGED outbox
      BY <1>5 DEF Settle
    <2>3. e \in Events
      BY <1>1 DEF RoundOK
    <2>4. ASSUME SettleAck(c, e), ~UNCHANGED outbox
          PROVE  Kept(e) /\ \A x \in Events \ {e} : Status(x)' = Status(x)
      <3>1. /\ outbox[e].state = "sending" /\ outbox'[e].state = "delivered" /\ e \in taken
            /\ \A x \in Events \ {e} : outbox'[x] = outbox[x]
        BY <1>1, <2>3, <2>4 DEF SettleAck, Ack, OutboxOK, EventInv, AnswerInv
      <3>2. QED
        BY <2>3, <3>1, StatusOf DEF Kept
    <2>5. ASSUME SettleInvalid(c, e), ~UNCHANGED outbox
          PROVE  Kept(e) /\ \A x \in Events \ {e} : Status(x)' = Status(x)
      <3>1. /\ outbox[e].state = "sending" /\ outbox'[e].state = "dead_letter" /\ e \in refused
            /\ \A x \in Events \ {e} : outbox'[x] = outbox[x]
        BY <1>1, <2>3, <2>5 DEF SettleInvalid, DeadLetter, OutboxOK, EventInv, AnswerInv
      <3>2. QED
        BY <2>3, <3>1, StatusOf DEF Kept
    <2>6. QED
      BY <1>3, <2>1, <2>2, <2>3, <2>4, <2>5 DEF PromiseStep
  <1>6. ASSUME NEW c \in Cores, Fail(c)
        PROVE  PromiseStep
    <2>1. UNCHANGED <<taken, refused>>
      BY <1>6 DEF Fail
    <2>2. PICK e \in Events, n \in Nat : e \in batch[c] /\ FailRow(e, n)
      BY <1>1, <1>6 DEF Fail, RoundOK
    <2>3. ASSUME ~UNCHANGED outbox
          PROVE  Kept(e) /\ \A x \in Events \ {e} : Status(x)' = Status(x)
      <3>1. /\ Present(e)
            /\ outbox'[e] = [state |-> IF n + 1 >= MaxAttempts THEN "dead_letter" ELSE "retryable",
                             attempts |-> n + 1, ripe |-> FALSE]
            /\ \A x \in Events \ {e} : outbox'[x] = outbox[x]
        BY <1>1, <2>1, <2>2, <2>3 DEF FailRow, OutboxOK
      <3>2. (Status(e)' = "dead" /\ Exhausted(e)') \/ Status(e)' = "open"
        <4>1. CASE n + 1 >= MaxAttempts
          <5>1. outbox'[e].state = "dead_letter" /\ outbox'[e].attempts = n + 1
            BY <3>1, <4>1
          <5>2. QED
            BY <2>2, <4>1, <5>1, StatusOf DEF Exhausted
        <4>2. CASE ~(n + 1 >= MaxAttempts)
          BY <2>2, <3>1, <4>2, StatusOf
        <4>3. QED
          BY <4>1, <4>2
      <3>3. \/ Status(e) = "open"
            \/ Status(e) \in {"delivered", "dead"} /\ e \in overtaken
        <4>1. /\ outbox[e].state \in {"pending", "retryable", "sending", "delivered",
                                      "dead_letter"}
              /\ outbox[e].state # "sending" => e \in overtaken
          BY <1>1, <2>2, <3>1 DEF Present, OutboxOK, RowStates, EventInv, HandsInv
        <4>2. QED
          BY <2>2, <4>1, StatusOf
      <3>4. \A x \in Events \ {e} : Status(x)' = Status(x)
        BY <3>1, StatusOf
      <3>5. QED
        BY <3>2, <3>3, <3>4 DEF Kept
    <2>4. QED
      BY <1>3, <2>1, <2>2, <2>3 DEF PromiseStep
  <1>7. ASSUME NEW c \in Cores, DrainLease(c)
        PROVE  PromiseStep
    <2>1. \E S \in Batches : Lease(S) \/ UNCHANGED outbox
      BY <1>7 DEF DrainLease
    <2>2. QED
      BY <1>1, <1>2, <2>1, StatusStays
  <1>8. ASSUME NEW c \in Cores, Start(c)
        PROVE  PromiseStep
    <2>1. UNCHANGED <<taken, refused>>
      BY <1>8 DEF Start
    <2>2. PICK old \in SUBSET Events : Prune(old)
      BY <1>8 DEF Start
    <2> DEFINE S == {e \in old : Prunable(e)}
    <2>3. \A e \in S : outbox[e].state = "delivered" /\ outbox'[e].state = "pruned"
      BY <1>1, <2>2 DEF Prune, Prunable, NoRow
    <2>4. \A e \in Events \ S : outbox'[e] = outbox[e]
      BY <1>1, <2>2 DEF Prune, OutboxOK
    <2>5. /\ \A e \in S : Status(e) = "delivered" /\ Status(e)' = "forgotten"
          /\ \A e \in Events \ S : Status(e)' = Status(e)
      BY <2>3, <2>4, StatusOf
    <2>6. QED
      BY <2>1, <2>5 DEF PromiseStep
  <1>9. ASSUME NEW e \in Events, Elapse(e)
        PROVE  PromiseStep
    BY <1>1, <1>2, <1>9, StatusStays DEF Elapse
  <1>10. CASE \E e \in Events : Append_(e) \/ Enqueue(e) \/ GiveUpWaiting(e)
    BY <1>3, <1>10 DEF Append_, Enqueue, GiveUpWaiting
  <1>11. ASSUME NEW c \in Cores,
                SyncRevoked(c) \/ Sync(c) \/ SyncFails(c) \/ SendBatch(c) \/ Hang(c)
                \/ SettleFails(c) \/ EndBatch(c) \/ Stop(c) \/ CloseChannel(c) \/ Exit(c) \/ Crash(c)
         PROVE  PromiseStep
    BY <1>3, <1>11 DEF SyncRevoked, Sync, SyncFails, SendBatch, Hang, SettleFails, EndBatch,
                       Stop, CloseChannel, Exit, Crash
  <1>12. CASE UNCHANGED vars
    BY <1>3, <1>12 DEF vars
  <1>13. QED
    BY <1>4, <1>5, <1>6, <1>7, <1>8, <1>9, <1>10, <1>11, <1>12 DEF Next, Journal, Loop, Life

\* The journal, the outbox and the loops of all cores together keep the
\* promise of DeliveryPromise: nothing is delivered that was not taken, nothing
\* is given up that was not refused or out of attempts, nothing is pruned that
\* was not delivered, and only a sender that has lost its lease reopens an event.
THEOREM OutboxKeepsPromise == Spec => DeliveryKept
  <1>1. Init => Promise!Init
    <2> SUFFICES ASSUME Init PROVE Promise!Init
      OBVIOUS
    <2>1. \A e \in Events : Status(e) = "none" /\ ~(outbox[e].attempts >= MaxAttempts)
      BY OutboxAssumption DEF Init, NoRow, Status
    <2>2. QED
      BY <2>1 DEF Init, Promise!Init
  <1>2. Typed /\ Typed' /\ EventInv /\ [Next]_vars => [Promise!Next]_(Promise!vars)
    BY StepsAreKept, KeptIsPromised, AnswerStep DEF EventInv
  <1>3. QED
    BY <1>1, <1>2, EventAlways, PTL DEF Spec, HangSpec, DeliveryKept, Promise!Spec
=============================================================================
