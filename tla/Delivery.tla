----------------------------- MODULE Delivery -----------------------------
(***************************************************************************)
(* From a finished call to the Control Plane: the journal's writer         *)
(* (internal/storage sqlite.go), the outbox, the delivery loop             *)
(* (cmd/virgil controlplane.go, internal/export controlplane.go), the      *)
(* client (internal/controlplane client.go) and the remote policy that the *)
(* loop fetches before it delivers (internal/policies policy.go,           *)
(* internal/storage remote_policy.go), in every core that has the database *)
(* open.                                                                   *)
(*                                                                         *)
(* A core opens the database, prunes, and starts its delivery loop before  *)
(* it listens: a core started by mistake beside a running one delivers     *)
(* until its listen fails.  Only the Server takes calls.  The Control      *)
(* Plane answers anything, at any time, or not at all.  Events that a      *)
(* policy block stores have no outbox row and are not modelled.            *)
(***************************************************************************)
EXTENDS Outbox, RemotePolicy, Sequences, SequencesExt

CONSTANTS
    Cores,       \* processes with the database open
    Server,      \* the core that listens
    QueueSize,   \* writeQueueSize: 64 in the code
    Local,       \* the limits of the configuration file
    Policies,    \* the envelopes the Control Plane may serve, by version
    Second,      \* a second, in units of the clock of time.Duration
    Width,       \* bits of a Duration: 64 in the code
    Workloads,   \* bound: what happens in a behaviour
    MaxStreak    \* bound: idle rounds counted

Versions == 1..Len(Policies)

ASSUME CoreAssumption == Server \in Cores /\ QueueSize \in Nat \ {0}
ASSUME PolicyAssumption ==
    /\ Local \in Limits
    /\ \A v \in Versions : Policies[v] \in PolicyEnvelope /\ Policies[v].version = v
ASSUME ClockAssumption == Second \in Nat \ {0} /\ Width \in Nat \ {0}
\* How often each core is started, which calls end with an event, which
\* policies the Control Plane may serve, whether a statement may fail, or fail
\* after its commit, whether the machine may sleep longer than a lease, and
\* whether the Control Plane may leave a request without an answer.
Workload == [starts : [Cores -> Nat], calls : SUBSET Events, served : SUBSET Versions,
             faults : BOOLEAN, sleeps : BOOLEAN, hangs : BOOLEAN]

ASSUME BoundAssumption == Workloads \subseteq Workload /\ MaxStreak \in Nat

VARIABLES
    \* The database, beside the outbox.
    cached,     \* version in remote_policy_cache, 0 when there is none
    \* The core.
    core,       \* "off", "up", "closing" (Close waits for the lock), "closed"
    work,       \* the workload, less the starts that are done
    \* The journal of the Server.
    caller,     \* what the call that ends with an event knows of it
    queue,      \* Journal.writes
    \* The engine, the client and the delivery loop of each core.
    applied,    \* lastRemoteVersion
    limits,     \* the effective limits
    last,       \* version of lastPolicy
    revoked,
    pc,         \* where the loop is
    batch,      \* leased rows not settled yet
    accepted, invalid,   \* the answer to the batch
    failing,    \* the row that Fail has read, and its attempts
    progress,   \* the round delivered something or changed the policy; kept
                \* only where idle rounds are counted
    streak,     \* idleStreak
    \* History.
    taken,      \* events the Control Plane has stored
    refused,    \* events it has called invalid
    overtaken   \* events in hand whose lease has ended under a sender

journal == <<caller, queue>>
policy == <<cached, applied, limits, last>>
round == <<batch, accepted, invalid, failing, progress, overtaken>>
server == <<taken, refused>>
vars == <<outbox, cached, core, work, caller, queue, applied, limits, last, revoked,
          pc, batch, accepted, invalid, failing, progress, streak, taken, refused, overtaken>>

NoFail == <<>>

TypeOK ==
    /\ outbox \in [Events -> [state : RowStates, attempts : Nat, ripe : BOOLEAN]]
    /\ cached \in {0} \cup Versions
    /\ core \in [Cores -> {"off", "up", "closing", "closed"}]
    /\ work \in Workload
    /\ caller \in [Events -> {"none", "blocked", "waiting", "ok", "refused", "failed"}]
    /\ queue \in Seq(Events)
    /\ Len(queue) <= QueueSize
    /\ applied \in [Cores -> {0} \cup Versions]
    /\ limits \in [Cores -> Limits]
    /\ last \in [Cores -> {0} \cup Versions]
    /\ revoked \in [Cores -> BOOLEAN]
    /\ pc \in [Cores -> {"off", "sync", "drain", "send", "settle", "stopped"}]
    /\ batch \in [Cores -> SUBSET Events]
    /\ accepted \in [Cores -> SUBSET Events]
    /\ invalid \in [Cores -> SUBSET Events]
    /\ failing \in [Cores -> {NoFail} \cup (Events \X Nat)]
    /\ \A c \in Cores : failing[c] # NoFail => failing[c][1] \in batch[c]
    /\ progress \in [Cores -> BOOLEAN]
    /\ streak \in [Cores -> 0..MaxStreak]
    /\ taken \subseteq Events /\ refused \subseteq Events
    /\ overtaken \subseteq UNION {batch[c] : c \in Cores}

Init ==
    /\ outbox = [e \in Events |-> NoRow]
    /\ cached = 0
    /\ core = [c \in Cores |-> "off"]
    /\ work \in Workloads
    /\ caller = [e \in Events |-> "none"]
    /\ queue = <<>>
    /\ applied = [c \in Cores |-> 0]
    /\ limits = [c \in Cores |-> Local]
    /\ last = [c \in Cores |-> 0]
    /\ revoked = [c \in Cores |-> FALSE]
    /\ pc = [c \in Cores |-> "off"]
    /\ batch = [c \in Cores |-> {}]
    /\ accepted = [c \in Cores |-> {}]
    /\ invalid = [c \in Cores |-> {}]
    /\ failing = [c \in Cores |-> NoFail]
    /\ progress = [c \in Cores |-> FALSE]
    /\ streak = [c \in Cores |-> 0]
    /\ taken = {} /\ refused = {} /\ overtaken = {}

-----------------------------------------------------------------------------
\* The journal.

\* Append, until its request is on the channel; the read lock is held.  The
\* lock is not to be had while Close waits for it, and once it is closed.
Append_(e) ==
    /\ e \in work.calls /\ caller[e] = "none" /\ core[Server] \in {"up", "closed"}
    /\ caller' = [caller EXCEPT ![e] = IF core[Server] = "up" THEN "blocked" ELSE "refused"]
    /\ UNCHANGED <<outbox, cached, core, work, queue, applied, limits, last, revoked, pc,
                   round, streak, server>>

Enqueue(e) ==
    /\ caller[e] = "blocked" /\ Len(queue) < QueueSize
    /\ queue' = Append(queue, e)
    /\ caller' = [caller EXCEPT ![e] = "waiting"]
    /\ UNCHANGED <<outbox, cached, core, work, applied, limits, last, revoked, pc, round,
                   streak, server>>

\* Mutant: a caller that gives up takes its event as not stored.
MutDenyQueued(e) ==
    /\ caller[e] \in {"blocked", "waiting"}
    /\ caller' = [caller EXCEPT ![e] = "refused"]
    /\ UNCHANGED <<outbox, cached, core, work, queue, applied, limits, last, revoked, pc,
                   round, streak, server>>

\* The caller's context ends: before the request is queued nothing is stored,
\* after that the writer goes on with it.
GiveUpWaiting(e) ==
    /\ caller[e] \in {"blocked", "waiting"}
    /\ caller' = [caller EXCEPT ![e] = IF @ = "blocked" THEN "refused" ELSE "failed"]
    /\ UNCHANGED <<outbox, cached, core, work, queue, applied, limits, last, revoked, pc,
                   round, streak, server>>

\* Mutant: Close stops the writer with requests on the channel.
MutWriterStops == queue # <<>> /\ core[Server] = "up"

Writable == queue # <<>>

\* The writer's transaction, and its answer to a caller that still waits.
Write ==
    /\ Writable
    /\ queue' = Tail(queue)
    /\ LET e == Head(queue)
           Tell(what) == caller' = [caller EXCEPT ![e] = IF @ = "waiting" THEN what ELSE @]
       IN  \/ Insert(e) /\ Tell("ok")
           \/ work.faults /\ Tell("failed") /\ (Insert(e) \/ UNCHANGED outbox)
    /\ UNCHANGED <<cached, core, work, applied, limits, last, revoked, pc, round, streak,
                   server>>

-----------------------------------------------------------------------------
\* The delivery loop.

\* The events that a loop still has in hand stay overtaken.
InHand(b) == UNION {b[c] : c \in Cores}

\* Mutant: the row that Fail has read outlives its round.
MutForgetBatch(c) ==
    /\ batch' = [batch EXCEPT ![c] = {}]
    /\ overtaken' = overtaken \cap InHand(batch')
    /\ UNCHANGED <<accepted, invalid, failing, progress>>

Forget(c) ==
    /\ batch' = [batch EXCEPT ![c] = {}]
    /\ overtaken' = overtaken \cap InHand(batch')
    /\ accepted' = [accepted EXCEPT ![c] = {}]
    /\ invalid' = [invalid EXCEPT ![c] = {}]
    /\ failing' = [failing EXCEPT ![c] = NoFail]
    /\ progress' = [progress EXCEPT ![c] = FALSE]

\* The end of a round: the next interval, and the wait.  An error of the
\* round is logged.
EndRound(c) ==
    /\ pc' = [pc EXCEPT ![c] = "sync"]
    /\ streak' = [streak EXCEPT ![c] =
           IF progress[c] THEN 0 ELSE IF @ < MaxStreak THEN @ + 1 ELSE @]
    /\ Forget(c)

\* A revoked credential ends the loop.
EndLoop(c) ==
    /\ pc' = [pc EXCEPT ![c] = "stopped"]
    /\ Forget(c)
    /\ UNCHANGED streak

Goto(c, label) == pc' = [pc EXCEPT ![c] = label]

\* 401 or 403 from the Control Plane (CurrentPolicy).
SyncRevoked(c) ==
    /\ pc[c] = "sync"
    /\ revoked' = [revoked EXCEPT ![c] = TRUE]
    /\ EndLoop(c)
    /\ UNCHANGED <<outbox, core, work, journal, policy, server>>

\* The envelope a round works with: none (304), one that the Control Plane
\* sends, or, when it cannot be reached, the last one it sent.
Fetched(c, v) ==
    \/ v = 0 /\ UNCHANGED last
    \/ v \in Versions \cap work.served /\ last' = [last EXCEPT ![c] = v]
    \/ v = last[c] /\ UNCHANGED last

\* Mutant: the policy is put in force although it could not be saved.
MutApplyUnsaved(c, v) ==
    /\ applied' = [applied EXCEPT ![c] = v]
    /\ limits' = [limits EXCEPT ![c] = Merge(Local, Policies[v])]
    /\ cached' \in {cached, v}

\* CacheAndApplyRemotePolicy, when it returns nil: saved, then in force.
CacheAndApplyRemotePolicy(c, v) ==
    /\ Mergeable(Policies[v], applied[c])
    /\ cached < v
    /\ cached' = v
    /\ limits' = [limits EXCEPT ![c] = Merge(Local, Policies[v])]
    /\ applied' = [applied EXCEPT ![c] = v]

\* Nothing new, or a newer policy that is applied; the round goes on.
Sync(c) ==
    /\ pc[c] = "sync" /\ ~revoked[c]
    /\ \E v \in {0} \cup Versions :
        /\ Fetched(c, v)
        /\ \/ v <= applied[c] /\ UNCHANGED <<cached, applied, limits, progress>>
           \/ /\ v > applied[c]
              /\ CacheAndApplyRemotePolicy(c, v)
              /\ progress' = [progress EXCEPT ![c] = MaxStreak > 0]
    /\ Goto(c, "drain")
    /\ UNCHANGED <<outbox, core, work, journal, revoked, batch, accepted, invalid, failing,
                   overtaken, streak, server>>

\* The Control Plane answers with an error; or the newer policy cannot be
\* merged, or saved: the cache has that version or a newer one already, or
\* the statement fails, or fails after its commit.  Nothing is delivered.
SyncFails(c) ==
    /\ pc[c] = "sync" /\ ~revoked[c]
    /\ \/ UNCHANGED <<cached, last>>
       \/ \E v \in Versions :
            /\ Fetched(c, v) /\ v > applied[c]
            /\ \/ (~Mergeable(Policies[v], applied[c]) \/ cached >= v) /\ UNCHANGED cached
               \/ /\ work.faults /\ Mergeable(Policies[v], applied[c]) /\ cached < v
                  /\ cached' \in {cached, v}
    /\ EndRound(c)
    /\ UNCHANGED <<outbox, core, work, journal, applied, limits, revoked, server>>

\* Lease of DrainControlPlane; a commit that fails may have leased the rows.
DrainLease(c) ==
    /\ pc[c] = "drain"
    /\ \E S \in Batches :
        \/ S = {} /\ EndRound(c) /\ UNCHANGED outbox
        \/ /\ S # {} /\ Lease(S)
           /\ batch' = [batch EXCEPT ![c] = S]
           /\ Goto(c, "send")
           /\ UNCHANGED <<accepted, invalid, failing, overtaken, progress, streak>>
        \/ work.faults /\ (Lease(S) \/ UNCHANGED outbox) /\ EndRound(c)
    /\ UNCHANGED <<core, work, journal, policy, revoked, server>>

\* SendBatch: the Control Plane stores some of the events and answers, or its
\* answer is lost or is an error; or it refuses the credential.
SendBatch(c) ==
    /\ pc[c] = "send"
    /\ Goto(c, "settle")
    /\ \/ \E A \in SUBSET batch[c] : \E I \in SUBSET (batch[c] \ A) :
            /\ taken' = taken \cup A
            /\ refused' = refused \cup I
            /\ accepted' = [accepted EXCEPT ![c] = A]
            /\ invalid' = [invalid EXCEPT ![c] = I]
            /\ UNCHANGED revoked
       \/ \E A \in SUBSET batch[c] :
            taken' = taken \cup A /\ UNCHANGED <<refused, accepted, invalid, revoked>>
       \/ /\ revoked' = [revoked EXCEPT ![c] = TRUE]
          /\ UNCHANGED <<server, accepted, invalid>>
    /\ UNCHANGED <<outbox, core, work, journal, policy, batch, failing, overtaken, progress,
                   streak>>

\* The Control Plane does not answer, though it may have stored events: the
\* fifteen seconds that the attempt has for the policy, the batch and the
\* outbox are over, and the next statement, a Lease, a save or a Fail, fails.
Hang(c) ==
    /\ work.hangs
    /\ \/ pc[c] = "sync" /\ ~revoked[c] /\ UNCHANGED taken
       \/ pc[c] = "send" /\ \E A \in SUBSET batch[c] : taken' = taken \cup A
    /\ EndRound(c)
    /\ UNCHANGED <<outbox, core, work, journal, policy, revoked, refused>>

Settled(c, e) ==
    /\ batch' = [batch EXCEPT ![c] = @ \ {e}]
    /\ overtaken' = overtaken \cap InHand(batch')

\* Mutant: a batch that was answered is taken as delivered.
MutAckBatch(c, e) ==
    /\ e \notin invalid[c] /\ Ack(e) /\ Settled(c, e)
    /\ progress' = [progress EXCEPT ![c] = MaxStreak > 0]

SettleAck(c, e) ==
    /\ e \in accepted[c] /\ Ack(e) /\ Settled(c, e)
    /\ progress' = [progress EXCEPT ![c] = MaxStreak > 0]

SettleInvalid(c, e) ==
    /\ e \in invalid[c] /\ DeadLetter(e) /\ Settled(c, e)
    /\ UNCHANGED progress

\* One event of the answer is settled (DrainControlPlane).
Settle(c) ==
    /\ pc[c] = "settle" /\ failing[c] = NoFail
    /\ \E e \in batch[c] :
        \/ (SettleAck(c, e) \/ SettleInvalid(c, e)) /\ UNCHANGED failing
        \/ /\ e \notin accepted[c] \cup invalid[c] /\ Present(e)
           /\ failing' = [failing EXCEPT ![c] = <<e, outbox[e].attempts>>]
           /\ UNCHANGED <<outbox, batch, overtaken, progress>>
    /\ UNCHANGED <<core, work, journal, policy, revoked, pc, accepted, invalid, streak, server>>

\* Fail's second statement.
Fail(c) ==
    /\ failing[c] # NoFail
    /\ FailRow(failing[c][1], failing[c][2])
    /\ Settled(c, failing[c][1])
    /\ failing' = [failing EXCEPT ![c] = NoFail]
    /\ UNCHANGED <<core, work, journal, policy, revoked, pc, accepted, invalid, progress,
                   streak, server>>

\* A statement fails, or the row of Fail is gone: the rest of the batch stays
\* in state sending.
SettleFails(c) ==
    /\ pc[c] = "settle" /\ batch[c] # {}
    /\ work.faults \/ \E e \in batch[c] : ~Present(e)
    /\ EndRound(c)
    /\ UNCHANGED <<outbox, core, work, journal, policy, revoked, server>>

EndBatch(c) ==
    /\ pc[c] = "settle" /\ batch[c] = {}
    /\ IF revoked[c] THEN EndLoop(c) ELSE EndRound(c)
    /\ UNCHANGED <<outbox, core, work, journal, policy, revoked, server>>

-----------------------------------------------------------------------------
\* Time, starts and stops.

\* Fifteen seconds end a round and five minutes a lease: a lease ends under a
\* sender only when the machine sleeps.
Elapse(e) ==
    /\ Ripen(e)
    /\ IF outbox[e].state = "sending" /\ e \in InHand(batch)
       THEN work.sleeps /\ overtaken' = overtaken \cup {e}
       ELSE UNCHANGED overtaken
    /\ UNCHANGED <<cached, core, work, caller, queue, applied, limits, last, revoked, pc,
                   batch, accepted, invalid, failing, progress, streak, server>>

\* RunCore: open, prune, load the cached policy, start the loop.  After the
\* Server has listened its handler takes calls.
Start(c) ==
    /\ core[c] = "off" /\ work.starts[c] > 0
    /\ work' = [work EXCEPT !.starts[c] = @ - 1]
    /\ core' = [core EXCEPT ![c] = "up"]
    /\ \E old \in SUBSET Events : Prune(old)
    /\ applied' = [applied EXCEPT ![c] = cached]
    /\ limits' = [limits EXCEPT ![c] =
           IF cached = 0 THEN Local ELSE Merge(Local, Policies[cached])]
    /\ Goto(c, "sync")
    /\ UNCHANGED <<cached, journal, last, revoked, round, streak, server>>

Quit(c) ==
    /\ last' = [last EXCEPT ![c] = 0]
    /\ applied' = [applied EXCEPT ![c] = 0]
    /\ limits' = [limits EXCEPT ![c] = Local]
    /\ revoked' = [revoked EXCEPT ![c] = FALSE]
    /\ streak' = [streak EXCEPT ![c] = 0]
    /\ core' = [core EXCEPT ![c] = "off"]
    /\ pc' = [pc EXCEPT ![c] = "off"]
    /\ Forget(c)
    /\ caller' = IF c # Server THEN caller
                 ELSE [e \in Events |-> IF caller[e] \in {"blocked", "waiting"} THEN "failed"
                                        ELSE caller[e]]
    /\ queue' = IF c = Server THEN <<>> ELSE queue

\* The Server returns: the loop is cancelled, which fails what it was doing,
\* and Close waits for the lock.  A core that takes no calls has nothing to
\* wait for: its stop is a Crash.
Stop(c) ==
    /\ c = Server /\ core[c] = "up"
    /\ core' = [core EXCEPT ![c] = "closing"]
    /\ Goto(c, "off")
    /\ Forget(c)
    /\ UNCHANGED <<outbox, work, journal, policy, revoked, streak, server>>

\* Mutant: Close does not wait for the callers that hold the read lock.
MutCloseAtOnce(c) == core[c] = "closing"

NoReader(c) == core[c] = "closing" /\ \A e \in Events : caller[e] # "blocked"

\* Close has the lock: the channel is closed.
CloseChannel(c) ==
    /\ NoReader(c)
    /\ core' = [core EXCEPT ![c] = "closed"]
    /\ UNCHANGED <<outbox, work, journal, policy, revoked, pc, round, streak, server>>

\* The writer is done, and the process ends.
Exit(c) ==
    /\ core[c] = "closed" /\ queue = <<>>
    /\ Quit(c)
    /\ UNCHANGED <<outbox, cached, work, server>>

Crash(c) ==
    /\ core[c] # "off"
    /\ Quit(c)
    /\ UNCHANGED <<outbox, cached, work, server>>

-----------------------------------------------------------------------------
Journal == Write \/ \E e \in Events : Append_(e) \/ Enqueue(e) \/ GiveUpWaiting(e)

Loop(c) ==
    \/ SyncRevoked(c) \/ Sync(c) \/ SyncFails(c) \/ DrainLease(c) \/ SendBatch(c)
    \/ Hang(c) \/ Settle(c) \/ Fail(c) \/ SettleFails(c) \/ EndBatch(c)

Life(c) == Start(c) \/ Stop(c) \/ CloseChannel(c) \/ Exit(c) \/ Crash(c)

Next ==
    \/ Journal
    \/ \E c \in Cores : Loop(c) \/ Life(c)
    \/ \E e \in Events : Elapse(e)

\* What the code gives: its goroutines run, and time passes.
GoroutinesRun ==
    /\ WF_vars(Write)
    /\ \A e \in Events : WF_vars(Enqueue(e)) /\ WF_vars(Elapse(e))
    /\ WF_vars(Loop(Server)) /\ WF_vars(CloseChannel(Server)) /\ WF_vars(Exit(Server))

\* What is assumed of the store: a statement that can succeed again and again
\* does so.
StoreRecovers ==
    /\ SF_vars(DrainLease(Server) /\ pc'[Server] = "send")
    /\ SF_vars(Settle(Server)) /\ SF_vars(Fail(Server))

\* What is assumed of the Control Plane: again and again it answers a request
\* for the policy, and one with a batch, within the time of the attempt.
ControlPlaneAnswers == SF_vars(Sync(Server)) /\ SF_vars(SendBatch(Server))

\* Nothing is assumed of the Control Plane.
HangSpec == Init /\ [][Next]_vars /\ GoroutinesRun /\ StoreRecovers

Spec == HangSpec /\ ControlPlaneAnswers

-----------------------------------------------------------------------------
\* Properties.

Status(e) ==
    CASE outbox[e].state = "none" -> "none"
      [] outbox[e].state \in {"pending", "retryable", "sending"} -> "open"
      [] outbox[e].state = "delivered" -> "delivered"
      [] outbox[e].state = "dead_letter" -> "dead"
      [] outbox[e].state = "pruned" -> "forgotten"

Promise == INSTANCE DeliveryPromise WITH
    status <- [e \in Events |-> Status(e)],
    exhausted <- {e \in Events : outbox[e].attempts >= MaxAttempts}

\* The outbox keeps its promise: no event is marked delivered that the Control
\* Plane did not store, none is given up before it was refused or its attempts
\* used up, none is pruned before it is delivered, and a settled event opens
\* again only if a lease on it ended in a sender's hands (Ack, Fail, DeadLetter,
\* Prune).
DeliveryKept == Promise!Spec

\* Two loops have the same event in hand only if a lease ended while the event was in
\* hand.
OneSender ==
    \A c, d \in Cores : c # d => batch[c] \cap batch[d] \subseteq overtaken

\* A caller that is told its event is stored finds it stored, and one that is
\* turned away before its request is queued does not (Append).
ToldTheTruth ==
    \A e \in Events :
        /\ caller[e] = "ok" => outbox[e].state # "none"
        /\ caller[e] = "refused" => outbox[e].state = "none"

\* No caller sends on the channel after Close has closed it.
NoSendOnClosedChannel ==
    core[Server] = "closed" => \A e \in Events : caller[e] # "blocked"

\* Whatever policy the Control Plane sends, a core allows no call, cost or
\* provider that the configuration file does not allow.
NeverLooserThanLocal ==
    \A c \in Cores : \A n \in 0..9 : \A p \in Providers :
        /\ AllowsCall(limits[c], n) => AllowsCall(Local, n)
        /\ AllowsCost(limits[c], n) => AllowsCost(Local, n)
        /\ AllowsProvider(limits[c], p) => AllowsProvider(Local, p)

\* The policy in force is in the database, or an older one is: no restart
\* puts a core back before a policy it has enforced (CacheAndApplyRemotePolicy).
NoPolicyIsForgotten ==
    \A c \in Cores : pc[c] # "off" =>
        /\ applied[c] <= cached
        /\ applied[c] > 0 => limits[c] = Merge(Local, Policies[applied[c]])

\* A loop whose client holds a policy that it could not put in force.
PolicyStuck(c) == last[c] > applied[c]

\* As long as the Control Plane answers in time again and again, every event in
\* the outbox is delivered or given up, unless the Server stops, loses its
\* credential, or has fetched a policy it cannot apply, or another core goes on
\* leasing the event (runControlPlaneDelivery).
EventsSettle ==
    \A e \in Events :
        Status(e) = "open" ~>
            \/ Status(e) # "open"
            \/ pc[Server] \in {"off", "stopped"} \/ PolicyStuck(Server)
            \/ \E c \in Cores \ {Server} : core[c] = "up"

\* README: "repeated permanent failures move to `dead_letter`".  So an event that
\* is sent again and again does not stay open (runControlPlaneDelivery, Fail).
RepeatedFailuresEnd ==
    \A e \in Events :
        []<>(pc[Server] = "send" /\ e \in batch[Server]) => []<>(Status(e) # "open")

\* Close returns, whatever is queued and whoever waits (Journal.Close).
CloseReturns == core[Server] = "closing" ~> core[Server] = "off"

\* The loop never waits less than the base interval: it backs off when idle
\* (runControlPlaneDelivery).
Wrap(n) == ((n + 2^(Width - 1)) % 2^Width) - 2^(Width - 1)

baseInterval == 5 * Second
maxInterval == 120 * Second

Interval(n) ==
    IF n = 0 THEN baseInterval
    ELSE IF Wrap(5 * 2^n * Second) > maxInterval THEN maxInterval ELSE Wrap(5 * 2^n * Second)

IdleLoopWaits == \A c \in Cores : Interval(streak[c]) >= baseInterval
=============================================================================
