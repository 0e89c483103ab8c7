-------------------------- MODULE PrMergeDelivery ---------------------------
(***************************************************************************)
(* How a merged pull request reaches its handler: the webhook's row in      *)
(* webhook_logs, the Redis stream of the repository, the supervisor and the  *)
(* consumer of pr_merge_worker.py, the recovery of orphans at boot, and the  *)
(* head_sha that the handler advances on the tracked repository.            *)
(*                                                                         *)
(* Postgres and Redis outlive the backend.  A delivery is a number: its     *)
(* place in the order in which the merges of its repository happened.       *)
(***************************************************************************)
EXTENDS Naturals, Sequences, FiniteSets

CONSTANTS
    Repos,           \* the (org, repo) pairs
    LastDelivery,    \* deliveries are 1 .. LastDelivery
    RepoOf,          \* the repository each delivery is about
    BatchLimit,      \* ORPHAN_BATCH_LIMIT, the rows of a status that a boot looks at
    MaxBoots,        \* bound: how often the backend is started
    RedisMayFail,    \* whether Redis may be down, or lose a reply or its data
    DbMayFail        \* whether a status write may fail

Deliveries == 1 .. LastDelivery

ASSUME DeliveryAssumption ==
    /\ LastDelivery \in Nat
    /\ RepoOf \in [Deliveries -> Repos]
    /\ BatchLimit \in Nat \ {0}
    /\ MaxBoots \in Nat \ {0}
    /\ RedisMayFail \in BOOLEAN
    /\ DbMayFail \in BOOLEAN

NoDelivery == 0

VARIABLES
    row,         \* webhook_logs.status of each delivery, or "none"
    gone,        \* the repositories that were deleted: their rows' repo_id is NULL
    head,        \* tracked_repositories.head_sha, as the delivery that set it
    registry,    \* the set pr-merge:streams
    stream,      \* the messages of each stream that the group has not read
    group,       \* the streams whose consumer group exists
    backend,     \* "down", "serving", or "no_pool" when it booted without Redis
    boots,       \* how often it has been started
    publishing,  \* requests that have committed their row and not published it
    consumer,    \* where the consumer task of each stream is
    inhand,      \* the delivery it works on
    handled,     \* history: deliveries whose handler has returned
    runs,        \* history: how often the handler was started on each delivery
    dropped      \* history: active rows that a fault left to the next boot

durable == <<row, gone, head>>
redis   == <<registry, stream, group>>
process == <<backend, boots, publishing, consumer, inhand>>
history == <<handled, runs>>
vars == <<row, gone, head, registry, stream, group, backend, boots,
          publishing, consumer, inhand, handled, runs, dropped>>

Settled == {"done", "failed"}
Orphan  == {"running", "pending"}

TypeOK ==
    /\ row \in [Deliveries -> {"none"} \cup Orphan \cup Settled]
    /\ gone \subseteq Repos
    /\ head \in [Repos -> Deliveries \cup {NoDelivery}]
    /\ registry \subseteq Repos
    /\ stream \in [Repos -> Seq(Deliveries)]
    /\ group \subseteq Repos
    /\ backend \in {"down", "serving", "no_pool"}
    /\ boots \in 0 .. MaxBoots
    /\ publishing \subseteq Deliveries
    /\ consumer \in [Repos -> {"none", "starting", "polling", "marking", "handling",
                               "recording", "failing"}]
    /\ inhand \in [Repos -> Deliveries \cup {NoDelivery}]
    /\ handled \subseteq Deliveries
    /\ runs \in [Deliveries -> Nat]
    /\ dropped \subseteq Deliveries

Init ==
    /\ row = [d \in Deliveries |-> "none"]
    /\ gone = {}
    /\ head = [r \in Repos |-> NoDelivery]
    /\ registry = {}
    /\ stream = [r \in Repos |-> <<>>]
    /\ group = {}
    /\ backend = "down"
    /\ boots = 0
    /\ publishing = {}
    /\ consumer = [r \in Repos |-> "none"]
    /\ inhand = [r \in Repos |-> NoDelivery]
    /\ handled = {}
    /\ runs = [d \in Deliveries |-> 0]
    /\ dropped = {}

-----------------------------------------------------------------------------
\* Mutant: a status that WebhookDeliveryStatus does not have.
ReceiveUnknown(d) ==
    /\ backend # "down"
    /\ row[d] = "none"
    /\ row' = [row EXCEPT ![d] = "received"]
    /\ publishing' = publishing \cup {d}
    /\ UNCHANGED <<gone, head, redis, backend, boots, consumer, inhand, history, dropped>>

\* github_webhook and enqueue_rescan_delivery.  GitHub tells of the merges of a
\* repository in their order; a redelivery finds the row and changes nothing.
Receive(d) ==
    /\ backend # "down"
    /\ RepoOf[d] \notin gone
    /\ row[d] = "none"
    /\ \A e \in 1 .. d - 1 : RepoOf[e] = RepoOf[d] => row[e] # "none"
    /\ row' = [row EXCEPT ![d] = "pending"]
    /\ publishing' = publishing \cup {d}
    /\ UNCHANGED <<gone, head, redis, backend, boots, consumer, inhand, history, dropped>>

\* Mutant: SADD without XADD.
PublishRegisters(d) ==
    /\ d \in publishing
    /\ backend = "serving"
    /\ registry' = registry \cup {RepoOf[d]}
    /\ publishing' = publishing \ {d}
    /\ UNCHANGED <<durable, stream, group, backend, boots, consumer, inhand, history, dropped>>

\* publish_pr_merge_delivery: SADD and XADD in one pipeline.
Publish(d) ==
    /\ d \in publishing
    /\ backend = "serving"
    /\ registry' = registry \cup {RepoOf[d]}
    /\ stream' = [stream EXCEPT ![RepoOf[d]] = Append(@, d)]
    /\ publishing' = publishing \ {d}
    /\ UNCHANGED <<durable, group, backend, boots, consumer, inhand, history, dropped>>

\* Without Redis it returns False; when it raises the webhook only logs that.
\* The pipeline is no transaction: the SADD may have landed without the XADD.
PublishFails(d) ==
    /\ d \in publishing
    /\ backend = "no_pool" \/ RedisMayFail
    /\ \/ UNCHANGED registry
       \/ backend = "serving" /\ registry' = registry \cup {RepoOf[d]}
    /\ publishing' = publishing \ {d}
    /\ dropped' = dropped \cup {d}
    /\ UNCHANGED <<durable, stream, group, backend, boots, consumer, inhand, history>>

-----------------------------------------------------------------------------
Becomes(r, step) == consumer' = [consumer EXCEPT ![r] = step]

\* A tick of _supervise, and _ensure_group.  A consumer that could not make its
\* group is reaped by a later tick, which makes room for another.
Spawns(r) ==
    /\ backend = "serving"
    /\ r \in registry
    /\ consumer[r] = "none"
    /\ Becomes(r, "starting")
    /\ UNCHANGED <<durable, redis, backend, boots, publishing, inhand, history, dropped>>

EnsuresGroup(r) ==
    /\ consumer[r] = "starting"
    /\ \/ group' = group \cup {r} /\ Becomes(r, "polling")
       \/ RedisMayFail /\ UNCHANGED group /\ Becomes(r, "none")
    /\ UNCHANGED <<durable, registry, stream, backend, boots, publishing, inhand,
                   history, dropped>>

\* Mutant: the group is read from "0", so that the message at its head is handed
\* out until it is acknowledged, and the acknowledgement is lost.
ReadsAgain(r) ==
    /\ consumer[r] = "polling"
    /\ r \in group
    /\ stream[r] # <<>>
    /\ Becomes(r, "marking")
    /\ inhand' = [inhand EXCEPT ![r] = Head(stream[r])]
    /\ UNCHANGED <<durable, redis, backend, boots, publishing, history, dropped>>

\* XREADGROUP ">" hands out each message once.  Nothing reads the pending
\* entries of the group, so a message whose reply is lost is lost.
Reads(r) ==
    /\ consumer[r] = "polling"
    /\ r \in group
    /\ stream[r] # <<>>
    /\ stream' = [stream EXCEPT ![r] = Tail(@)]
    /\ \/ /\ Becomes(r, "marking")
          /\ inhand' = [inhand EXCEPT ![r] = Head(stream[r])]
          /\ UNCHANGED dropped
       \/ /\ RedisMayFail
          /\ dropped' = dropped \cup {Head(stream[r])}
          /\ UNCHANGED <<consumer, inhand>>
    /\ UNCHANGED <<durable, registry, group, backend, boots, publishing, history>>

\* _process_message: RUNNING, the handler, DONE; an exception of any of the
\* three makes it FAILED.  The XACK that follows changes nothing that is read.
Marks(r) ==
    /\ consumer[r] = "marking"
    /\ \/ /\ row' = [row EXCEPT ![inhand[r]] = "running"]
          /\ runs' = [runs EXCEPT ![inhand[r]] = @ + 1]
          /\ Becomes(r, "handling")
       \/ DbMayFail /\ UNCHANGED <<row, runs>> /\ Becomes(r, "failing")
    /\ UNCHANGED <<gone, head, redis, backend, boots, publishing, inhand, handled, dropped>>

\* handle_pr_merge_delivery: it raises, or advances head_sha to its own merge,
\* or returns without that (a full scan was triggered, or nothing is to do).
Handles(r) ==
    /\ consumer[r] = "handling"
    /\ \/ /\ Becomes(r, "failing")
          /\ UNCHANGED <<head, handled>>
       \/ /\ Becomes(r, "recording")
          /\ handled' = handled \cup {inhand[r]}
          /\ \/ r \notin gone /\ head' = [head EXCEPT ![r] = inhand[r]]
             \/ UNCHANGED head
    /\ UNCHANGED <<row, gone, redis, backend, boots, publishing, inhand, runs, dropped>>

Finishes(r, status) ==
    /\ row' = [row EXCEPT ![inhand[r]] = status]
    /\ Becomes(r, "polling")
    /\ inhand' = [inhand EXCEPT ![r] = NoDelivery]
    /\ UNCHANGED <<gone, head, redis, backend, boots, publishing, history, dropped>>

Records(r) ==
    /\ consumer[r] = "recording"
    /\ \/ Finishes(r, "done")
       \/ /\ DbMayFail /\ Becomes(r, "failing")
          /\ UNCHANGED <<durable, redis, backend, boots, publishing, inhand, history, dropped>>

Fails(r) ==
    /\ consumer[r] = "failing"
    /\ \/ Finishes(r, "failed")
       \/ /\ DbMayFail /\ Becomes(r, "polling")
          /\ inhand' = [inhand EXCEPT ![r] = NoDelivery]
          /\ dropped' = dropped \cup {inhand[r]}
          /\ UNCHANGED <<durable, redis, backend, boots, publishing, history>>

-----------------------------------------------------------------------------
\* The backend dies.  WorkerPool.stop leaves no more behind than this: it waits,
\* then cancels what is not done.
Exits ==
    /\ backend # "down"
    /\ backend' = "down"
    /\ publishing' = {}
    /\ consumer' = [r \in Repos |-> "none"]
    /\ inhand' = [r \in Repos |-> NoDelivery]
    /\ UNCHANGED <<durable, redis, boots, history, dropped>>

\* A Redis that does not persist comes back empty.  A consumer does not make
\* its group a second time.
RedisLosesData ==
    /\ RedisMayFail
    /\ registry # {}
    /\ registry' = {} /\ group' = {}
    /\ stream' = [r \in Repos |-> <<>>]
    /\ dropped' = dropped \cup {d \in Deliveries : \E r \in Repos :
                                   \E i \in DOMAIN stream[r] : stream[r][i] = d}
    /\ UNCHANGED <<durable, process, history>>

RepoDeleted(r) ==
    /\ r \notin gone
    /\ gone' = gone \cup {r}
    /\ UNCHANGED <<row, head, redis, process, history, dropped>>

Ascending(S) ==
    CHOOSE q \in [1 .. Cardinality(S) -> S] : \A i, k \in DOMAIN q : i < k => q[i] < q[k]

\* list_in_status: the rows of a status, oldest first, and so many of them.
list_in_status(status) ==
    LET found == {d \in Deliveries : row[d] = status}
    IN {d \in found : Cardinality({e \in found : e < d}) < BatchLimit}

\* Mutant: only the RUNNING rows are orphans.
RepublishedRunning(sent, r) == Ascending({d \in sent : RepoOf[d] = r /\ row[d] = "running"})

\* The RUNNING rows come before the PENDING ones.
Republished(sent, r) ==
    LET mine(status) == {d \in sent : RepoOf[d] = r /\ row[d] = status}
    IN Ascending(mine("running")) \o Ascending(mine("pending"))

\* The order in which a boot works through the orphans.
Sooner(d, e) ==
    \/ row[d] = "running" /\ row[e] = "pending"
    \/ row[d] = row[e] /\ d < e

\* A database that fails ends the recovery: at once in list_in_status, and at the
\* orphan without a repository that cannot be marked FAILED.
Tried(listed, lost) ==
    IF DbMayFail
    THEN {listed, {}} \cup {{d \in listed : Sooner(d, e)} : e \in lost}
    ELSE {listed}

\* start_pr_merge_workers: the orphans are published again, those of them whose
\* XADD lands, and those without a repository become FAILED.
Boot ==
    /\ backend = "down"
    /\ boots < MaxBoots
    /\ boots' = boots + 1
    /\ backend' = "serving"
    /\ LET listed == list_in_status("running") \cup list_in_status("pending")
           lost   == {d \in listed : RepoOf[d] \in gone}
       IN \E tried \in Tried(listed, lost) :
          \E reached \in IF RedisMayFail THEN SUBSET (tried \ lost) ELSE {tried \ lost} :
          \E sent \in IF RedisMayFail THEN SUBSET reached ELSE {reached} :
            /\ row' = [d \in Deliveries |-> IF d \in lost \cap tried THEN "failed" ELSE row[d]]
            /\ stream' = [r \in Repos |-> stream[r] \o Republished(sent, r)]
            /\ registry' = registry \cup {RepoOf[d] : d \in reached}
            /\ dropped' = {d \in Deliveries : row[d] \in Orphan} \ ((lost \cap tried) \cup sent)
    /\ UNCHANGED <<gone, head, group, publishing, consumer, inhand, history>>

BootWithoutRedis ==
    /\ RedisMayFail
    /\ backend = "down"
    /\ boots < MaxBoots
    /\ boots' = boots + 1
    /\ backend' = "no_pool"
    /\ dropped' = {d \in Deliveries : row[d] \in Orphan}
    /\ UNCHANGED <<durable, redis, publishing, consumer, inhand, history>>

-----------------------------------------------------------------------------
Request(d) == Publish(d) \/ PublishFails(d)

Consumer(r) ==
    \/ Spawns(r) \/ EnsuresGroup(r) \/ Reads(r)
    \/ Marks(r) \/ Handles(r) \/ Records(r) \/ Fails(r)

Next ==
    \/ \E d \in Deliveries : Receive(d) \/ Request(d)
    \/ \E r \in Repos : Consumer(r) \/ RepoDeleted(r)
    \/ Exits
    \/ RedisLosesData
    \/ Boot
    \/ BootWithoutRedis

Safety == Init /\ [][Next]_vars

\* The event loop runs what is ready and a handler is bounded by its agent's
\* timeout.  Nothing makes GitHub deliver, or the backend exit or start.
Spec ==
    /\ Safety
    /\ \A d \in Deliveries : WF_vars(Request(d))
    /\ \A r \in Repos : WF_vars(Consumer(r))

-----------------------------------------------------------------------------
Unread(d) == \E i \in DOMAIN stream[RepoOf[d]] : stream[RepoOf[d]][i] = d
InHand(d) == \E r \in Repos : inhand[r] = d

\* While the backend runs, a delivery that is not settled is about to be
\* published, unread, or in its consumer's hand; the only others are those that
\* a named fault dropped, and they are what the next boot lists.
Accounted ==
    backend # "down" => \A d \in Deliveries : row[d] \in Orphan =>
        d \in publishing \cup dropped \/ Unread(d) \/ InHand(d)

\* DONE says that the handler went through for this delivery, and so does the
\* head_sha of the repository.
DoneWasHandled ==
    /\ \A d \in Deliveries : row[d] = "done" => d \in handled
    /\ \A r \in Repos : head[r] # NoDelivery => head[r] \in handled /\ RepoOf[head[r]] = r

\* However requests, consumers, exits and recoveries interleave, and whichever
\* messages an earlier process left on the streams, the handler is started on a
\* delivery at most once for each start of the backend.  (Under one process it may
\* be started twice: the copy that an earlier one left unread, and the orphan.)
RunsWithinBoots == \A d \in Deliveries : runs[d] <= boots

\* Without a fault of Redis or the database every recorded delivery is settled,
\* unless the backend exits, and then the next boot takes care of it, if there are
\* no more rows than it looks at.
RecordedIsSettled ==
    \A d \in Deliveries :
        (row[d] \in Orphan /\ backend = "serving") ~> (row[d] \in Settled \/ backend # "serving")

-----------------------------------------------------------------------------
\* Promises of the comments that the code does not keep, and that have no run of
\* their own: TLC refutes each on a small instance, and the README tells the trace.

\* "PR-merge webhooks AND operator rescans converge head_sha onto the latest
\* merged commit": it never goes back to an earlier merge.
HeadNeverRegresses == [][\A r \in Repos : head'[r] >= head[r]]_vars

\* The worker's state machine has no edge out of done and failed, and a row that
\* is recovered "gets exactly one fresh attempt": a settled row is not opened
\* again.
SettledIsFinal ==
    [][\A d \in Deliveries : row[d] \in Settled => row'[d] = row[d]]_vars

\* "the orphans are processed in arrival order": what a boot adds to a stream is
\* in the order in which the deliveries arrived.
OrphansInArrivalOrder ==
    [][backend = "down" =>
          \A r \in Repos : \A i, k \in (Len(stream[r]) + 1) .. Len(stream'[r]) :
              i < k => stream'[r][i] < stream'[r][k]]_vars
=============================================================================
