------------------------------ MODULE JobQueue ------------------------------
(***************************************************************************)
(* The in-memory job queue of backend/app/services/job_queue.py, for one    *)
(* registered job type: the store of job entries, the bounded queue, the    *)
(* pool of workers, and the asyncio task each worker wraps a handler in.    *)
(*                                                                         *)
(* The program is single-threaded: a step of this specification is what one *)
(* coroutine does between two awaits.  A handler that has ended and the     *)
(* worker that awaits it are two such steps, and what runs between them is  *)
(* where the cancellations get interesting.                                 *)
(***************************************************************************)
EXTENDS Naturals, Sequences, FiniteSets, Functions

CONSTANTS
    Jobs,          \* the job ids that callers may mint
    Workers,       \* the workers of this job type
    QueueMax,      \* queue_maxsize, the backpressure limit
    NoJob          \* what an idle worker holds

ASSUME QueueAssumption ==
    /\ QueueMax \in Nat \ {0}
    /\ NoJob \notin Jobs \cup {"stopped"}
    /\ "stopped" \notin Jobs

VARIABLES
    store,         \* _job_store: the state of each job's entry, or "absent"
    aged,          \* the jobs created more than _COMPLETED_TTL ago
    queue,         \* the asyncio.Queue of this job type
    worker,        \* the job each worker awaits, NoJob, or "stopped"
    interrupt,     \* what became of the cancel() that stop_workers sent a worker
    task,          \* the handler's asyncio.Task in _running_tasks
    accepting,     \* ~_shutting_down
    minted,        \* history: ids that have been passed to create_job
    ran,           \* history: jobs whose handler was given a task
    acked          \* history: jobs for which cancel_job returned True

storeVars == <<store, aged>>
poolVars  == <<queue, worker, interrupt, task, accepting>>
history   == <<minted, ran, acked>>
queueVars == <<store, aged, queue, worker, interrupt, task, accepting,
               minted, ran, acked>>

Terminal == {"completed", "failed", "cancelled"}
Active   == {"queued", "running"}

\* A handler task: "running" until it is cancelled, then "cancelling" while
\* its CancelledError branch cleans up; the other three are ways to be done.
Live  == {"running", "cancelling"}
Ended == {"returned", "raised", "cancelled"}

QueueTypeOK ==
    /\ store \in [Jobs -> {"absent"} \cup Active \cup Terminal]
    /\ aged \subseteq Jobs
    /\ queue \in Seq(Jobs)
    /\ worker \in [Workers -> Jobs \cup {NoJob, "stopped"}]
    /\ interrupt \in [Workers -> {"none", "pending", "forwarded"}]
    /\ task \in [Jobs -> {"none"} \cup Live \cup Ended]
    /\ accepting \in BOOLEAN
    /\ minted \subseteq Jobs
    /\ ran \subseteq Jobs
    /\ acked \subseteq Jobs

QueueInit ==
    /\ store = [j \in Jobs |-> "absent"]
    /\ aged = {}
    /\ queue = <<>>
    /\ worker = [w \in Workers |-> NoJob]
    /\ interrupt = [w \in Workers |-> "none"]
    /\ task = [j \in Jobs |-> "none"]
    /\ accepting = TRUE
    /\ minted = {}
    /\ ran = {}
    /\ acked = {}

-----------------------------------------------------------------------------
\* update_job writes whatever state it is given over the entry's, and does
\* nothing when cleanup has dropped the entry.
Updated(j, state) ==
    IF store[j] = "absent" THEN store ELSE [store EXCEPT ![j] = state]

\* create_job: the entry goes into the store before put_nowait, and stays
\* there when put_nowait raises QueueFull.
StoreEntry(j) ==
    /\ accepting
    /\ j \notin minted
    /\ store[j] = "absent"
    /\ store' = [store EXCEPT ![j] = "queued"]
    /\ minted' = minted \cup {j}

CreateJob(j) ==
    /\ StoreEntry(j)
    /\ Len(queue) < QueueMax
    /\ queue' = Append(queue, j)
    /\ UNCHANGED <<aged, worker, interrupt, task, accepting, ran, acked>>

CreateJobQueueFull(j) ==
    /\ StoreEntry(j)
    /\ Len(queue) >= QueueMax
    /\ UNCHANGED <<aged, poolVars, ran, acked>>

\* cancel_job of an entry that is not terminal.  A live task is cancelled and
\* left to the worker; otherwise the entry itself becomes CANCELLED.
CancelJob(j) ==
    /\ store[j] \in Active
    /\ acked' = acked \cup {j}
    /\ IF task[j] \in Live
         THEN /\ task' = [task EXCEPT ![j] = "cancelling"]
              /\ UNCHANGED store
         ELSE /\ store' = [store EXCEPT ![j] = "cancelled"]
              /\ UNCHANGED task
    /\ UNCHANGED <<aged, queue, worker, interrupt, accepting, minted, ran>>

\* The clock passes created_mono + _COMPLETED_TTL.
JobAges(j) ==
    /\ store[j] # "absent"
    /\ j \notin aged
    /\ aged' = aged \cup {j}
    /\ UNCHANGED <<store, poolVars, history>>

\* One pass of cleanup_completed_jobs, every 60 seconds.
Stale == {j \in aged : store[j] \in Terminal}

Cleanup ==
    /\ Stale # {}
    /\ store' = [j \in Jobs |-> IF j \in Stale THEN "absent" ELSE store[j]]
    /\ aged' = aged \ Stale
    /\ UNCHANGED <<poolVars, history>>

-----------------------------------------------------------------------------
\* The worker loop.  There is no await between queue.get and the creation of
\* the handler's task.
WorkerSkips(w) ==
    /\ worker[w] = NoJob
    /\ queue # <<>>
    /\ store[Head(queue)] = "cancelled"
    /\ queue' = Tail(queue)
    /\ UNCHANGED <<storeVars, worker, interrupt, task, accepting, history>>

\* Mutant: the worker runs what it finds in the queue without looking at it.
WorkerStartsCancelled(w) ==
    /\ worker[w] = NoJob
    /\ queue # <<>>
    /\ LET j == Head(queue) IN
         /\ store' = Updated(j, "running")
         /\ task' = [task EXCEPT ![j] = "running"]
         /\ worker' = [worker EXCEPT ![w] = j]
         /\ ran' = ran \cup {j}
    /\ queue' = Tail(queue)
    /\ UNCHANGED <<aged, interrupt, accepting, minted, acked>>

\* Mutant: the job stays in the queue while its handler runs.
WorkerStartsInPlace(w) ==
    /\ worker[w] = NoJob
    /\ queue # <<>>
    /\ LET j == Head(queue) IN
         /\ store[j] # "cancelled"
         /\ store' = Updated(j, "running")
         /\ task' = [task EXCEPT ![j] = "running"]
         /\ worker' = [worker EXCEPT ![w] = j]
         /\ ran' = ran \cup {j}
    /\ UNCHANGED <<aged, queue, interrupt, accepting, minted, acked>>

WorkerStarts(w) ==
    /\ worker[w] = NoJob
    /\ queue # <<>>
    /\ LET j == Head(queue) IN
         /\ store[j] # "cancelled"
         /\ store' = Updated(j, "running")
         /\ task' = [task EXCEPT ![j] = "running"]
         /\ worker' = [worker EXCEPT ![w] = j]
         /\ ran' = ran \cup {j}
    /\ queue' = Tail(queue)
    /\ UNCHANGED <<aged, interrupt, accepting, minted, acked>>

\* The worker resumes after its handler ended.  An exception of the handler
\* makes the job FAILED, a cancellation CANCELLED, unless it is the worker
\* itself that is being cancelled: then it propagates and the worker is gone.
WorkerStops(w, j) ==
    \/ interrupt[w] = "pending"
    \/ task[j] = "cancelled" /\ interrupt[w] = "forwarded"

\* Mutant: a state that is not one of JobState's.
OutcomeUnknown(j) ==
    CASE task[j] = "raised"    -> Updated(j, "error")
      [] task[j] = "cancelled" -> Updated(j, "cancelled")
      [] OTHER                 -> store

\* Mutant: an exception of the handler is only logged.
OutcomeLogged(j) == IF task[j] = "cancelled" THEN Updated(j, "cancelled") ELSE store

\* Mutant: a cancelled handler is expected to have written its own state.
OutcomeUncancelled(j) == IF task[j] = "raised" THEN Updated(j, "failed") ELSE store

Outcome(j) ==
    CASE task[j] = "raised"    -> Updated(j, "failed")
      [] task[j] = "cancelled" -> Updated(j, "cancelled")
      [] OTHER                 -> store

\* Mutant: a failed job is put back in the queue for another attempt.
WorkerResumesRetry(w) ==
    /\ worker[w] \in Jobs
    /\ task[worker[w]] \in Ended
    /\ LET j == worker[w] IN
         /\ task' = [task EXCEPT ![j] = "none"]
         /\ worker' = [worker EXCEPT ![w] = NoJob]
         /\ store' = Outcome(j)
         /\ queue' = IF task[j] = "raised" THEN Append(queue, j) ELSE queue
    /\ UNCHANGED <<aged, interrupt, accepting, history>>

WorkerResumes(w) ==
    /\ worker[w] \in Jobs
    /\ task[worker[w]] \in Ended
    /\ LET j == worker[w] IN
         /\ task' = [task EXCEPT ![j] = "none"]
         /\ IF WorkerStops(w, j)
              THEN /\ worker' = [worker EXCEPT ![w] = "stopped"]
                   /\ UNCHANGED store
              ELSE /\ worker' = [worker EXCEPT ![w] = NoJob]
                   /\ store' = Outcome(j)
    /\ UNCHANGED <<aged, queue, interrupt, accepting, history>>

\* Mutant: the workers are dropped without passing the cancellation on.
StopWorkersDropped ==
    /\ accepting
    /\ accepting' = FALSE
    /\ worker' = [w \in Workers |-> "stopped"]
    /\ UNCHANGED <<storeVars, queue, interrupt, task, history>>

\* stop_workers cancels every worker.  One that waits in queue.get stops; one
\* that awaits a live handler passes the cancellation on to the handler; one
\* whose handler has just ended finds the cancellation when it resumes.
StopWorkers ==
    /\ accepting
    /\ accepting' = FALSE
    /\ LET liveWorkers == {w \in Workers : worker[w] \in Jobs /\ task[worker[w]] \in Live}
       IN /\ worker' = [w \in Workers |-> IF worker[w] = NoJob THEN "stopped" ELSE worker[w]]
          /\ interrupt' = [w \in Workers |->
                CASE worker[w] = NoJob  -> "none"
                  [] w \in liveWorkers -> "forwarded"
                  [] OTHER             -> "pending"]
          /\ task' = [j \in Jobs |-> IF task[j] \in Live THEN "cancelling" ELSE task[j]]
    /\ UNCHANGED <<storeVars, queue, history>>

\* The process dies and starts again: the store, the queue and the tasks are
\* module globals and nothing of them survives.  Job ids are never minted twice.
FreshPool ==
    /\ store' = [j \in Jobs |-> "absent"]
    /\ aged' = {}
    /\ queue' = <<>>
    /\ worker' = [w \in Workers |-> NoJob]
    /\ interrupt' = [w \in Workers |-> "none"]
    /\ task' = [j \in Jobs |-> "none"]
    /\ accepting' = TRUE

Restart == FreshPool /\ UNCHANGED history

-----------------------------------------------------------------------------
\* What a handler does to the queue's state.  Every registered handler reports
\* COMPLETED or FAILED before it returns, re-raises CancelledError when it is
\* cancelled, and may let an exception escape at any point.
HandlerReports(j, state) ==
    /\ task[j] = "running"
    /\ store[j] \notin Terminal
    /\ store' = Updated(j, state)
    /\ UNCHANGED <<aged, poolVars, history>>

HandlerEnds(j, from, outcome) ==
    /\ task[j] = from
    /\ task' = [task EXCEPT ![j] = outcome]
    /\ UNCHANGED <<storeVars, queue, worker, interrupt, accepting, history>>

HandlerReturns(j) == store[j] \notin Active /\ HandlerEnds(j, "running", "returned")
HandlerRaises(j)  == HandlerEnds(j, "running", "raised")
HandlerAborts(j)  == HandlerEnds(j, "cancelling", "cancelled")
CleanupRaises(j)  == HandlerEnds(j, "cancelling", "raised")

-----------------------------------------------------------------------------
Callers == \E j \in Jobs : CreateJob(j) \/ CreateJobQueueFull(j) \/ CancelJob(j)
Clock   == (\E j \in Jobs : JobAges(j)) \/ Cleanup
Worker(w)  == WorkerSkips(w) \/ WorkerStarts(w) \/ WorkerResumes(w)
Handler(j) ==
    \/ \E state \in {"completed", "failed"} : HandlerReports(j, state)
    \/ HandlerReturns(j) \/ HandlerRaises(j)
    \/ HandlerAborts(j) \/ CleanupRaises(j)

QueueNext ==
    \/ Callers
    \/ Clock
    \/ \E w \in Workers : Worker(w)
    \/ \E j \in Jobs : Handler(j)
    \/ StopWorkers
    \/ Restart

QueueSafety == QueueInit /\ [][QueueNext]_queueVars

\* The event loop runs every ready coroutine, and a handler is bounded by the
\* time limit of the agent it runs.  Nothing makes callers call, or the
\* process stop.
QueueSpec ==
    /\ QueueSafety
    /\ \A w \in Workers : WF_queueVars(Worker(w))
    /\ \A j \in Jobs : WF_queueVars(Handler(j))

-----------------------------------------------------------------------------
Queued(j) == \E i \in DOMAIN queue : queue[i] = j

\* A job is in one place only: at most once in the queue, and then it has never
\* been started; a handler task is awaited by exactly one worker, and a worker
\* awaits a task.  This is what makes popping _running_tasks in the worker's
\* finally block the whole of the bookkeeping.
OneOwner ==
    /\ \A i, k \in DOMAIN queue : queue[i] = queue[k] => i = k
    /\ \A i \in DOMAIN queue : queue[i] \in minted \ ran
    /\ \A w, v \in Workers : worker[w] = worker[v] /\ worker[w] \in Jobs => w = v
    /\ \A w \in Workers : worker[w] \in Jobs => task[worker[w]] # "none"
    /\ \A j \in Jobs : task[j] # "none" => j \in ran /\ \E w \in Workers : worker[w] = j

\* While the queue accepts jobs, an entry in RUNNING is one that a worker
\* holds: no path through the worker's except clauses leaves a job RUNNING
\* with nobody left to finish it.
RunningIsHeld ==
    accepting => \A j \in Jobs : store[j] = "running" => \E w \in Workers : worker[w] = j

\* After cancel_job has returned True for a job, nobody ever reads COMPLETED
\* for it, whatever its handler and its worker were doing at that moment.
CancelledNeverCompletes == \A j \in acked : store[j] # "completed"

\* Once every worker has stopped, no handler of this job type still runs.
NoHandlerOutlivesPool ==
    (\A w \in Workers : worker[w] = "stopped") => \A j \in Jobs : task[j] = "none"

\* A job is handed to a handler at most once, however it is cancelled, aged
\* out of the store or found again in the queue.
RunsAtMostOnce ==
    [][\A j \in ran : task[j] = "none" => task'[j] = "none"]_queueVars

\* A job that made it into the queue is eventually settled, or the queue stops.
QueuedIsSettled ==
    \A j \in Jobs : Queued(j) ~> (store[j] \notin Active \/ ~accepting)

\* A cancellation that reached a live handler ends with the job out of the
\* active states, or the queue stops.
CancelSettles ==
    \A j \in Jobs : (task[j] = "cancelling" /\ accepting)
                      ~> (store[j] \notin Active \/ ~accepting)

-----------------------------------------------------------------------------
\* Promises of the comments that the code does not keep, and that have no run of
\* their own: TLC refutes each on a small instance, and the README tells the trace.

\* A job that was cancelled before it started is never run: "running it now
\* would undo the cancel".
CancelledBeforeStartNeverRuns ==
    [][\A j \in acked : j \notin ran => j \notin ran']_queueVars

\* stop_workers() completes: every worker it cancelled eventually stops.
StopCompletes == ~accepting ~> \A w \in Workers : worker[w] = "stopped"

\* What "no worker will touch the row after this point" says of cancel_job: a
\* CANCELLED entry keeps its state until cleanup drops it.
CancelledIsFinal ==
    [][\A j \in Jobs : store[j] = "cancelled" => store'[j] \in {"cancelled", "absent"}]_queueVars

\* A QUEUED entry is "live": it is in the queue, where a worker will find it.
QueuedEntryIsInQueue == \A j \in Jobs : store[j] = "queued" => Queued(j)
=============================================================================
