----------------------------- MODULE AgentTask ------------------------------
(***************************************************************************)
(* The agent tasks of a BUD: the rows of bud_agent_tasks and the jobs that  *)
(* carry them out.  A row is inserted PENDING and committed, a job is        *)
(* created for it, and a second commit links the job to the row;            *)
(* handle_bud_agent_job moves the row to RUNNING and then to COMPLETED or    *)
(* FAILED; the cancel endpoint signals the job and fails the row; the boot   *)
(* sweep fails what the last process left active.                           *)
(*                                                                         *)
(* The jobs run on the queue of module JobQueue.  A task has one job, so a   *)
(* task is named by the id its job gets.                                    *)
(***************************************************************************)
EXTENDS JobQueue

CONSTANTS
    Buds,          \* the BUDs that tasks belong to
    BudOf,         \* the BUD of each task
    DbMayFail,     \* whether a commit may fail where the code survives it
    BareCancels    \* the jobs that POST /jobs/{id}/cancel is called for

ASSUME AgentAssumption ==
    /\ BudOf \in [Jobs -> Buds]
    /\ DbMayFail \in BOOLEAN
    /\ BareCancels \subseteq Jobs

VARIABLES
    row,           \* the committed status of each task, or "none"
    linked,        \* the tasks whose row has its job_id
    creating,      \* the request that creates each task, between its commits
    agent,         \* where each handle_bud_agent_job is
    pending,       \* the handlers whose CancelledError is still to be thrown
    cancel         \* the cancel endpoint's request on each task

agentVars == <<row, linked, creating, agent, pending, cancel>>
vars == <<queueVars, agentVars>>

ActiveRow == {"pending", "running"}

AgentTypeOK ==
    /\ QueueTypeOK
    /\ row \in [Jobs -> {"none", "completed", "failed"} \cup ActiveRow]
    /\ linked \subseteq Jobs
    /\ creating \in [Jobs -> {"idle", "inserted", "queued", "refused"}]
    /\ agent \in [Jobs -> {"none", "loading", "working", "recorded", "failing",
                           "cleanup", "ended"}]
    /\ pending \subseteq Jobs
    /\ cancel \in [Jobs -> {"idle", "with_job", "without_job", "marking"}]

AgentInit ==
    /\ QueueInit
    /\ row = [j \in Jobs |-> "none"]
    /\ linked = {}
    /\ creating = [j \in Jobs |-> "idle"]
    /\ agent = [j \in Jobs |-> "none"]
    /\ pending = {}
    /\ cancel = [j \in Jobs |-> "idle"]

\* The partial unique index uq_bud_agent_tasks_one_active.
SlotFree(j) == \A k \in Jobs \ {j} : BudOf[k] = BudOf[j] => row[k] \notin ActiveRow

RowBecomes(j, status) == row' = [row EXCEPT ![j] = status]

\* Mutant: the plain mark_failed.
mark_failed(j) == RowBecomes(j, "failed")

\* Mutant: the row is given the job's state, which is not one of its own.
mark_cancelled_if_active(j) ==
    row' = IF row[j] \in ActiveRow THEN [row EXCEPT ![j] = "cancelled"] ELSE row

mark_failed_if_active(j) ==
    row' = IF row[j] \in ActiveRow THEN [row EXCEPT ![j] = "failed"] ELSE row

-----------------------------------------------------------------------------
\* create_agent_task_for_stage, the code-review re-run and the retry endpoint.
InsertsRow(j) ==
    /\ row[j] = "none"
    /\ SlotFree(j)
    /\ RowBecomes(j, "pending")
    /\ creating' = [creating EXCEPT ![j] = "inserted"]
    /\ UNCHANGED <<queueVars, linked, agent, pending, cancel>>

CreatesJob(j) ==
    /\ creating[j] = "inserted"
    /\ CreateJob(j)
    /\ creating' = [creating EXCEPT ![j] = "queued"]
    /\ UNCHANGED <<row, linked, agent, pending, cancel>>

\* create_job raises.  The re-run and the retry go on to fail the row; the
\* stage trigger lets the exception through.
EnqueueFails(j) ==
    /\ creating[j] = "inserted"
    /\ \/ CreateJobQueueFull(j)
       \/ ~accepting /\ UNCHANGED queueVars
    /\ \E next \in {"refused", "idle"} : creating' = [creating EXCEPT ![j] = next]
    /\ UNCHANGED <<row, linked, agent, pending, cancel>>

RefusalRecorded(j) ==
    /\ creating[j] = "refused"
    /\ RowBecomes(j, "failed")
    /\ creating' = [creating EXCEPT ![j] = "idle"]
    /\ UNCHANGED <<queueVars, linked, agent, pending, cancel>>

\* The second commit writes job_id and nothing else.
LinksJob(j) ==
    /\ creating[j] = "queued"
    /\ linked' = linked \cup {j}
    /\ creating' = [creating EXCEPT ![j] = "idle"]
    /\ UNCHANGED <<queueVars, row, agent, pending, cancel>>

\* The request's session breaks at its last commit.
RequestDies(j) ==
    /\ DbMayFail
    /\ creating[j] \in {"queued", "refused"}
    /\ creating' = [creating EXCEPT ![j] = "idle"]
    /\ UNCHANGED <<queueVars, row, linked, agent, pending, cancel>>

-----------------------------------------------------------------------------
\* handle_bud_agent_job.
AgentStarts(w) ==
    /\ WorkerStarts(w)
    /\ agent' = [agent EXCEPT ![Head(queue)] = "loading"]
    /\ UNCHANGED <<row, linked, creating, pending, cancel>>

\* The row becomes RUNNING whatever it was, unless the index forbids it.
MarksRunning(j) ==
    /\ agent[j] = "loading" /\ j \notin pending
    /\ IF SlotFree(j)
         THEN RowBecomes(j, "running") /\ agent' = [agent EXCEPT ![j] = "working"]
         ELSE UNCHANGED row /\ agent' = [agent EXCEPT ![j] = "failing"]
    /\ UNCHANGED <<queueVars, linked, creating, pending, cancel>>

\* Mutant: an early return that reports the job and forgets the row.
GivesUpUnrecorded(j) ==
    /\ agent[j] \in {"loading", "working"} /\ j \notin pending
    /\ agent' = [agent EXCEPT ![j] = "recorded"]
    /\ UNCHANGED <<queueVars, row, linked, creating, pending, cancel>>

\* The agent did not succeed, or an early return found nothing to run it with.
GivesUp(j) ==
    /\ agent[j] \in {"loading", "working"} /\ j \notin pending
    /\ RowBecomes(j, "failed")
    /\ agent' = [agent EXCEPT ![j] = "recorded"]
    /\ UNCHANGED <<queueVars, linked, creating, pending, cancel>>

Completes(j) ==
    /\ agent[j] = "working" /\ j \notin pending
    /\ RowBecomes(j, "completed")
    /\ agent' = [agent EXCEPT ![j] = "recorded"]
    /\ UNCHANGED <<queueVars, linked, creating, pending, cancel>>

\* An exception before the outcome has been recorded, and its except branch.
AgentRaises(j) ==
    /\ agent[j] \in {"loading", "working"} /\ j \notin pending
    /\ agent' = [agent EXCEPT ![j] = "failing"]
    /\ UNCHANGED <<queueVars, row, linked, creating, pending, cancel>>

\* Mutant: the except branch reports the job and leaves the row to others.
RecordsFailureJobOnly(j) ==
    /\ agent[j] = "failing" /\ j \notin pending
    /\ agent' = [agent EXCEPT ![j] = "recorded"]
    /\ UNCHANGED <<queueVars, row, linked, creating, pending, cancel>>

RecordsFailure(j) ==
    /\ agent[j] = "failing" /\ j \notin pending
    /\ RowBecomes(j, "failed")
    /\ agent' = [agent EXCEPT ![j] = "recorded"]
    /\ UNCHANGED <<queueVars, linked, creating, pending, cancel>>

\* The job's state is reported after the row, COMPLETED or FAILED like it, and
\* the handler returns.
ReportsOutcome(j) ==
    /\ agent[j] = "recorded" /\ j \notin pending
    /\ HandlerReports(j, IF row[j] = "completed" THEN "completed" ELSE "failed")
    /\ UNCHANGED agentVars

Ends(j, outcome) ==
    /\ HandlerEnds(j, task[j], outcome)
    /\ agent' = [agent EXCEPT ![j] = "ended"]

AgentReturns(j) ==
    /\ agent[j] = "recorded" /\ j \notin pending
    /\ store[j] \notin Active
    /\ Ends(j, "returned")
    /\ UNCHANGED <<row, linked, creating, pending, cancel>>

\* The CancelledError branch: a guarded write, and the error goes on.
CleansUp(j) ==
    /\ agent[j] = "cleanup" /\ j \notin pending
    /\ mark_failed_if_active(j)
    /\ Ends(j, "cancelled")
    /\ UNCHANGED <<linked, creating, pending, cancel>>

\* A branch whose own write fails raises out of the handler.
BranchFails(j) ==
    /\ DbMayFail
    /\ agent[j] \in {"failing", "cleanup"} /\ j \notin pending
    /\ Ends(j, "raised")
    /\ UNCHANGED <<row, linked, creating, pending, cancel>>

\* CancelledError is thrown at the await the handler is in: into the cleanup
\* from inside the try block, and out of the handler from its except branches
\* and from what follows the block.
Interrupted(j) ==
    /\ j \in pending
    /\ pending' = pending \ {j}
    /\ \/ /\ agent[j] \in {"loading", "working", "recorded"}
          /\ agent' = [agent EXCEPT ![j] = "cleanup"]
          /\ UNCHANGED <<queueVars, row>>
       \/ /\ agent[j] = "recorded"
          /\ Ends(j, "cancelled")
          /\ UNCHANGED row
       \/ /\ agent[j] \in {"failing", "cleanup"}
          /\ Ends(j, "cancelled")
          /\ UNCHANGED row
    /\ UNCHANGED <<linked, creating, cancel>>

AgentResumes(w) ==
    /\ WorkerResumes(w)
    /\ agent' = [agent EXCEPT ![worker[w]] = "none"]
    /\ UNCHANGED <<row, linked, creating, pending, cancel>>

AgentSkips(w) == WorkerSkips(w) /\ UNCHANGED agentVars

-----------------------------------------------------------------------------
\* POST /buds/{id}/agent-tasks/{id}/cancel: load the row, signal the job that
\* the row named then, fail the row if it is still active.
CancelReads(j) ==
    /\ cancel[j] = "idle"
    /\ row[j] \in ActiveRow
    /\ cancel' = [cancel EXCEPT ![j] = IF j \in linked THEN "with_job" ELSE "without_job"]
    /\ UNCHANGED <<queueVars, row, linked, creating, agent, pending>>

\* cancel_job, which throws into the handler when there is a live one.
Signals(j) ==
    /\ CancelJob(j)
    /\ pending' = IF task[j] \in Live THEN pending \cup {j} ELSE pending

\* Mutant: the signal writes CANCELLED over the entry of a live job.
CancelSignalsDirect(j) ==
    /\ cancel[j] = "with_job"
    /\ store' = Updated(j, "cancelled")
    /\ cancel' = [cancel EXCEPT ![j] = "marking"]
    /\ UNCHANGED <<aged, poolVars, history, row, linked, creating, agent, pending>>

CancelSignals(j) ==
    /\ cancel[j] = "with_job"
    /\ \/ Signals(j)
       \/ store[j] \notin Active /\ UNCHANGED <<queueVars, pending>>
    /\ cancel' = [cancel EXCEPT ![j] = "marking"]
    /\ UNCHANGED <<row, linked, creating, agent>>

CancelMarks(j) ==
    /\ cancel[j] \in {"without_job", "marking"}
    /\ mark_failed_if_active(j)
    /\ cancel' = [cancel EXCEPT ![j] = "idle"]
    /\ UNCHANGED <<queueVars, linked, creating, agent, pending>>

CancelDies(j) ==
    /\ DbMayFail
    /\ cancel[j] \in {"without_job", "marking"}
    /\ cancel' = [cancel EXCEPT ![j] = "idle"]
    /\ UNCHANGED <<queueVars, row, linked, creating, agent, pending>>

\* POST /jobs/{id}/cancel: the signal alone.
BareCancel(j) ==
    /\ j \in BareCancels
    /\ Signals(j)
    /\ UNCHANGED <<row, linked, creating, agent, cancel>>

-----------------------------------------------------------------------------
StopAgents ==
    /\ StopWorkers
    /\ pending' = pending \cup {j \in Jobs : task[j] \in Live}
    /\ UNCHANGED <<row, linked, creating, agent, cancel>>

\* recover_stuck_agent_tasks, before the first request is served; a failure of
\* the sweep is logged and the boot goes on.
recover_stuck_agent_tasks ==
    \/ row' = [j \in Jobs |-> IF row[j] \in ActiveRow THEN "failed" ELSE row[j]]
    \/ DbMayFail /\ UNCHANGED row

Reboot ==
    /\ Restart
    /\ recover_stuck_agent_tasks
    /\ creating' = [j \in Jobs |-> "idle"]
    /\ agent' = [j \in Jobs |-> "none"]
    /\ pending' = {}
    /\ cancel' = [j \in Jobs |-> "idle"]
    /\ UNCHANGED linked

-----------------------------------------------------------------------------
CreationEnds(j) == CreatesJob(j) \/ EnqueueFails(j) \/ RefusalRecorded(j) \/ LinksJob(j)
CancelEnds(j) == CancelSignals(j) \/ CancelMarks(j)

AgentHandler(j) ==
    \/ MarksRunning(j)
    \/ GivesUp(j)
    \/ Completes(j)
    \/ AgentRaises(j)
    \/ RecordsFailure(j)
    \/ ReportsOutcome(j)
    \/ AgentReturns(j)
    \/ CleansUp(j)
    \/ BranchFails(j)
    \/ Interrupted(j)

AgentWorker(w) == AgentSkips(w) \/ AgentStarts(w) \/ AgentResumes(w)

AgentNext ==
    \/ \E j \in Jobs : InsertsRow(j) \/ CreationEnds(j) \/ RequestDies(j)
    \/ \E j \in Jobs : CancelReads(j) \/ CancelEnds(j) \/ CancelDies(j)
    \/ \E j \in Jobs : BareCancel(j)
    \/ \E j \in Jobs : AgentHandler(j)
    \/ \E w \in Workers : AgentWorker(w)
    \/ Clock /\ UNCHANGED agentVars
    \/ StopAgents
    \/ Reboot

AgentSafety == AgentInit /\ [][AgentNext]_vars

\* The event loop and the database answer, and an agent's run is bounded by its
\* timeout_seconds.  Nothing makes a user act or the process stop.
AgentSpec ==
    /\ AgentSafety
    /\ \A j \in Jobs :
          /\ WF_vars(CreationEnds(j))
          /\ WF_vars(CancelEnds(j))
          /\ WF_vars(AgentHandler(j))
    /\ \A w \in Workers : WF_vars(AgentWorker(w))

-----------------------------------------------------------------------------
\* Whatever the requests, the handlers and the boot sweep do to the queue is
\* something the queue's own specification allows.
ImplementsQueue == [][QueueNext]_queueVars

\* A client that reads COMPLETED for a job finds the task's row COMPLETED: the
\* row is committed first, and no late cancel or except branch overwrites it.
CompletedJobHasCompletedRow ==
    \A j \in Jobs : store[j] = "completed" => row[j] = "completed"

\* Somebody will still write the row of task j.
Attended(j) ==
    \/ creating[j] # "idle" \/ cancel[j] # "idle"
    \/ Queued(j) \/ task[j] # "none"

\* While the queue accepts jobs, an active row that has its job is attended:
\* no cancellation, exception or clean-up of the store leaves it holding the
\* BUD's only slot with nobody to move it.
LinkedRowIsAttended ==
    accepting => \A j \in linked : row[j] \in ActiveRow => Attended(j)

\* The row of a queued job leaves the active states, or the queue stops.
QueuedTaskSettles ==
    \A j \in Jobs : (Queued(j) /\ row[j] \in ActiveRow)
                      ~> (row[j] \notin ActiveRow \/ ~accepting)

-----------------------------------------------------------------------------
\* Promises of the comments that the code does not keep, and that have no run of
\* their own: TLC refutes each on a small instance, and the README tells the trace.

\* "a job still waiting in the queue must be dropped too, or a worker would run
\* it after the rows below were already marked failed": a FAILED row does not
\* come back to life.
FailedRowStaysFailed ==
    [][\A j \in Jobs : row[j] = "failed" => row'[j] = "failed"]_vars

\* What the queue-failure branches are for, "an orphan PENDING task that no
\* worker will ever pick up" must not be left behind.
PendingRowIsPickedUp ==
    accepting => \A j \in Jobs : row[j] = "pending" => Attended(j)

\* "The worker owns terminal state transitions (DB rows, ...)": once the job of
\* a task is CANCELLED and no worker, queue or request has it, its row is not
\* active any more.
CancelledJobSettlesRow ==
    \A j \in linked : store[j] = "cancelled" /\ ~Attended(j) => row[j] \notin ActiveRow
=============================================================================
