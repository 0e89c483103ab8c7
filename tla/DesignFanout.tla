----------------------------- MODULE DesignFanout -----------------------------
(***************************************************************************)
(* The designs of one BUD: one row and one job per repository, and one       *)
(* agent task that their outcomes are rolled up into (job_design.py,         *)
(* bud_designs.py, agent_task_cancel.py).  Requests and handlers are         *)
(* READ COMMITTED transactions; what a cancellation or a regeneration has    *)
(* flushed, and not committed, nobody sees, but its row lock holds others    *)
(* up.  The queue is JobQueue's, reduced to what a job does to the rows.     *)
(***************************************************************************)
EXTENDS Naturals, FiniteSets

CONSTANTS
    Designs,     \* the rows in bud_designs, one per repository of the BUD
    Users,       \* those whose generate, retry and regenerate requests overlap
    MaxTasks,    \* bound: agent tasks of the BUD
    MaxJobs,     \* bound: design jobs
    MaxRequests  \* bound: requests of users, and restarts

Tasks == 1 .. MaxTasks
Jobs == 1 .. MaxJobs
Nothing == 0

ASSUME FanoutAssumption ==
    /\ IsFiniteSet(Designs) /\ Nothing \notin Designs
    /\ MaxTasks \in Nat /\ MaxJobs \in Nat /\ MaxRequests \in Nat

VARIABLES
    design,      \* bud_designs.status as committed
    link,        \* bud_designs.job_id
    task,        \* bud_agent_tasks.status of the BUD's tasks, in their order
    other,       \* the tasks whose task_type is not design
    owner,       \* bud_agent_tasks.job_id: the first job of the task's fan-out
    job,         \* what each job's handler does next, or "none"
    subject,     \* the design a job was made for
    found,       \* the task that a job's roll-up has read
    signalled,   \* the running jobs that cancel_job has cancelled
    request,     \* the generate, retry or regenerate request of each user
    canceller,   \* the cancel_design request of each design
    stopper,     \* the cancel_task request of each task
    requests,    \* how many requests and restarts there were
    lost,        \* history: "blind" once a count missed a design whose cancellation was
                 \* not yet committed, "excused" once one missed a refused job's, or
                 \* a design was abandoned, or a task was cancelled that was over
    abandoned    \* history: designs whose handler raised or outran its request, whose
                 \* request or cancellation failed at its commit, whose row named
                 \* another job than the one cancelled, or whose recovery failed

taskVars == <<task, other, owner>>
jobVars == <<job, subject, found, signalled>>
cancels == <<canceller, stopper>>
history == <<lost, abandoned>>
vars == <<design, link, taskVars, jobVars, request, cancels, requests, history>>

NoRequest == [kind |-> "none", queued |-> {}, refused |-> {}, made |-> Nothing,
              target |-> Nothing, wrote |-> FALSE]
NoCancel == [phase |-> "none"]
Steps == {"none", "queued", "agent", "failing", "counting", "reading", "deciding",
          "completing", "giving_up", "ended"}

Asks == [kind : {"none", "fanout", "flushed", "regenerate"}, queued : SUBSET Jobs,
         refused : SUBSET Designs, made : Tasks \cup {Nothing},
         target : Designs \cup {Nothing}, wrote : BOOLEAN]
Cancels == {NoCancel} \cup [phase : {"signalled"}]
           \cup [phase : {"counted"}, marked : BOOLEAN, tasks : SUBSET Tasks,
                 verdict : {"completed", "failed"}]
Stops == {NoCancel} \cup [phase : {"signalled"}, first : Jobs \cup {Nothing}]

FanoutTypeOK ==
    /\ design \in [Designs -> {"none", "generating", "ready", "failed"}]
    /\ link \in [Designs -> Jobs \cup {Nothing}]
    /\ task \in [Tasks -> {"none", "running", "completed", "failed"}]
    /\ other \subseteq {k \in Tasks : task[k] # "none"}
    /\ owner \in [Tasks -> Jobs \cup {Nothing}]
    /\ Cardinality({k \in Tasks : task[k] = "running"}) <= 1
    /\ job \in [Jobs -> Steps]
    /\ subject \in [Jobs -> Designs \cup {Nothing}]
    /\ found \in [Jobs -> Tasks \cup {Nothing}]
    /\ signalled \subseteq Jobs
    /\ request \in [Users -> Asks]
    /\ canceller \in [Designs -> Cancels]
    /\ stopper \in [Tasks -> Stops]
    /\ requests \in 0 .. MaxRequests
    /\ lost \subseteq {"excused", "blind"}
    /\ abandoned \subseteq Designs

Init ==
    /\ design = [d \in Designs |-> "none"]
    /\ link = [d \in Designs |-> Nothing]
    /\ task = [k \in Tasks |-> "none"]
    /\ other = {}
    /\ owner = [k \in Tasks |-> Nothing]
    /\ job = [j \in Jobs |-> "none"]
    /\ subject = [j \in Jobs |-> Nothing]
    /\ found = [j \in Jobs |-> Nothing]
    /\ signalled = {}
    /\ request = [u \in Users |-> NoRequest]
    /\ canceller = [d \in Designs |-> NoCancel]
    /\ stopper = [k \in Tasks |-> NoCancel]
    /\ requests = 0
    /\ lost = {}
    /\ abandoned = {}

-----------------------------------------------------------------------------
Running == {k \in Tasks : task[k] = "running"}
Asked == requests < MaxRequests /\ requests' = requests + 1
In(status) == {d \in Designs : design[d] = status}
Fresh == {j \in Jobs : job[j] = "none"}
Busy(j) == job[j] \in Steps \ {"none", "queued", "ended"}

Idle(u) == request[u] = NoRequest
Refused == UNION {request[u].refused : u \in Users}

\* Who has an uncommitted write of this row, and so its lock.
Regenerating(d) == \E u \in Users : request[u].target = d /\ request[u].wrote
Marked(d) == canceller[d].phase = "counted" /\ canceller[d].marked
Locked(d) == Marked(d) \/ Regenerating(d)

\* create_job for each design in turn, until the queue is full.  No await lies
\* between the calls.  The jobs take the ids that follow.
Enqueued(u, D, new) ==
    \E Q \in SUBSET D : \E first \in Fresh :
        LET ids == first .. (first + Cardinality(Q) - 1)
        IN /\ \A j \in Fresh : j >= first
           /\ ids \subseteq Jobs
           /\ \E of \in [ids -> Q] :
                 /\ \A d \in Q : \E j \in ids : of[j] = d
                 /\ subject' = [j \in Jobs |-> IF j \in ids THEN of[j] ELSE subject[j]]
           /\ job' = [j \in Jobs |-> IF j \in ids THEN "queued" ELSE job[j]]
           /\ request' = [request EXCEPT ![u] =
                 [NoRequest EXCEPT !.kind = "fanout", !.queued = ids,
                                   !.refused = D \ Q, !.made = new]]

\* The rows are committed before the jobs are queued; new is the task the request
\* made, if any.
Fanout(u, D, new) ==
    /\ Asked /\ Idle(u)
    /\ \A d \in D : ~ Locked(d)
    /\ design' = [d \in Designs |-> IF d \in D THEN "generating" ELSE design[d]]
    /\ task' = IF new = Nothing THEN task ELSE [task EXCEPT ![new] = "running"]
    /\ Enqueued(u, D, new)
    /\ abandoned' = abandoned \ D
    /\ UNCHANGED <<link, other, owner, found, signalled, cancels, lost>>

NextTask == {k \in Tasks : task[k] = "none" /\ \A n \in Tasks : n < k => task[n] # "none"}
Wanted == (SUBSET Designs) \ {{}}

\* Mutant: each fan-out makes a task of its own.
GenerateAlone(u) == \E D \in Wanted : \E k \in NextTask : Fanout(u, D, k)

\* generate_designs: a fan-out joins the active task.  It read that before its
\* commit, so that the task may be over; the index of active tasks lets it make one
\* of its own only if none is active.
Generate(u) ==
    \E D \in Wanted :
        \/ (\E k \in Tasks : task[k] # "none") /\ Fanout(u, D, Nothing)
        \/ Running = {} /\ \E k \in NextTask : Fanout(u, D, k)

\* The task of another stage's agent, which is AgentTask's: one is active at a time.
OtherAgent ==
    /\ Asked /\ Running = {}
    /\ \E k \in NextTask :
          /\ task' = [task EXCEPT ![k] = "running"]
          /\ other' = other \cup {k}
    /\ UNCHANGED <<design, link, owner, jobVars, request, cancels, history>>

OtherEnds ==
    /\ \E k \in Running \cap other, verdict \in {"completed", "failed"} :
          task' = [task EXCEPT ![k] = verdict]
    /\ UNCHANGED <<design, link, other, owner, jobVars, request, cancels, requests,
                   history>>

\* retry_agent_task of a design task.
Retry(u) ==
    /\ Running = {}
    /\ \E k \in Tasks \ other : task[k] = "failed"
    /\ LET D == In("failed") \cup In("generating")
       IN D # {} /\ \E k \in NextTask : Fanout(u, D, k)

\* The job that this request queued for a design.
LinkOf(u, d) ==
    LET mine == {j \in request[u].queued : subject[j] = d}
    IN IF mine = {} THEN link[d] ELSE CHOOSE j \in mine : TRUE

Answered(u) == request' = [request EXCEPT ![u] = NoRequest]

\* Mutant: the designs whose job was refused are left for a later retry.
LinksQueuedOnly(u) ==
    /\ request[u].kind = "fanout"
    /\ link' = [d \in Designs |-> LinkOf(u, d)]
    /\ Answered(u)
    /\ UNCHANGED <<design, taskVars, jobVars, cancels, requests, history>>

\* The second commit writes the jobs' ids.  A design whose job was refused
\* becomes FAILED; so does the new task, if every job was refused.
Links(u) ==
    LET r == request[u] IN
    /\ r.kind = "fanout"
    /\ \A d \in r.refused \cup {subject[j] : j \in r.queued} : ~ Locked(d)
    /\ link' = [d \in Designs |-> LinkOf(u, d)]
    /\ design' = [d \in Designs |-> IF d \in r.refused THEN "failed" ELSE design[d]]
    /\ IF r.queued = {}
       THEN /\ task' = [k \in Tasks |-> IF k = r.made THEN "failed" ELSE task[k]]
            /\ UNCHANGED owner
       ELSE /\ owner' = [k \in Tasks |->
                  IF k = r.made THEN CHOOSE j \in r.queued : \A i \in r.queued : j <= i
                  ELSE owner[k]]
            /\ UNCHANGED task
    /\ Answered(u)
    /\ UNCHANGED <<other, jobVars, cancels, requests, history>>

\* That commit fails: the jobs run on without their ids in the rows, and the designs
\* whose job was refused stay GENERATING.
LinksFail(u) ==
    LET r == request[u] IN
    /\ r.kind = "fanout"
    /\ abandoned' = abandoned \cup r.refused
    /\ lost' = lost \cup (IF r.queued = {} \/ r.refused # {} THEN {"excused"} ELSE {})
    /\ Answered(u)
    /\ UNCHANGED <<design, link, taskVars, jobVars, cancels, requests>>

\* regenerate_design flushes GENERATING, which is an UPDATE if the row said something
\* else, and goes on in that transaction.
Regenerate(u, d) ==
    /\ Asked /\ Idle(u)
    /\ design[d] # "none"
    /\ design[d] # "generating" => ~ Locked(d)
    /\ request' = [request EXCEPT ![u] =
          [NoRequest EXCEPT !.kind = "flushed", !.target = d,
                            !.wrote = design[d] # "generating"]]
    /\ UNCHANGED <<design, link, taskVars, jobVars, cancels, history>>

\* It queues the job before it commits.
RegenerateQueues(u) ==
    /\ request[u].kind = "flushed"
    /\ \E j \in Fresh :
          /\ \A i \in Fresh : i >= j
          /\ job' = [job EXCEPT ![j] = "queued"]
          /\ subject' = [subject EXCEPT ![j] = request[u].target]
          /\ request' = [request EXCEPT ![u].kind = "regenerate", ![u].queued = {j}]
    /\ UNCHANGED <<design, link, taskVars, found, signalled, cancels, requests, history>>

\* The commit, which leaves GENERATING behind a job that was faster.
RegenerateCommits(u) ==
    LET r == request[u]
        d == r.target
    IN /\ r.kind = "regenerate"
       /\ r.wrote \/ ~ Locked(d)
       /\ \E j \in r.queued :
             /\ design' = IF r.wrote THEN [design EXCEPT ![d] = "generating"] ELSE design
             /\ link' = [link EXCEPT ![d] = j]
             /\ IF ~ r.wrote
                THEN UNCHANGED history
                ELSE IF job[j] \in {"queued", "agent", "failing"}
                THEN abandoned' = abandoned \ {d} /\ UNCHANGED lost
                ELSE abandoned' = abandoned \cup {d} /\ lost' = lost \cup {"excused"}
       /\ Answered(u)
       /\ UNCHANGED <<taskVars, jobVars, cancels, requests>>

\* The queue is full, or the commit fails.
RegenerateFails(u) ==
    /\ request[u].kind \in {"flushed", "regenerate"}
    /\ Answered(u)
    /\ UNCHANGED <<design, link, taskVars, jobVars, cancels, requests, history>>

\* update_design_html, upload_design.
Upload(d) ==
    /\ Asked /\ design[d] # "none" /\ ~ Locked(d)
    /\ design' = [design EXCEPT ![d] = "ready"]
    /\ UNCHANGED <<link, taskVars, jobVars, request, cancels, history>>

-----------------------------------------------------------------------------
Becomes(j, step) ==
    /\ job' = [job EXCEPT ![j] = step]
    /\ signalled' = IF step = "ended" THEN signalled \ {j} ELSE signalled

JobStarts(j) ==
    /\ job[j] = "queued"
    /\ Becomes(j, "agent")
    /\ UNCHANGED <<design, link, taskVars, subject, found, request, cancels, requests,
                   history>>

\* write_bud_design, or save_wireframe_from_output.
AgentWrites(j) ==
    /\ job[j] = "agent"
    /\ ~ Locked(subject[j])
    /\ design[subject[j]] # "ready"
    /\ design' = [design EXCEPT ![subject[j]] = "ready"]
    /\ UNCHANGED <<link, taskVars, jobVars, request, cancels, requests, history>>

\* The agent ends; _design_was_saved looks for its wireframe.
AgentEnds(j) ==
    /\ job[j] = "agent"
    /\ \/ Becomes(j, "failing")
       \/ design[subject[j]] = "ready" /\ Becomes(j, "counting")
    /\ UNCHANGED <<design, link, taskVars, subject, found, request, cancels, requests,
                   history>>

\* Mutant: the roll-up is forgotten when the agent failed.
JobFailsAlone(j) ==
    /\ job[j] = "failing"
    /\ ~ Locked(subject[j])
    /\ design' = [design EXCEPT ![subject[j]] = "failed"]
    /\ Becomes(j, "ended")
    /\ UNCHANGED <<link, taskVars, subject, found, request, cancels, requests, history>>

JobFails(j) ==
    /\ job[j] = "failing"
    /\ ~ Locked(subject[j])
    /\ design' = [design EXCEPT ![subject[j]] = "failed"]
    /\ Becomes(j, "counting")
    /\ UNCHANGED <<link, taskVars, subject, found, request, cancels, requests, history>>

\* A count misses what others have not committed.
Misses(d) ==
    (IF Refused # {} THEN {"excused"} ELSE {})
    \cup (IF \E e \in Designs \ {d} : Marked(e) THEN {"blind"} ELSE {})

\* _maybe_complete_design_task: it counts the designs that are generating, reads the
\* active task, counts the designs that are ready, and writes the task without
\* another look at it.
JobCounts(j) ==
    /\ job[j] = "counting"
    /\ Becomes(j, IF In("generating") = {} THEN "reading" ELSE "ended")
    /\ lost' = lost \cup Misses(Nothing)
    /\ UNCHANGED <<design, link, taskVars, subject, found, request, cancels, requests,
                   abandoned>>

JobReads(j) ==
    /\ job[j] = "reading"
    /\ \/ \E k \in Running \ other : found' = [found EXCEPT ![j] = k] /\ Becomes(j, "deciding")
       \/ Running \subseteq other /\ Becomes(j, "ended") /\ UNCHANGED found
    /\ UNCHANGED <<design, link, taskVars, subject, request, cancels, requests, history>>

JobDecides(j) ==
    /\ job[j] = "deciding"
    /\ Becomes(j, IF In("ready") # {} THEN "completing" ELSE "giving_up")
    /\ UNCHANGED <<design, link, taskVars, subject, found, request, cancels, requests,
                   history>>

JobSettles(j) ==
    /\ job[j] \in {"completing", "giving_up"}
    /\ task' = [task EXCEPT ![found[j]] = IF job[j] = "completing" THEN "completed" ELSE "failed"]
    /\ Becomes(j, "ended")
    /\ UNCHANGED <<design, link, other, owner, subject, found, request, cancels, requests,
                   history>>

\* The handler has no except branch of its own, so what raises leaves the row.
JobRaises(j) ==
    /\ Busy(j)
    /\ Becomes(j, "ended")
    /\ abandoned' = abandoned \cup {subject[j]}
    /\ lost' = lost \cup {"excused"}
    /\ UNCHANGED <<design, link, taskVars, subject, found, request, cancels, requests>>

\* CancelledError, at whichever await the handler is in.
JobAborts(j) ==
    /\ j \in signalled /\ Busy(j)
    /\ Becomes(j, "ended")
    /\ UNCHANGED <<design, link, taskVars, subject, found, request, cancels, requests,
                   history>>

Handler(j) ==
    JobStarts(j) \/ AgentEnds(j) \/ JobFails(j) \/ JobCounts(j) \/ JobReads(j)
    \/ JobDecides(j) \/ JobSettles(j) \/ JobAborts(j)

-----------------------------------------------------------------------------
\* cancel_job, for a job that waits and for one that runs.
Signals(J) ==
    /\ job' = [j \in Jobs |-> IF j \in J /\ job[j] = "queued" THEN "ended" ELSE job[j]]
    /\ signalled' = signalled \cup {j \in J : Busy(j)}

\* cancel_design: the job is signalled first, in the step that read the row.
CancelSignals(d) ==
    /\ Asked /\ canceller[d] = NoCancel
    /\ design[d] = "generating"
    /\ Signals({link[d]} \ {Nothing})
    /\ canceller' = [canceller EXCEPT ![d] = [phase |-> "signalled"]]
    /\ UNCHANGED <<design, link, taskVars, subject, found, request, stopper, history>>

Outcome == IF In("ready") # {} THEN "completed" ELSE "failed"

\* mark_failed_by_id, and the count of _advance_design_task_state, which sees its
\* own uncommitted write and nobody else's.
CancelCounts(d) ==
    /\ canceller[d].phase = "signalled"
    /\ ~ Regenerating(d)
    /\ LET marked == design[d] = "generating"
           still  == In("generating") \ {d}
       IN canceller' = [canceller EXCEPT ![d] =
            [phase |-> "counted", marked |-> marked,
             tasks |-> IF still = {} THEN Running ELSE {}, verdict |-> Outcome]]
    /\ lost' = lost \cup Misses(d)
    /\ UNCHANGED <<design, link, taskVars, jobVars, request, stopper, requests, abandoned>>

\* mark_completed looks at no status; mark_failed_if_active does.
CancelCommits(d) ==
    /\ canceller[d].phase = "counted"
    /\ LET c == canceller[d]
       IN /\ design' = [design EXCEPT ![d] = IF c.marked THEN "failed" ELSE @]
          /\ task' = [k \in Tasks |->
               IF k \in c.tasks /\ (c.verdict = "completed" \/ k \in Running)
               THEN c.verdict ELSE task[k]]
    /\ canceller' = [canceller EXCEPT ![d] = NoCancel]
    /\ UNCHANGED <<link, other, owner, jobVars, request, stopper, requests, history>>

\* A statement or the commit fails, and the job has been signalled all the same.
CancelFails(d) ==
    /\ canceller[d] # NoCancel
    /\ canceller' = [canceller EXCEPT ![d] = NoCancel]
    /\ abandoned' = abandoned \cup ({d} \cap In("generating"))
    /\ lost' = lost \cup {"excused"}
    /\ UNCHANGED <<design, link, taskVars, jobVars, request, stopper, requests>>

\* cancel_task: the task's job is the first of its fan-out.  It too is signalled in
\* the step that read the row.
CancelTaskSignals(k) ==
    /\ Asked /\ stopper[k] = NoCancel
    /\ k \in Running
    /\ Signals({owner[k]} \ {Nothing})
    /\ stopper' = [stopper EXCEPT ![k] = [phase |-> "signalled", first |-> owner[k]]]
    /\ UNCHANGED <<design, link, taskVars, subject, found, request, canceller, history>>

\* The designs that job j was at work on, and those of them whose row names it.
Subjects(j) == {d \in In("generating") : j # Nothing /\ subject[j] = d}
Named(j) == {d \in In("generating") : j # Nothing /\ link[d] = j}

\* Only the design whose row names that job is failed with the task, and no other
\* task is rolled up, should this one be over.
CancelTaskCommits(k) ==
    /\ stopper[k].phase = "signalled"
    /\ LET first  == stopper[k].first
           missed == Subjects(first) \ Named(first)
       IN /\ \A d \in Named(first) : ~ Locked(d)
          /\ design' = [d \in Designs |-> IF d \in Named(first) THEN "failed" ELSE design[d]]
          /\ task' = IF k \in Running THEN [task EXCEPT ![k] = "failed"] ELSE task
          /\ abandoned' = abandoned \cup missed
          /\ lost' = lost \cup (IF k \notin Running \/ missed # {} THEN {"excused"} ELSE {})
    /\ stopper' = [stopper EXCEPT ![k] = NoCancel]
    /\ UNCHANGED <<link, other, owner, jobVars, request, canceller, requests>>

CancelTaskFails(k) ==
    /\ stopper[k].phase = "signalled"
    /\ stopper' = [stopper EXCEPT ![k] = NoCancel]
    /\ abandoned' = abandoned \cup Subjects(stopper[k].first)
    /\ lost' = lost \cup {"excused"}
    /\ UNCHANGED <<design, link, taskVars, jobVars, request, canceller, requests>>

\* lifespan: the jobs and requests are gone, and one transaction fails what they
\* left behind; it may fail itself, which is logged.
Reboot ==
    /\ Asked
    /\ job' = [j \in Jobs |-> IF job[j] = "none" THEN "none" ELSE "ended"]
    /\ found' = [j \in Jobs |-> Nothing]
    /\ signalled' = {}
    /\ request' = [u \in Users |-> NoRequest]
    /\ canceller' = [d \in Designs |-> NoCancel]
    /\ stopper' = [k \in Tasks |-> NoCancel]
    /\ \/ /\ task' = [k \in Tasks |-> IF k \in Running THEN "failed" ELSE task[k]]
          /\ design' = [d \in Designs |->
               IF design[d] = "generating" THEN "failed" ELSE design[d]]
          /\ UNCHANGED history
       \/ /\ UNCHANGED <<task, design>>
          /\ abandoned' = abandoned \cup In("generating")
          /\ lost' = lost \cup {"excused"}
    /\ UNCHANGED <<link, other, owner, subject>>

Requester(u) ==
    \/ Generate(u) \/ Retry(u) \/ Links(u) \/ LinksFail(u)
    \/ RegenerateQueues(u) \/ RegenerateCommits(u) \/ RegenerateFails(u)
    \/ \E d \in Designs : Regenerate(u, d)

Canceller(d) == CancelSignals(d) \/ CancelCounts(d) \/ CancelCommits(d) \/ CancelFails(d)

Stopper(k) == CancelTaskSignals(k) \/ CancelTaskCommits(k) \/ CancelTaskFails(k)

Next ==
    \/ \E u \in Users : Requester(u)
    \/ OtherAgent \/ OtherEnds \/ Reboot
    \/ \E d \in Designs : Upload(d) \/ Canceller(d)
    \/ \E k \in Tasks : Stopper(k)
    \/ \E j \in Jobs : Handler(j) \/ AgentWrites(j) \/ JobRaises(j)

Spec == Init /\ [][Next]_vars

-----------------------------------------------------------------------------
Stopping(k, d) ==
    /\ stopper[k].phase = "signalled" /\ stopper[k].first # Nothing
    /\ subject[stopper[k].first] = d

OnIt(j, d) == j \notin signalled /\ subject[j] = d /\ job[j] \in {"queued", "agent", "failing"}

WorkedOn(d) ==
    \/ d \in abandoned \cup Refused
    \/ canceller[d].phase = "signalled" \/ Marked(d)
    \/ \E k \in Tasks : Stopping(k, d)
    \/ \E j \in Jobs : OnIt(j, d)

\* "each job owns its row's status": a design that is GENERATING is in the hands of
\* the request that could not queue its job, of a cancellation that has yet to fail it,
\* or of a job that has yet to settle it and has not been stopped.  Nothing else moves
\* it before the next restart.  What a handler that raised left is excused.
GeneratingIsWorkedOn == \A d \in In("generating") : WorkedOn(d)

\* Job j has yet to count for the running task k, or to settle it.
Settling(j, k) ==
    /\ j \notin signalled
    /\ \/ job[j] \in {"queued", "agent", "failing", "counting", "reading"}
       \/ job[j] \in {"deciding", "completing", "giving_up"} /\ found[j] = k

Counts(k) ==
    \/ \E j \in Jobs : Settling(j, k)
    \/ \E d \in Designs :
          \/ canceller[d].phase = "signalled"
          \/ canceller[d].phase = "counted" /\ k \in canceller[d].tasks
    \/ \E l \in Tasks : stopper[l].phase = "signalled"
    \/ \E u \in Users :
          request[u].kind = "fanout" /\ request[u].queued = {} /\ request[u].made = k

\* "Mark design BUDAgentTask as complete/failed when no designs are still
\* generating": as long as the task is RUNNING, somebody has its count before him: a
\* job that nobody has cancelled and that has read no other task, a cancellation that
\* has not counted or has settled this very task, or the request that made it in vain.
\* A count made while another's outcome was uncommitted is excused, and a raise.
TaskIsRolledUp == \A k \in Running \ other : Counts(k) \/ lost # {}

-----------------------------------------------------------------------------
(* Promises of docstrings that the code does not keep.                         *)

Attended ==
    \/ \E u \in Users : ~ Idle(u)
    \/ \E d \in Designs : canceller[d] # NoCancel
    \/ \E k \in Tasks : stopper[k] # NoCancel
    \/ \E j \in Jobs : job[j] \notin {"none", "ended"}

\* "Roll up per-design status into the parent agent task", whoever is the last: two
\* that end at once each count the other's design as still generating.
RollUpIsNeverLost == Running \subseteq other \/ Attended \/ "excused" \in lost

\* "Roll up per-design status into the parent agent task": the task that a design's
\* cancellation settles is the active one, whatever stage it is of.
OtherAgentsAreLeftAlone ==
    [][\A d \in Designs : CancelCommits(d) =>
          \A k \in Running \cap other : task'[k] = task[k]]_vars

\* "Until then the task stays running so other repos in the same batch can finish":
\* a roll-up settles no task that a design is generating for.
SettledLast ==
    [][\A k \in Running \ other :
          (\E j \in Jobs : JobSettles(j) /\ found[j] = k)
             \/ (\E d \in Designs : CancelCommits(d) /\ task'[k] # task[k])
          => ~ \E d \in Designs : design'[d] = "generating"]_vars
=============================================================================
