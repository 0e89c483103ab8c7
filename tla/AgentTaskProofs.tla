-------------------------- MODULE AgentTaskProofs ---------------------------
(* Proofs about the agent tasks and the jobs that carry them out, for any     *)
(* jobs, workers, BUDs and queue limit: the composition is a queue, a         *)
(* COMPLETED job has a COMPLETED row, and no linked row is abandoned.        *)
EXTENDS AgentTask, JobQueueProofs

\* Where a handler is, what its task is, and whether its CancelledError is still
\* to be thrown go together.
InStepAt(j) ==
    /\ agent[j] = "none" <=> task[j] = "none"
    /\ agent[j] = "ended" <=> task[j] \in Ended
    /\ j \in pending => task[j] = "cancelling"
    /\ task[j] = "cancelling" /\ j \notin pending => agent[j] = "cleanup"
    /\ agent[j] = "cleanup" => task[j] = "cancelling"

InStep == \A j \in Jobs : InStepAt(j)

\* How far a task's row, its creation and its job can be from one another: the
\* row comes before the job, a refused job never runs, and only a handler that
\* has recorded its outcome has reported it.
ProgressAt(j) ==
    /\ row[j] = "none" => j \notin minted /\ j \notin linked /\ creating[j] = "idle"
    /\ creating[j] = "inserted" => j \notin minted
    /\ creating[j] = "refused" => j \notin ran /\ ~Queued(j)
    /\ j \notin ran => store[j] # "completed"
    /\ agent[j] \in {"loading", "working", "failing"} => store[j] # "completed"
    /\ agent[j] = "recorded" => row[j] \notin ActiveRow

Progress == \A j \in Jobs : ProgressAt(j)

AgentIInv == AgentTypeOK /\ IInv /\ InStep /\ Progress /\ CompletedJobHasCompletedRow

\* A cancellation, which is one of two endpoints'.
Cancels == \E k \in Jobs : CancelJob(k) /\ (CancelSignals(k) \/ BareCancel(k))

\* Every step is the process's death, a cancellation of one of two endpoints or
\* another of the queue's moves, and only the report of an outcome may make a job COMPLETED.
LEMMA QueueMoves ==
  ASSUME AgentIInv, [AgentNext]_vars
  PROVE  /\ Moves \/ Cancels \/ Reboot
         /\ \A j \in Jobs : store'[j] = "completed" =>
               \/ store[j] = "completed"
               \/ row[j] = "completed" /\ ReportsOutcome(j)
<1> DEFINE Unreported == \A j \in Jobs : store'[j] = "completed" => store[j] = "completed"
<1>i. IInv /\ InStep
  BY DEF AgentIInv
<1>o. ASSUME \/ Callers \/ Clock \/ StopWorkers \/ Restart \/ UNCHANGED queueVars
             \/ \E w \in Workers : Worker(w)
             \/ \E k \in Jobs : \E from, outcome : HandlerEnds(k, from, outcome)
      PROVE  Unreported
  BY <1>i, <1>o, OnlyReportsComplete
<1>u. UNCHANGED queueVars => Moves /\ Unreported
  <2>1. UNCHANGED queueVars => Moves
    BY DEF Moves
  <2>2. QED BY <2>1, <1>o
<1>c. Callers => Unreported
  BY <1>o
<1> HIDE DEF Unreported
<1>1. ASSUME NEW j \in Jobs, InsertsRow(j) \/ CreationEnds(j) \/ RequestDies(j)
      PROVE  Moves /\ Unreported
  BY <1>1, <1>c, <1>u DEF InsertsRow, CreationEnds, RequestDies, CreatesJob, EnqueueFails,
     RefusalRecorded, LinksJob, Callers, Moves
<1>2. ASSUME NEW j \in Jobs, CancelReads(j) \/ CancelEnds(j) \/ CancelDies(j) \/ BareCancel(j)
      PROVE  (Moves \/ Cancels) /\ Unreported
  BY <1>2, <1>c, <1>u DEF Cancels, CancelReads, CancelEnds, CancelDies, CancelSignals, CancelMarks,
     BareCancel, Signals, Callers
<1>3. ASSUME NEW w \in Workers, AgentWorker(w) PROVE Moves /\ Unreported
  <2>1. Worker(w)
    BY <1>3 DEF AgentWorker, AgentSkips, AgentStarts, AgentResumes, Worker
  <2>2. QED BY <2>1, <1>o DEF Moves
<1>4. ASSUME NEW j \in Jobs, AgentHandler(j)
      PROVE  /\ Moves
             /\ Unreported \/ ReportsOutcome(j)
  <2>i. InStepAt(j) /\ task[j] \in {"none"} \cup Live \cup Ended
    BY <1>i DEF InStep, IInv, QueueTypeOK
  <2>h. ASSUME Handler(j) PROVE Moves
    BY <2>h DEF Moves
  <2>1. CASE MarksRunning(j) \/ GivesUp(j) \/ Completes(j) \/ AgentRaises(j) \/ RecordsFailure(j)
    BY <2>1, <1>u DEF MarksRunning, GivesUp, Completes, AgentRaises, RecordsFailure
  <2>2. CASE ReportsOutcome(j)
    <3>1. \/ HandlerReports(j, "completed")
          \/ HandlerReports(j, "failed")
      BY <2>2 DEF ReportsOutcome
    <3>2. Handler(j)
      BY <3>1 DEF Handler
    <3>3. QED BY <2>2, <2>h, <3>2
  <2>3. CASE AgentReturns(j)
    <3>1. task[j] = "running"
      BY <2>i, <2>3 DEF AgentReturns, InStepAt, Live
    <3>2. HandlerEnds(j, "running", "returned") /\ store[j] \notin Active
      BY <2>3, <3>1 DEF AgentReturns, Ends
    <3>3. QED BY <1>o, <2>h, <3>2 DEF Handler, HandlerReturns
  <2>4. CASE CleansUp(j)
    <3>1. HandlerEnds(j, "cancelling", "cancelled")
      BY <2>i, <2>4 DEF CleansUp, Ends, InStepAt
    <3>2. QED BY <1>o, <2>h, <3>1 DEF Handler, HandlerAborts
  <2>5. CASE BranchFails(j)
    <3>1. task[j] \in Live
      BY <2>i, <2>5 DEF BranchFails, InStepAt
    <3>2. HandlerEnds(j, "running", "raised") \/ HandlerEnds(j, "cancelling", "raised")
      BY <2>5, <3>1 DEF BranchFails, Ends, Live
    <3>3. QED BY <1>o, <2>h, <3>2 DEF Handler, HandlerRaises, CleanupRaises
  <2>6. CASE Interrupted(j)
    <3>1. task[j] = "cancelling"
      BY <2>i, <2>6 DEF Interrupted, InStepAt
    <3>2. UNCHANGED queueVars \/ HandlerEnds(j, "cancelling", "cancelled")
      BY <2>6, <3>1 DEF Interrupted, Ends
    <3>3. QED BY <1>o, <1>u, <2>h, <3>2 DEF Handler, HandlerAborts
  <2>7. QED BY <1>4, <2>1, <2>2, <2>3, <2>4, <2>5, <2>6 DEF AgentHandler
<1>5. ASSUME Clock \/ StopAgents PROVE Moves /\ Unreported
  BY <1>5, <1>o DEF StopAgents, Moves
<1>6. ASSUME Reboot PROVE Unreported
  BY <1>6, <1>o DEF Reboot
<1>7. ASSUME UNCHANGED vars PROVE Moves /\ Unreported
  BY <1>7, <1>u DEF vars
<1>8. ASSUME NEW j \in Jobs, ReportsOutcome(j), NEW k \in Jobs, store'[k] = "completed"
      PROVE  store[k] = "completed" \/ (row[k] = "completed" /\ ReportsOutcome(k))
  <2>1. store' = Updated(j, IF row[j] = "completed" THEN "completed" ELSE "failed")
    BY <1>8 DEF ReportsOutcome, HandlerReports, agentVars
  <2>2. QED BY <1>8, <1>i, <2>1 DEF Updated, IInv, QueueTypeOK
<1>9. (Moves \/ Cancels \/ Reboot) /\ (Unreported \/ \E j \in Jobs : ReportsOutcome(j))
  BY <1>1, <1>2, <1>3, <1>4, <1>5, <1>6, <1>7 DEF AgentNext
<1>10. QED BY <1>8, <1>9 DEF Unreported

\* Every step of the composition is a step of the queue, or leaves it alone.
LEMMA QueueStep ==
  ASSUME AgentIInv, [AgentNext]_vars
  PROVE  [QueueNext]_queueVars
<1>1. Moves \/ Cancels \/ Reboot
  BY QueueMoves
<1>2. QED BY <1>1 DEF Moves, Cancels, Reboot, QueueNext, Callers

\* The variables of the composition keep their types.
LEMMA AgentTypeStep ==
  ASSUME AgentIInv, [AgentNext]_vars
  PROVE  AgentTypeOK'
<1> USE DEF ActiveRow, RowBecomes, mark_failed_if_active
<1>0. AgentTypeOK /\ QueueTypeOK'
  BY QueueStep, QueueTypeStep DEF AgentIInv, AgentTypeOK
<1>1. ASSUME NEW j \in Jobs, InsertsRow(j) \/ CreationEnds(j) \/ RequestDies(j)
      PROVE  AgentTypeOK'
  BY <1>0, <1>1 DEF AgentTypeOK, InsertsRow, CreationEnds, RequestDies, CreatesJob, EnqueueFails,
     RefusalRecorded, LinksJob
<1>2. ASSUME NEW j \in Jobs, CancelReads(j) \/ CancelEnds(j) \/ CancelDies(j) \/ BareCancel(j)
      PROVE  AgentTypeOK'
  BY <1>0, <1>2 DEF AgentTypeOK, CancelReads, CancelEnds, CancelDies, CancelSignals, CancelMarks,
     BareCancel, Signals
<1>3. ASSUME NEW w \in Workers, AgentWorker(w) PROVE AgentTypeOK'
  BY <1>0, <1>3 DEF AgentTypeOK, AgentWorker, AgentSkips, AgentStarts, AgentResumes, agentVars
<1>4. ASSUME NEW j \in Jobs, AgentHandler(j) PROVE AgentTypeOK'
  <2>1. CASE MarksRunning(j) \/ GivesUp(j) \/ Completes(j) \/ AgentRaises(j) \/ RecordsFailure(j)
    BY <1>0, <2>1 DEF AgentTypeOK, MarksRunning, GivesUp, Completes, AgentRaises, RecordsFailure
  <2>2. CASE ReportsOutcome(j) \/ AgentReturns(j) \/ CleansUp(j) \/ BranchFails(j)
    BY <1>0, <2>2 DEF AgentTypeOK, ReportsOutcome, AgentReturns, CleansUp, BranchFails, Ends,
       agentVars
  <2>3. CASE Interrupted(j)
    BY <1>0, <2>3 DEF AgentTypeOK, Interrupted, Ends
  <2>4. QED BY <1>4, <2>1, <2>2, <2>3 DEF AgentHandler
<1>5. CASE Clock /\ UNCHANGED agentVars
  BY <1>0, <1>5 DEF AgentTypeOK, agentVars
<1>6. CASE StopAgents
  BY <1>0, <1>6 DEF AgentTypeOK, StopAgents
<1>7. CASE Reboot
  BY <1>0, <1>7 DEF AgentTypeOK, Reboot, recover_stuck_agent_tasks
<1>8. CASE UNCHANGED vars
  BY <1>0, <1>8 DEF AgentTypeOK, vars, agentVars
<1>9. QED BY <1>1, <1>2, <1>3, <1>4, <1>5, <1>6, <1>7, <1>8 DEF AgentNext

\* Handlers and tasks stay in step.
LEMMA StepInStep ==
  ASSUME AgentIInv, [AgentNext]_vars
  PROVE  InStep'
<1> USE DEF Live, Ended
<1>t. AgentTypeOK /\ QueueTypeOK /\ InStep
  BY DEF AgentIInv, AgentTypeOK
<1>k. ASSUME NEW j \in Jobs, agent'[j] = agent[j], task'[j] = task[j], j \in pending' <=> j \in pending
      PROVE  InStepAt(j)'
  BY <1>k, <1>t DEF InStep, InStepAt
<1>u. ASSUME UNCHANGED <<agent, task, pending>> PROVE InStep'
  BY <1>u, <1>k DEF InStep
\* A signal: the task is live, and becomes one that is cancelled and still to be told.
<1>s. ASSUME NEW k \in Jobs, Signals(k), agent' = agent PROVE InStep'
  <2>1. SUFFICES ASSUME NEW j \in Jobs PROVE InStepAt(j)'
    BY DEF InStep
  <2>2. CASE j = k /\ task[k] \in Live
    BY <1>s, <1>t, <2>2 DEF Signals, CancelJob, InStep, InStepAt, QueueTypeOK
  <2>3. CASE j # k \/ task[k] \notin Live
    <3>1. /\ agent'[j] = agent[j] /\ task'[j] = task[j]
          /\ j \in pending' <=> j \in pending
      BY <1>s, <1>t, <2>3 DEF Signals, CancelJob, QueueTypeOK
    <3>2. QED BY <1>k, <3>1
  <2>4. QED BY <2>2, <2>3
\* A handler that moves on, its task as it was.
<1>m. ASSUME NEW k \in Jobs, NEW next \in {"working", "recorded", "failing", "cleanup"},
             agent' = [agent EXCEPT ![k] = next], task' = task, pending' = pending \ {k},
             agent[k] \notin {"none", "ended"}, (task[k] = "cancelling") <=> (next = "cleanup")
      PROVE  InStep'
  <2>1. SUFFICES ASSUME NEW j \in Jobs PROVE InStepAt(j)'
    BY DEF InStep
  <2>2. CASE j = k
    BY <1>m, <1>t, <2>2 DEF InStep, InStepAt, AgentTypeOK
  <2>3. CASE j # k
    BY <1>k, <1>m, <1>t, <2>3 DEF AgentTypeOK
  <2>4. QED BY <2>2, <2>3
<1>e. ASSUME NEW k \in Jobs, NEW outcome \in Ended, Ends(k, outcome), pending' = pending \ {k}
      PROVE  InStep'
  <2>0. task' = [task EXCEPT ![k] = outcome] /\ agent' = [agent EXCEPT ![k] = "ended"]
    BY <1>e DEF Ends, HandlerEnds
  <2>1. SUFFICES ASSUME NEW j \in Jobs PROVE InStepAt(j)'
    BY DEF InStep
  <2>2. CASE j = k
    BY <1>e, <1>t, <2>0, <2>2 DEF InStepAt, AgentTypeOK, QueueTypeOK
  <2>3. CASE j # k
    BY <1>e, <1>k, <1>t, <2>0, <2>3 DEF AgentTypeOK, QueueTypeOK
  <2>4. QED BY <2>2, <2>3
<1>1. ASSUME NEW j \in Jobs, InsertsRow(j) \/ CreationEnds(j) \/ RequestDies(j)
      PROVE  InStep'
  BY <1>1, <1>u DEF InsertsRow, CreationEnds, RequestDies, CreatesJob, EnqueueFails,
     RefusalRecorded, LinksJob, CreateJob, CreateJobQueueFull, queueVars, poolVars
<1>2. ASSUME NEW j \in Jobs, CancelReads(j) \/ CancelEnds(j) \/ CancelDies(j) \/ BareCancel(j)
      PROVE  InStep'
  BY <1>2, <1>s, <1>u DEF CancelReads, CancelEnds, CancelDies, CancelSignals, CancelMarks,
     BareCancel, queueVars
<1>3. ASSUME NEW w \in Workers, AgentWorker(w) PROVE InStep'
  <2>1. CASE AgentSkips(w)
    BY <1>u, <2>1 DEF AgentSkips, WorkerSkips, agentVars
  <2>2. SUFFICES ASSUME AgentStarts(w) \/ AgentResumes(w), NEW j \in Jobs PROVE InStepAt(j)'
    BY <1>3, <2>1 DEF AgentWorker, InStep
  <2>i. InStepAt(j)
    BY <1>t DEF InStep
  <2>3. CASE AgentStarts(w)
    <3>1. /\ Head(queue) \in Jobs
          /\ task[Head(queue)] = "none"
          /\ task' = [task EXCEPT ![Head(queue)] = "running"]
          /\ agent' = [agent EXCEPT ![Head(queue)] = "loading"]
          /\ pending' = pending
      BY <2>3, StartsFresh DEF AgentStarts, WorkerStarts, AgentIInv
    <3>2. CASE j = Head(queue)
      BY <1>t, <2>i, <3>1, <3>2 DEF InStepAt, AgentTypeOK, QueueTypeOK
    <3>3. CASE j # Head(queue)
      BY <1>k, <1>t, <3>1, <3>3 DEF AgentTypeOK, QueueTypeOK
    <3>4. QED BY <3>2, <3>3
  <2>4. CASE AgentResumes(w)
    <3> DEFINE k == worker[w]
    <3>1. /\ k \in Jobs
          /\ task[k] \in Ended
          /\ task' = [task EXCEPT ![k] = "none"]
          /\ agent' = [agent EXCEPT ![k] = "none"]
          /\ pending' = pending
      BY <2>4 DEF AgentResumes, WorkerResumes
    <3> HIDE DEF k
    <3>2. CASE j = k
      BY <1>t, <2>i, <3>1, <3>2 DEF InStepAt, AgentTypeOK, QueueTypeOK
    <3>3. CASE j # k
      BY <1>k, <1>t, <3>1, <3>3 DEF AgentTypeOK, QueueTypeOK
    <3>4. QED BY <3>2, <3>3
  <2>5. QED BY <2>2, <2>3, <2>4
<1>4. ASSUME NEW k \in Jobs, AgentHandler(k) PROVE InStep'
  <2>i. InStepAt(k) /\ task[k] \in {"none"} \cup Live \cup Ended
    BY <1>t DEF InStep, QueueTypeOK
  <2>p. k \notin pending => pending = pending \ {k}
    OBVIOUS
  <2>1. CASE MarksRunning(k) \/ GivesUp(k) \/ Completes(k) \/ AgentRaises(k) \/ RecordsFailure(k)
    <3>1. /\ task' = task /\ pending' = pending \ {k}
          /\ agent[k] \in {"loading", "working", "failing"} /\ k \notin pending
      BY <2>1, <2>p DEF MarksRunning, GivesUp, Completes, AgentRaises, RecordsFailure, queueVars
    <3>2. task[k] # "cancelling"
      BY <2>i, <3>1 DEF InStepAt
    <3>3. \/ agent' = [agent EXCEPT ![k] = "working"]
          \/ agent' = [agent EXCEPT ![k] = "recorded"]
          \/ agent' = [agent EXCEPT ![k] = "failing"]
      BY <2>1 DEF MarksRunning, GivesUp, Completes, AgentRaises, RecordsFailure
    <3>4. QED BY <1>m, <3>1, <3>2, <3>3
  <2>2. CASE ReportsOutcome(k)
    BY <1>u, <2>2 DEF ReportsOutcome, HandlerReports, agentVars, poolVars
  <2>3. CASE AgentReturns(k) \/ CleansUp(k) \/ BranchFails(k)
    BY <1>e, <2>p, <2>3 DEF AgentReturns, CleansUp, BranchFails
  <2>4. CASE Interrupted(k)
    <3>1. pending' = pending \ {k} /\ task[k] = "cancelling"
      BY <2>i, <2>4 DEF Interrupted, InStepAt
    <3>2. CASE Ends(k, "cancelled")
      BY <1>e, <3>1, <3>2
    <3>3. CASE ~Ends(k, "cancelled")
      <4>1. agent[k] \in {"loading", "working", "recorded"}
            /\ agent' = [agent EXCEPT ![k] = "cleanup"] /\ task' = task
        BY <2>4, <3>3 DEF Interrupted, queueVars
      <4>2. QED BY <1>m, <3>1, <4>1
    <3>4. QED BY <3>2, <3>3
  <2>5. QED BY <1>4, <2>1, <2>2, <2>3, <2>4 DEF AgentHandler
<1>5. CASE Clock /\ UNCHANGED agentVars
  BY <1>5, <1>u DEF Clock, JobAges, Cleanup, agentVars, poolVars
<1>6. CASE StopAgents
  <2>0. /\ \A j \in Jobs : task'[j] = IF task[j] \in Live THEN "cancelling" ELSE task[j]
        /\ pending' = pending \cup {j \in Jobs : task[j] \in Live}
        /\ agent' = agent
    BY <1>6 DEF StopAgents, StopWorkers
  <2>1. SUFFICES ASSUME NEW j \in Jobs PROVE InStepAt(j)'
    BY DEF InStep
  <2>2. CASE task[j] \in Live
    BY <1>t, <2>0, <2>2 DEF InStep, InStepAt
  <2>3. CASE task[j] \notin Live
    BY <1>k, <2>0, <2>3
  <2>4. QED BY <2>2, <2>3
<1>7. CASE Reboot
  BY <1>7 DEF Reboot, Restart, FreshPool, InStep, InStepAt
<1>8. CASE UNCHANGED vars
  BY <1>8, <1>u DEF vars, agentVars, queueVars
<1>9. QED BY <1>1, <1>2, <1>3, <1>4, <1>5, <1>6, <1>7, <1>8 DEF AgentNext

\* Rows, creations and jobs stay as far from one another as Progress says.
LEMMA StepProgress ==
  ASSUME AgentIInv, [AgentNext]_vars
  PROVE  Progress'
<1> USE DEF ActiveRow
<1>t. AgentTypeOK /\ QueueTypeOK /\ IInv /\ InStep /\ Progress
  BY DEF AgentIInv, AgentTypeOK
<1>q. [QueueNext]_queueVars
  BY QueueStep
<1>h. minted \subseteq minted' /\ ran \subseteq ran'
  BY <1>q, HistoryGrows
<1>c. \A j \in Jobs : store'[j] = "completed" => store[j] = "completed" \/ ReportsOutcome(j)
  BY QueueMoves
<1>r. \A j \in Jobs : task[j] # "none" => j \in ran
  BY <1>t DEF IInv, OneOwner
<1>p. \A j \in Jobs : ReportsOutcome(j) => j \in ran /\ agent[j] = "recorded" /\ agent' = agent
  BY <1>r DEF ReportsOutcome, HandlerReports, agentVars
\* A task whose row, creation and handler a step leaves where they are.
<1>k. ASSUME NEW j \in Jobs,
             j \in minted' => j \in minted,
             creating'[j] \in {creating[j], "idle"},
             j \in linked' => j \in linked,
             row'[j] = "none" => row[j] = "none",
             agent'[j] \notin {"loading", "working", "failing", "recorded"} \/ agent'[j] = agent[j],
             agent[j] = "recorded" => row'[j] \notin ActiveRow
      PROVE  ProgressAt(j)'
  <2>1. ProgressAt(j)
    BY <1>t DEF Progress
  <2>2. creating[j] = "refused" => j \notin ran' /\ ~Queued(j)'
    BY <1>k, <1>q, <1>t, <2>1, StaysOutOfQueue DEF ProgressAt
  <2>3. j \notin ran' => store'[j] # "completed"
    BY <1>c, <1>h, <1>p, <2>1 DEF ProgressAt
  <2>4. agent'[j] \in {"loading", "working", "failing"} => store'[j] # "completed"
    BY <1>c, <1>k, <1>p, <2>1 DEF ProgressAt
  <2>5. /\ row'[j] = "none" => j \notin minted' /\ j \notin linked' /\ creating'[j] = "idle"
        /\ creating'[j] = "inserted" => j \notin minted'
        /\ agent'[j] = "recorded" => row'[j] \notin ActiveRow
    BY <1>k, <2>1 DEF ProgressAt
  <2>6. creating'[j] = "refused" => j \notin ran' /\ ~Queued(j)'
    BY <1>k, <2>2
  <2>7. QED BY <2>3, <2>4, <2>5, <2>6 DEF ProgressAt
\* A step that changes none of these variables.
<1>u. ASSUME UNCHANGED <<minted, creating, linked, row, agent>> PROVE Progress'
  <2>1. SUFFICES ASSUME NEW j \in Jobs PROVE ProgressAt(j)'
    BY DEF Progress
  <2>2. agent[j] = "recorded" => row'[j] \notin ActiveRow
    BY <1>t, <1>u DEF Progress, ProgressAt
  <2>3. QED BY <1>k, <1>u, <2>2
<1>1. ASSUME NEW j \in Jobs, InsertsRow(j) \/ CreationEnds(j) \/ RequestDies(j)
      PROVE  Progress'
  <2>i. ProgressAt(j)
    BY <1>t DEF Progress
  <2>o. ASSUME NEW k \in Jobs, k # j PROVE ProgressAt(k)'
    <3>1. /\ k \in minted' => k \in minted
          /\ creating'[k] = creating[k]
          /\ k \in linked' => k \in linked
          /\ row'[k] = row[k] /\ agent'[k] = agent[k]
      BY <1>1, <1>t, <2>o DEF AgentTypeOK, InsertsRow, CreationEnds, RequestDies, CreatesJob,
         EnqueueFails, RefusalRecorded, LinksJob, RowBecomes, CreateJob, CreateJobQueueFull,
         StoreEntry, queueVars
    <3>2. agent[k] = "recorded" => row'[k] \notin ActiveRow
      BY <1>t, <3>1 DEF Progress, ProgressAt
    <3>3. QED BY <1>k, <3>1, <3>2
  <2>f. j \notin minted => j \notin ran /\ ~Queued(j) /\ store[j] # "completed" /\ task[j] = "none"
    BY <1>r, <1>t DEF IInv, OneOwner, Bookkeeping, Queued
  <2>g. task[j] = "none" => agent[j] = "none"
    BY <1>t DEF InStep, InStepAt
  <2>1. CASE InsertsRow(j)
    <3>1. /\ row[j] = "none" /\ row'[j] = "pending" /\ creating'[j] = "inserted"
          /\ UNCHANGED <<store, minted, agent>>
      BY <1>t, <2>1 DEF InsertsRow, RowBecomes, AgentTypeOK, queueVars
    <3>2. ProgressAt(j)'
      BY <2>f, <2>g, <2>i, <3>1 DEF ProgressAt
    <3>3. QED BY <2>o, <3>2 DEF Progress
  <2>2. CASE CreatesJob(j)
    <3>1. /\ creating[j] = "inserted" /\ creating'[j] = "queued"
          /\ store'[j] = "queued" /\ row' = row /\ agent' = agent
          /\ j \notin minted
      BY <1>t, <2>2 DEF CreatesJob, CreateJob, StoreEntry, AgentTypeOK, QueueTypeOK
    <3>2. ProgressAt(j)'
      BY <2>f, <2>g, <2>i, <3>1 DEF ProgressAt
    <3>3. QED BY <2>o, <3>2 DEF Progress
  <2>3. CASE EnqueueFails(j)
    <3>1. /\ creating[j] = "inserted" /\ creating'[j] \in {"refused", "idle"}
          /\ store'[j] \in {"queued", store[j]} /\ row' = row /\ agent' = agent
          /\ queue' = queue /\ ran' = ran
      BY <1>t, <2>3 DEF EnqueueFails, CreateJobQueueFull, StoreEntry, AgentTypeOK, QueueTypeOK,
         queueVars, poolVars
    <3>2. j \notin ran' /\ ~Queued(j)'
      BY <2>f, <2>i, <3>1 DEF ProgressAt, Queued
    <3>3. ProgressAt(j)'
      BY <2>f, <2>g, <2>i, <3>1, <3>2 DEF ProgressAt
    <3>4. QED BY <2>o, <3>3 DEF Progress
  <2>4. CASE RefusalRecorded(j)
    <3>1. /\ row'[j] = "failed" /\ creating'[j] = "idle"
          /\ UNCHANGED <<minted, linked, agent>>
      BY <1>t, <2>4 DEF RefusalRecorded, RowBecomes, AgentTypeOK, queueVars
    <3>2. ProgressAt(j)'
      BY <1>k, <3>1
    <3>3. QED BY <2>o, <3>2 DEF Progress
  <2>5. CASE LinksJob(j)
    <3>1. /\ creating[j] = "queued" /\ creating'[j] = "idle"
          /\ UNCHANGED <<minted, store, queue, ran, row, agent>>
      BY <1>t, <2>5 DEF LinksJob, AgentTypeOK, queueVars
    <3>2. ProgressAt(j)'
      BY <2>i, <3>1 DEF ProgressAt
    <3>3. QED BY <2>o, <3>2 DEF Progress
  <2>6. CASE RequestDies(j)
    <3>1. /\ creating'[j] = "idle"
          /\ UNCHANGED <<minted, linked, row, agent>>
      BY <1>t, <2>6 DEF RequestDies, AgentTypeOK, queueVars
    <3>2. ProgressAt(j)'
      BY <1>k, <2>i, <3>1 DEF ProgressAt
    <3>3. QED BY <2>o, <3>2 DEF Progress
  <2>7. QED BY <1>1, <2>1, <2>2, <2>3, <2>4, <2>5, <2>6 DEF CreationEnds
\* A row that the guarded write may have failed.
<1>g. ASSUME NEW k \in Jobs, mark_failed_if_active(k), UNCHANGED <<minted, creating, linked>>,
             \A j \in Jobs : \/ agent'[j] \notin {"loading", "working", "failing", "recorded"}
                             \/ agent'[j] = agent[j]
      PROVE  Progress'
  <2>1. SUFFICES ASSUME NEW j \in Jobs PROVE ProgressAt(j)'
    BY DEF Progress
  <2>2. row'[j] \in {row[j], "failed"}
    BY <1>g, <1>t DEF mark_failed_if_active, AgentTypeOK
  <2>3. agent[j] = "recorded" => row[j] \notin ActiveRow
    BY <1>t DEF Progress, ProgressAt
  <2>4. QED BY <1>g, <1>k, <2>2, <2>3
<1>2. ASSUME NEW j \in Jobs, CancelReads(j) \/ CancelEnds(j) \/ CancelDies(j) \/ BareCancel(j)
      PROVE  Progress'
  <2>1. CASE CancelReads(j) \/ CancelSignals(j) \/ CancelDies(j) \/ BareCancel(j)
    BY <1>u, <2>1 DEF CancelReads, CancelSignals, CancelDies, BareCancel, Signals, CancelJob,
       queueVars
  <2>2. CASE CancelMarks(j)
    BY <1>g, <2>2 DEF CancelMarks, queueVars
  <2>3. QED BY <1>2, <2>1, <2>2 DEF CancelEnds
\* A step of a worker or a handler that touches the rows at most of its own task.
<1>f. ASSUME NEW k \in Jobs, ProgressAt(k)', UNCHANGED <<minted, creating, linked>>,
             \A j \in Jobs \ {k} : row'[j] = row[j] /\ agent'[j] = agent[j]
      PROVE  Progress'
  <2>1. SUFFICES ASSUME NEW j \in Jobs, j # k PROVE ProgressAt(j)'
    BY <1>f DEF Progress
  <2>2. agent[j] = "recorded" => row'[j] \notin ActiveRow
    BY <1>f, <1>t, <2>1 DEF Progress, ProgressAt
  <2>3. QED BY <1>f, <1>k, <2>1, <2>2
<1>3. ASSUME NEW w \in Workers, AgentWorker(w) PROVE Progress'
  <2>1. CASE AgentSkips(w)
    BY <1>u, <2>1 DEF AgentSkips, WorkerSkips, agentVars, history
  <2>2. CASE AgentStarts(w)
    <3>0. PICK h \in Jobs : h = Head(queue)
      BY <1>t, <2>2, StartsFresh DEF AgentStarts
    <3>1. /\ h \in minted \ ran
          /\ store' = Updated(h, "running")
          /\ agent' = [agent EXCEPT ![h] = "loading"]
          /\ ran' = ran \cup {h}
          /\ UNCHANGED <<minted, creating, linked, row>>
      BY <1>t, <2>2, <3>0, StartsFresh DEF AgentStarts, WorkerStarts
    <3>2. store'[h] # "completed"
      BY <1>t, <3>1 DEF Updated, QueueTypeOK
    <3>3. agent'[h] = "loading" /\ \A j \in Jobs \ {h} : agent'[j] = agent[j]
      BY <1>t, <3>1 DEF AgentTypeOK
    <3>4. ProgressAt(h) /\ creating[h] # "refused"
      <4>1. Queued(h)
        BY <2>2, <3>0, <1>t DEF AgentStarts, WorkerStarts, Queued, QueueTypeOK
      <4>2. QED BY <1>t, <4>1 DEF Progress, ProgressAt
    <3>5. ProgressAt(h)'
      BY <3>1, <3>2, <3>3, <3>4 DEF ProgressAt
    <3>6. QED BY <1>f, <3>1, <3>3, <3>5
  <2>3. CASE AgentResumes(w)
    <3>1. /\ worker[w] \in Jobs
          /\ agent' = [agent EXCEPT ![worker[w]] = "none"]
          /\ UNCHANGED <<minted, creating, linked, row>>
      BY <2>3 DEF AgentResumes, WorkerResumes, history
    <3>2. agent'[worker[w]] = "none" /\ \A j \in Jobs \ {worker[w]} : agent'[j] = agent[j]
      BY <1>t, <3>1 DEF AgentTypeOK
    <3>3. agent[worker[w]] = "recorded" => row'[worker[w]] \notin ActiveRow
      BY <1>t, <3>1 DEF Progress, ProgressAt
    <3>4. \A j \in Jobs : j = worker[w] => ProgressAt(j)'
      BY <1>k, <3>1, <3>2, <3>3
    <3>5. ASSUME NEW j \in Jobs, j # worker[w] PROVE ProgressAt(j)'
      <4>1. agent[j] = "recorded" => row'[j] \notin ActiveRow
        BY <1>t, <3>1 DEF Progress, ProgressAt
      <4>2. QED BY <1>k, <3>1, <3>2, <3>5, <4>1
    <3>6. QED BY <3>4, <3>5 DEF Progress
  <2>4. QED BY <1>3, <2>1, <2>2, <2>3 DEF AgentWorker
<1>4. ASSUME NEW k \in Jobs, AgentHandler(k) PROVE Progress'
  <2>i. ProgressAt(k)
    BY <1>t DEF Progress
  <2>1. CASE MarksRunning(k) \/ GivesUp(k) \/ Completes(k) \/ AgentRaises(k) \/ RecordsFailure(k)
    <3>1. /\ agent[k] \in {"loading", "working", "failing"}
          /\ UNCHANGED queueVars /\ UNCHANGED <<creating, linked>>
          /\ \A j \in Jobs \ {k} : row'[j] = row[j] /\ agent'[j] = agent[j]
          /\ \/ agent'[k] \in {"working", "failing"} /\ row'[k] \in {row[k], "running"}
             \/ agent'[k] = "recorded" /\ row'[k] \in {"completed", "failed"}
      BY <1>t, <2>1 DEF MarksRunning, GivesUp, Completes, AgentRaises, RecordsFailure, RowBecomes,
         AgentTypeOK
    <3>2. Queued(k)' <=> Queued(k)
      BY <3>1 DEF Queued, queueVars
    <3>3. ProgressAt(k)'
      BY <2>i, <3>1, <3>2 DEF ProgressAt, queueVars
    <3>4. QED BY <1>f, <3>1, <3>3 DEF queueVars
  <2>2. CASE ReportsOutcome(k)
    BY <1>u, <2>2 DEF ReportsOutcome, HandlerReports, agentVars, history
  <2>e. ASSUME NEW outcome, Ends(k, outcome)
        PROVE  /\ minted' = minted
               /\ \A j \in Jobs : agent'[j] = "ended" \/ agent'[j] = agent[j]
    BY <1>t, <2>e DEF Ends, HandlerEnds, AgentTypeOK, history
  <2>n. ASSUME UNCHANGED <<minted, creating, linked, row>>,
               \A j \in Jobs : agent'[j] \in {"ended", "cleanup", agent[j]}
        PROVE  Progress'
    <3>1. SUFFICES ASSUME NEW j \in Jobs PROVE ProgressAt(j)'
      BY DEF Progress
    <3>2. agent[j] = "recorded" => row'[j] \notin ActiveRow
      BY <1>t, <2>n DEF Progress, ProgressAt
    <3>3. QED BY <1>k, <2>n, <3>2
  <2>3. CASE AgentReturns(k) \/ BranchFails(k)
    BY <2>3, <2>e, <2>n DEF AgentReturns, BranchFails
  <2>4. CASE CleansUp(k)
    BY <1>g, <2>4, <2>e DEF CleansUp
  <2>5. CASE Interrupted(k)
    <3>1. CASE Ends(k, "cancelled")
      <4>1. UNCHANGED <<creating, linked, row>>
        BY <2>5, <3>1 DEF Interrupted
      <4>2. QED BY <2>e, <2>n, <3>1, <4>1
    <3>2. CASE ~Ends(k, "cancelled")
      <4>1. /\ UNCHANGED <<minted, creating, linked, row>>
            /\ agent' = [agent EXCEPT ![k] = "cleanup"]
        BY <2>5, <3>2 DEF Interrupted, queueVars
      <4>2. \A j \in Jobs : agent'[j] \in {"ended", "cleanup", agent[j]}
        BY <1>t, <4>1 DEF AgentTypeOK
      <4>3. QED BY <2>n, <4>1, <4>2
    <3>3. QED BY <3>1, <3>2
  <2>6. QED BY <1>4, <2>1, <2>2, <2>3, <2>4, <2>5 DEF AgentHandler
<1>5. CASE Clock /\ UNCHANGED agentVars
  BY <1>5, <1>u DEF Clock, JobAges, Cleanup, agentVars, history
<1>6. CASE StopAgents
  BY <1>6, <1>u DEF StopAgents, StopWorkers, history
<1>7. CASE Reboot
  <2>1. SUFFICES ASSUME NEW j \in Jobs PROVE ProgressAt(j)'
    BY DEF Progress
  <2>2. /\ UNCHANGED <<minted, linked>>
        /\ creating'[j] = "idle" /\ agent'[j] = "none"
        /\ row'[j] \in {row[j], "failed"}
    BY <1>7, <1>t DEF Reboot, Restart, recover_stuck_agent_tasks, history, AgentTypeOK
  <2>3. agent[j] = "recorded" => row'[j] \notin ActiveRow
    BY <1>t, <2>2 DEF Progress, ProgressAt
  <2>4. QED BY <1>k, <2>2, <2>3
<1>8. CASE UNCHANGED vars
  BY <1>8, <1>u DEF vars, agentVars, queueVars
<1>9. QED BY <1>1, <1>2, <1>3, <1>4, <1>5, <1>6, <1>7, <1>8 DEF AgentNext

\* The row of a job that says COMPLETED is never written again: who could write it
\* has not reported yet, was refused, or looks first.
LEMMA CompletedRowStays ==
  ASSUME AgentIInv, [AgentNext]_vars, NEW j \in Jobs, store[j] = "completed"
  PROVE  row'[j] = "completed"
<1>t. AgentTypeOK /\ row[j] = "completed" /\ ProgressAt(j)
  BY DEF AgentIInv, CompletedJobHasCompletedRow, Progress
<1>a. /\ agent[j] \notin {"loading", "working", "failing"}
      /\ creating[j] # "refused"
  BY <1>t DEF ProgressAt
<1>u. row' = row => row'[j] = "completed"
  BY <1>t
<1>m. ASSUME NEW k \in Jobs, mark_failed_if_active(k) PROVE row'[j] = "completed"
  BY <1>m, <1>t DEF mark_failed_if_active, ActiveRow, AgentTypeOK
<1>o. ASSUME NEW k \in Jobs, k # j, NEW status, RowBecomes(k, status) PROVE row'[j] = "completed"
  BY <1>o, <1>t DEF RowBecomes, AgentTypeOK
<1>1. ASSUME NEW k \in Jobs, InsertsRow(k) \/ CreationEnds(k) \/ RequestDies(k)
      PROVE  row'[j] = "completed"
  BY <1>1, <1>a, <1>o, <1>t, <1>u DEF InsertsRow, CreationEnds, RequestDies, CreatesJob,
     EnqueueFails, RefusalRecorded, LinksJob
<1>2. ASSUME NEW k \in Jobs, CancelReads(k) \/ CancelEnds(k) \/ CancelDies(k) \/ BareCancel(k)
      PROVE  row'[j] = "completed"
  BY <1>2, <1>m, <1>u DEF CancelReads, CancelEnds, CancelDies, CancelSignals, CancelMarks, BareCancel
<1>3. ASSUME NEW w \in Workers, AgentWorker(w) PROVE row'[j] = "completed"
  BY <1>3, <1>u DEF AgentWorker, AgentSkips, AgentStarts, AgentResumes, agentVars
<1>4. ASSUME NEW k \in Jobs, AgentHandler(k) PROVE row'[j] = "completed"
  <2>1. CASE MarksRunning(k) \/ GivesUp(k) \/ Completes(k) \/ AgentRaises(k) \/ RecordsFailure(k)
    BY <1>a, <1>o, <1>u, <2>1 DEF MarksRunning, GivesUp, Completes, AgentRaises, RecordsFailure
  <2>2. CASE ReportsOutcome(k) \/ AgentReturns(k) \/ CleansUp(k) \/ BranchFails(k) \/ Interrupted(k)
    BY <1>m, <1>u, <2>2 DEF ReportsOutcome, AgentReturns, CleansUp, BranchFails, Interrupted,
       agentVars
  <2>3. QED BY <1>4, <2>1, <2>2 DEF AgentHandler
<1>5. CASE (Clock /\ UNCHANGED agentVars) \/ StopAgents \/ UNCHANGED vars
  BY <1>5, <1>u DEF StopAgents, agentVars, vars
<1>6. CASE Reboot
  BY <1>6, <1>t DEF Reboot, recover_stuck_agent_tasks, ActiveRow
<1>7. QED BY <1>1, <1>2, <1>3, <1>4, <1>5, <1>6 DEF AgentNext

\* The inductive invariant holds.
THEOREM AgentIInvAlways == AgentSafety => []AgentIInv
<1>1. AgentInit => AgentIInv
  <2>1. AgentInit => IInv
    BY InitIInv DEF AgentInit
  <2>2. AgentInit => AgentTypeOK
    BY <2>1 DEF AgentInit, AgentTypeOK, IInv
  <2>3. AgentInit => InStep /\ Progress /\ CompletedJobHasCompletedRow
    BY DEF AgentInit, QueueInit, InStep, InStepAt, Progress, ProgressAt, Ended, Queued,
           CompletedJobHasCompletedRow
  <2>4. QED BY <2>1, <2>2, <2>3 DEF AgentIInv
<1>2. AgentIInv /\ [AgentNext]_vars => AgentIInv'
  <2> SUFFICES ASSUME AgentIInv, [AgentNext]_vars PROVE AgentIInv'
    OBVIOUS
  <2>1. IInv'
    BY QueueStep, StepIInv DEF AgentIInv
  <2>2. CompletedJobHasCompletedRow'
    <3>1. SUFFICES ASSUME NEW j \in Jobs, store'[j] = "completed" PROVE row'[j] = "completed"
      BY DEF CompletedJobHasCompletedRow
    <3>2. store[j] = "completed" \/ (row[j] = "completed" /\ ReportsOutcome(j))
      BY <3>1, QueueMoves
    <3>3. QED BY <3>2, CompletedRowStays DEF ReportsOutcome, agentVars
  <2>3. QED BY <2>1, <2>2, AgentTypeStep, StepInStep, StepProgress DEF AgentIInv
<1>3. QED BY <1>1, <1>2, PTL DEF AgentSafety

\* Every variable of the agent tasks keeps its type.
THEOREM AgentTypeCorrect == AgentSafety => []AgentTypeOK
BY AgentIInvAlways, PTL DEF AgentIInv

\* Whatever the requests, the handlers and the boot sweep do to the queue, the
\* queue's specification allows: all that is proved of it is true of the agents.
THEOREM AgentsAreQueueJobs == AgentSafety => QueueSafety /\ ImplementsQueue
<1>1. AgentInit => QueueInit
  BY DEF AgentInit
<1>2. AgentIInv /\ [AgentNext]_vars => [QueueNext]_queueVars
  BY QueueStep
<1>3. QED BY <1>1, <1>2, AgentIInvAlways, PTL DEF AgentSafety, QueueSafety, ImplementsQueue

\* A client that reads COMPLETED for a job finds the task's row COMPLETED.
THEOREM CompletedMeansCompleted == AgentSafety => []CompletedJobHasCompletedRow
BY AgentIInvAlways, PTL DEF AgentIInv

-----------------------------------------------------------------------------
\* Why a linked row is attended.  While nobody is cancelling the task, the active
\* row of a job that entered the queue has it waiting there, not cancelled, or
\* has a handler that has not ended and that nobody has told to.
LookedAfterAt(j) ==
    row[j] \in ActiveRow /\ cancel[j] = "idle" =>
        /\ j \notin pending
        /\ task[j] \notin Ended
        /\ Queued(j) => store[j] # "cancelled"
        /\ j \in linked \/ creating[j] = "queued" => Queued(j) \/ task[j] # "none"

LookedAfter == accepting => \A j \in Jobs : LookedAfterAt(j)

\* Where every commit the code relies on succeeds and jobs are cancelled through
\* their tasks only; without either, TLC finds rows that nobody attends.
Dependable == DbMayFail = FALSE /\ BareCancels = {}

\* The row and the request of a task that is active and not being cancelled after
\* a step: it was so before, or has just been inserted or marked RUNNING.
LEMMA ActiveBefore ==
  ASSUME AgentIInv, [AgentNext]_vars, ~Reboot, Dependable,
         NEW j \in Jobs, row'[j] \in ActiveRow, cancel'[j] = "idle"
  PROVE  \/ row[j] \in ActiveRow /\ cancel[j] = "idle"
         \/ InsertsRow(j)
         \/ MarksRunning(j)
<1> USE DEF ActiveRow
<1>t. AgentTypeOK
  BY DEF AgentIInv
<1>m. ASSUME NEW k \in Jobs, mark_failed_if_active(k)
      PROVE  k # j /\ row'[j] = row[j]
  BY <1>m, <1>t DEF mark_failed_if_active, AgentTypeOK
<1>f. ASSUME NEW k \in Jobs, NEW status \in {"completed", "failed"}, RowBecomes(k, status)
      PROVE  row'[j] = row[j]
  BY <1>f, <1>t DEF RowBecomes, AgentTypeOK
<1>b. ASSUME NEW k \in Jobs, k # j, NEW status, RowBecomes(k, status)
      PROVE  row'[j] = row[j]
  BY <1>b, <1>t DEF RowBecomes, AgentTypeOK
<1>1. ASSUME NEW k \in Jobs, InsertsRow(k) \/ CreationEnds(k) \/ RequestDies(k), ~InsertsRow(j)
      PROVE  row'[j] = row[j] /\ cancel' = cancel
  BY <1>1, <1>b, <1>f DEF InsertsRow, CreationEnds, RequestDies, CreatesJob, EnqueueFails,
     RefusalRecorded, LinksJob
<1>2. ASSUME NEW k \in Jobs, CancelReads(k) \/ CancelEnds(k) \/ CancelDies(k) \/ BareCancel(k)
      PROVE  row'[j] = row[j] /\ cancel[j] = "idle"
  <2>1. CASE CancelReads(k)
    BY <1>t, <2>1 DEF CancelReads, AgentTypeOK
  <2>2. CASE CancelSignals(k)
    BY <1>t, <2>2 DEF CancelSignals, AgentTypeOK
  <2>3. CASE CancelMarks(k)
    <3>1. k # j /\ row'[j] = row[j] /\ cancel' = [cancel EXCEPT ![k] = "idle"]
      BY <1>m, <2>3 DEF CancelMarks
    <3>2. QED BY <1>t, <3>1 DEF AgentTypeOK
  <2>4. CASE CancelDies(k) \/ BareCancel(k)
    BY <2>4 DEF CancelDies, BareCancel, Dependable
  <2>5. QED BY <1>2, <2>1, <2>2, <2>3, <2>4 DEF CancelEnds
<1>3. ASSUME NEW w \in Workers, AgentWorker(w) PROVE row' = row /\ cancel' = cancel
  BY <1>3 DEF AgentWorker, AgentSkips, AgentStarts, AgentResumes, agentVars
<1>4. ASSUME NEW k \in Jobs, AgentHandler(k), ~MarksRunning(j)
      PROVE  row'[j] = row[j] /\ cancel' = cancel
  <2>1. CASE MarksRunning(k) \/ GivesUp(k) \/ Completes(k) \/ AgentRaises(k) \/ RecordsFailure(k)
    BY <1>4, <1>b, <1>f, <2>1 DEF MarksRunning, GivesUp, Completes, AgentRaises, RecordsFailure
  <2>2. CASE ReportsOutcome(k) \/ AgentReturns(k) \/ CleansUp(k) \/ BranchFails(k) \/ Interrupted(k)
    BY <1>m, <2>2 DEF ReportsOutcome, AgentReturns, CleansUp, BranchFails, Interrupted, agentVars
  <2>3. QED BY <1>4, <2>1, <2>2 DEF AgentHandler
<1>5. CASE (Clock /\ UNCHANGED agentVars) \/ StopAgents \/ UNCHANGED vars
  BY <1>5 DEF StopAgents, agentVars, vars
<1>6. QED BY <1>1, <1>2, <1>3, <1>4, <1>5 DEF AgentNext

\* An entry of the queue, once a task is linked or about to be: it was so before,
\* or the job enters the queue in this step.
LEMMA LinkedBefore ==
  ASSUME AgentIInv, [AgentNext]_vars,
         NEW j \in Jobs, j \in linked' \/ creating'[j] = "queued"
  PROVE  j \in linked \/ creating[j] = "queued" \/ CreatesJob(j)
<1>t. AgentTypeOK
  BY DEF AgentIInv
<1>1. ASSUME NEW k \in Jobs, InsertsRow(k) \/ CreationEnds(k) \/ RequestDies(k)
      PROVE  j \in linked \/ creating[j] = "queued" \/ CreatesJob(j)
  BY <1>1, <1>t DEF InsertsRow, CreationEnds, RequestDies, CreatesJob, EnqueueFails,
     RefusalRecorded, LinksJob, AgentTypeOK
<1>2. ASSUME NEW k \in Jobs, CancelReads(k) \/ CancelEnds(k) \/ CancelDies(k) \/ BareCancel(k)
      PROVE  UNCHANGED <<linked, creating>>
  BY <1>2 DEF CancelReads, CancelEnds, CancelDies, CancelSignals, CancelMarks, BareCancel
<1>3. ASSUME NEW w \in Workers, AgentWorker(w) PROVE UNCHANGED <<linked, creating>>
  BY <1>3 DEF AgentWorker, AgentSkips, AgentStarts, AgentResumes, agentVars
<1>4. ASSUME NEW k \in Jobs, AgentHandler(k) PROVE UNCHANGED <<linked, creating>>
  BY <1>4 DEF AgentHandler, MarksRunning, GivesUp, Completes, AgentRaises, RecordsFailure,
     ReportsOutcome, AgentReturns, CleansUp, BranchFails, Interrupted, agentVars
<1>5. CASE (Clock /\ UNCHANGED agentVars) \/ StopAgents \/ UNCHANGED vars
  BY <1>5 DEF StopAgents, agentVars, vars
<1>6. CASE Reboot
  BY <1>6 DEF Reboot
<1>7. QED BY <1>1, <1>2, <1>3, <1>4, <1>5, <1>6 DEF AgentNext

\* A handler that ends while its row is active has been cancelled.
LEMMA EndsUncancelled ==
  ASSUME AgentIInv, [AgentNext]_vars, Dependable, NEW j \in Jobs, j \notin pending,
         agent[j] # "ended", agent'[j] = "ended"
  PROVE  row'[j] \notin ActiveRow
<1>t. AgentTypeOK /\ ProgressAt(j)
  BY DEF AgentIInv, Progress
<1>1. ASSUME NEW k \in Jobs, InsertsRow(k) \/ CreationEnds(k) \/ RequestDies(k)
      PROVE  agent' = agent
  BY <1>1 DEF InsertsRow, CreationEnds, RequestDies, CreatesJob, EnqueueFails, RefusalRecorded,
     LinksJob
<1>2. ASSUME NEW k \in Jobs, CancelReads(k) \/ CancelEnds(k) \/ CancelDies(k) \/ BareCancel(k)
      PROVE  agent' = agent
  BY <1>2 DEF CancelReads, CancelEnds, CancelDies, CancelSignals, CancelMarks, BareCancel
<1>3. ASSUME NEW w \in Workers, AgentWorker(w) PROVE agent'[j] # "ended"
  BY <1>3, <1>t DEF AgentWorker, AgentSkips, AgentStarts, AgentResumes, agentVars, AgentTypeOK
<1>4. ASSUME NEW k \in Jobs, AgentHandler(k) PROVE row'[j] \notin ActiveRow
  <2>1. CASE MarksRunning(k) \/ GivesUp(k) \/ Completes(k) \/ AgentRaises(k) \/ RecordsFailure(k)
             \/ ReportsOutcome(k)
    BY <1>t, <2>1 DEF MarksRunning, GivesUp, Completes, AgentRaises, RecordsFailure,
       ReportsOutcome, agentVars, AgentTypeOK
  <2>2. CASE AgentReturns(k)
    <3>1. k = j /\ agent[j] = "recorded" /\ row' = row
      BY <1>t, <2>2 DEF AgentReturns, Ends, AgentTypeOK
    <3>2. QED BY <1>t, <3>1 DEF ProgressAt
  <2>3. CASE CleansUp(k)
    <3>1. k = j
      BY <1>t, <2>3 DEF CleansUp, Ends, AgentTypeOK
    <3>2. QED BY <1>t, <2>3, <3>1 DEF CleansUp, mark_failed_if_active, ActiveRow, AgentTypeOK
  <2>4. CASE BranchFails(k)
    BY <2>4 DEF BranchFails, Dependable
  <2>5. CASE Interrupted(k)
    <3>1. k # j
      BY <2>5 DEF Interrupted
    <3>2. QED BY <1>t, <2>5, <3>1 DEF Interrupted, Ends, AgentTypeOK
  <2>6. QED BY <1>4, <2>1, <2>2, <2>3, <2>4, <2>5 DEF AgentHandler
<1>5. CASE (Clock /\ UNCHANGED agentVars) \/ StopAgents \/ UNCHANGED vars
  BY <1>5 DEF StopAgents, agentVars, vars
<1>6. CASE Reboot
  BY <1>6 DEF Reboot
<1>7. QED BY <1>1, <1>2, <1>3, <1>4, <1>5, <1>6 DEF AgentNext

\* Who still has a CancelledError to come: who had, and who is being cancelled.
LEMMA PendingBefore ==
  ASSUME AgentIInv, [AgentNext]_vars, Dependable, ~StopAgents,
         NEW j \in Jobs, j \in pending', cancel'[j] = "idle"
  PROVE  j \in pending
<1>t. AgentTypeOK
  BY DEF AgentIInv
<1>1. ASSUME NEW k \in Jobs, InsertsRow(k) \/ CreationEnds(k) \/ RequestDies(k)
      PROVE  pending' = pending
  BY <1>1 DEF InsertsRow, CreationEnds, RequestDies, CreatesJob, EnqueueFails, RefusalRecorded,
     LinksJob
<1>2. ASSUME NEW k \in Jobs, CancelReads(k) \/ CancelEnds(k) \/ CancelDies(k) \/ BareCancel(k)
      PROVE  j \in pending
  BY <1>2, <1>t DEF CancelReads, CancelEnds, CancelDies, CancelSignals, CancelMarks, BareCancel,
     Signals, Dependable, AgentTypeOK
<1>3. ASSUME NEW w \in Workers, AgentWorker(w) PROVE pending' = pending
  BY <1>3 DEF AgentWorker, AgentSkips, AgentStarts, AgentResumes, agentVars
<1>4. ASSUME NEW k \in Jobs, AgentHandler(k) PROVE pending' \subseteq pending
  BY <1>4 DEF AgentHandler, MarksRunning, GivesUp, Completes, AgentRaises, RecordsFailure,
     ReportsOutcome, AgentReturns, CleansUp, BranchFails, Interrupted, agentVars
<1>5. CASE (Clock /\ UNCHANGED agentVars) \/ UNCHANGED vars
  BY <1>5 DEF agentVars, vars
<1>6. CASE Reboot
  BY <1>6 DEF Reboot
<1>7. QED BY <1>1, <1>2, <1>3, <1>4, <1>5, <1>6 DEF AgentNext

\* Every step keeps the linked rows looked after.
LEMMA StepLookedAfter ==
  ASSUME AgentIInv, AgentIInv', [AgentNext]_vars, Dependable, LookedAfter
  PROVE  LookedAfter'
<1>t. AgentTypeOK /\ QueueTypeOK /\ IInv /\ IInv' /\ InStep /\ InStep' /\ Progress
  BY DEF AgentIInv, AgentTypeOK
<1>1. SUFFICES ASSUME accepting', NEW j \in Jobs, row'[j] \in ActiveRow, cancel'[j] = "idle"
               PROVE  LookedAfterAt(j)'
  BY DEF LookedAfter, LookedAfterAt
<1>2. ~Reboot
  BY <1>1, <1>t DEF Reboot, recover_stuck_agent_tasks, Dependable, ActiveRow
<1>3. ~StopAgents
  BY <1>1 DEF StopAgents, StopWorkers
<1>4. \/ Moves
      \/ \E k \in Jobs \ {j} : CancelJob(k)
  <2>1. ASSUME NEW k \in Jobs, CancelSignals(k) \/ BareCancel(k) PROVE k # j
    BY <1>1, <1>t, <2>1 DEF CancelSignals, BareCancel, Dependable, AgentTypeOK
  <2>2. QED BY <1>2, <2>1, QueueMoves DEF Cancels
<1>5. accepting
  <2> USE <1>1 DEF history, poolVars, storeVars
  <2>1. ASSUME NEW k \in Jobs, CreateJob(k) \/ CreateJobQueueFull(k) \/ CancelJob(k) PROVE accepting
    BY <2>1 DEF CreateJob, CreateJobQueueFull, CancelJob
  <2>2. CASE Clock
    BY <2>2 DEF Clock, JobAges, Cleanup
  <2>3. ASSUME NEW w \in Workers, Worker(w) PROVE accepting
    BY <2>3 DEF Worker, WorkerSkips, WorkerStarts, WorkerResumes
  <2>4. ASSUME NEW k \in Jobs, Handler(k) PROVE accepting
    BY <2>4 DEF Handler, HandlerReports, HandlerReturns, HandlerRaises, HandlerAborts,
       CleanupRaises, HandlerEnds
  <2>5. CASE StopWorkers \/ UNCHANGED queueVars
    BY <2>5 DEF StopWorkers, queueVars
  <2>6. QED BY <1>4, <2>1, <2>2, <2>3, <2>4, <2>5 DEF Moves
<1>i. InStepAt(j) /\ InStepAt(j)' /\ ProgressAt(j)
  BY <1>t DEF InStep, Progress
<1>r. task[j] # "none" => j \in ran
  BY <1>t DEF IInv, OneOwner
<1>6. CASE row[j] \in ActiveRow /\ cancel[j] = "idle"
  <2>1. /\ j \notin pending
        /\ task[j] \notin Ended
        /\ Queued(j) => store[j] # "cancelled"
        /\ j \in linked \/ creating[j] = "queued" => Queued(j) \/ task[j] # "none"
    BY <1>5, <1>6 DEF LookedAfter, LookedAfterAt
  <2>2. j \notin pending'
    BY <1>1, <1>3, <2>1, PendingBefore
  <2>3. task'[j] \notin Ended
    BY <1>1, <1>i, <2>1, EndsUncancelled DEF InStepAt
  <2>4. Queued(j)' => store'[j] # "cancelled"
    BY <1>4, <1>t, <2>1, WaitingIsCancelledByCallers
  <2>5. ASSUME j \in linked' \/ creating'[j] = "queued" PROVE Queued(j)' \/ task'[j] # "none"
    <3>1. CASE CreatesJob(j)
      <4>1. /\ DOMAIN queue' = 1..(Len(queue) + 1) /\ Len(queue) \in Nat
            /\ queue'[Len(queue) + 1] = j
        BY <1>t, <3>1 DEF CreatesJob, CreateJob, QueueTypeOK
      <4>2. QED BY <4>1 DEF Queued
    <3>2. CASE Queued(j)
      BY <1>4, <1>t, <2>1, <3>2, StaysInQueue
    <3>3. CASE task[j] # "none"
      BY <1>4, <1>t, <2>1, <3>3, TaskStays
    <3>4. QED BY <2>1, <2>5, <3>1, <3>2, <3>3, LinkedBefore
  <2>6. QED BY <2>2, <2>3, <2>4, <2>5 DEF LookedAfterAt
<1>7. CASE InsertsRow(j)
  <2>1. /\ row[j] = "none" /\ creating'[j] = "inserted"
        /\ UNCHANGED <<task, queue, store, linked, pending>>
    BY <1>7, <1>t DEF InsertsRow, AgentTypeOK, queueVars
  <2>2. j \notin minted /\ j \notin linked
    BY <1>i, <2>1 DEF ProgressAt
  <2>3. task[j] = "none" /\ ~Queued(j)
    BY <1>r, <1>t, <2>2 DEF IInv, OneOwner, Bookkeeping, Queued
  <2>4. ~Queued(j)'
    BY <2>1, <2>3 DEF Queued
  <2>5. QED BY <1>i, <2>1, <2>2, <2>3, <2>4 DEF LookedAfterAt, InStepAt, Ended
<1>8. CASE MarksRunning(j)
  <2>1. /\ agent[j] = "loading" /\ j \notin pending
        /\ UNCHANGED <<task, queue, store, pending>>
    BY <1>8 DEF MarksRunning, queueVars
  <2>2. task[j] # "none" /\ task[j] \notin Ended
    BY <1>i, <2>1 DEF InStepAt
  <2>3. ~Queued(j)
    BY <1>r, <1>t, <2>2 DEF IInv, OneOwner, Queued
  <2>4. ~Queued(j)'
    BY <2>1, <2>3 DEF Queued
  <2>5. QED BY <2>1, <2>2, <2>4 DEF LookedAfterAt
<1>9. QED BY <1>1, <1>2, <1>6, <1>7, <1>8, ActiveBefore

\* Where commits succeed and jobs are cancelled through their tasks, no active row
\* that has its job is abandoned while the queue accepts jobs.
THEOREM LinkedRowsAreAttended ==
  ASSUME Dependable
  PROVE  AgentSafety => []LinkedRowIsAttended
<1>1. AgentInit => LookedAfter
  BY DEF AgentInit, LookedAfter, LookedAfterAt, ActiveRow
<1>2. AgentIInv /\ AgentIInv' /\ LookedAfter /\ [AgentNext]_vars => LookedAfter'
  BY StepLookedAfter
<1>3. AgentIInv /\ LookedAfter => LinkedRowIsAttended
  <2> SUFFICES ASSUME AgentIInv, LookedAfter, accepting, NEW j \in linked, row[j] \in ActiveRow
               PROVE  Attended(j)
    BY DEF LinkedRowIsAttended
  <2>1. j \in Jobs
    BY DEF AgentIInv, AgentTypeOK
  <2>2. cancel[j] = "idle" => Queued(j) \/ task[j] # "none"
    BY <2>1 DEF LookedAfter, LookedAfterAt
  <2>3. QED BY <2>2 DEF Attended
<1>4. QED BY <1>1, <1>2, <1>3, AgentIInvAlways, PTL DEF AgentSafety
===============================================================================
