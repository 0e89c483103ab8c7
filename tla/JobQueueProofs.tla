--------------------------- MODULE JobQueueProofs ---------------------------
(* Proofs that the job queue's invariants hold for any jobs, workers and    *)
(* queue limit.                                                            *)
EXTENDS JobQueue, TLAPS

\* What OneOwner needs to be inductive: only minted jobs run or are cancelled,
\* an unminted job has no entry, and nothing interrupts a worker while the
\* queue accepts jobs.
Bookkeeping ==
    /\ ran \subseteq minted
    /\ acked \subseteq minted
    /\ \A j \in Jobs \ minted : store[j] = "absent"
    /\ accepting => \A w \in Workers : interrupt[w] = "none"
    /\ \A j \in Jobs : task[j] = "returned" => store[j] \notin Active

IInv == QueueTypeOK /\ OneOwner /\ Bookkeeping

\* Every step of the queue keeps the types.
LEMMA QueueTypeStep ==
  ASSUME QueueTypeOK, [QueueNext]_queueVars
  PROVE  QueueTypeOK'
<1> USE QueueAssumption DEF QueueTypeOK, Active, Terminal, Live, Ended, Updated
<1>1. CASE \E j \in Jobs : CreateJob(j) \/ CreateJobQueueFull(j) \/ CancelJob(j)
  BY <1>1 DEF CreateJob, CreateJobQueueFull, CancelJob, StoreEntry, poolVars
<1>2. CASE Clock
  BY <1>2 DEF Clock, JobAges, Cleanup, Stale, poolVars, history
<1>3. ASSUME NEW w \in Workers, Worker(w) PROVE QueueTypeOK'
  <2>1. CASE WorkerSkips(w)
    BY <2>1 DEF WorkerSkips, storeVars, history
  <2>2. CASE WorkerStarts(w)
    BY <2>2 DEF WorkerStarts
  <2>3. CASE WorkerResumes(w)
    BY <2>3 DEF WorkerResumes, Outcome, history
  <2>4. QED BY <1>3, <2>1, <2>2, <2>3 DEF Worker
<1>4. ASSUME NEW j \in Jobs, Handler(j) PROVE QueueTypeOK'
  BY <1>4 DEF Handler, HandlerReports, HandlerReturns, HandlerRaises, HandlerAborts,
              CleanupRaises, HandlerEnds, poolVars, storeVars, history
<1>5. CASE StopWorkers
  BY <1>5 DEF StopWorkers, storeVars, history
<1>6. CASE UNCHANGED queueVars
  BY <1>6 DEF queueVars
<1>7. CASE Restart
  BY <1>7 DEF Restart, FreshPool, history
<1>8. QED BY <1>1, <1>2, <1>3, <1>4, <1>5, <1>6, <1>7 DEF QueueNext, Callers

\* Every variable of the queue keeps its type: job states are JobState's, and
\* workers hold jobs, nothing, or have stopped.
THEOREM TypeCorrect == QueueSafety => []QueueTypeOK
<1>1. QueueInit => QueueTypeOK
  BY QueueAssumption DEF QueueInit, QueueTypeOK
<1>2. QED BY <1>1, QueueTypeStep, PTL DEF QueueSafety

\* The step of OneOwner and Bookkeeping, action by action.
LEMMA CallersKeepIInv ==
  ASSUME IInv, NEW j \in Jobs, CreateJob(j) \/ CreateJobQueueFull(j) \/ CancelJob(j)
  PROVE  (OneOwner /\ Bookkeeping)'
<1> USE QueueAssumption DEF IInv, QueueTypeOK, OneOwner, Bookkeeping, Active, Terminal,
                            Live, Ended
<1>1. CASE CreateJob(j)
  <2> DEFINE n == Len(queue)
  <2>1. /\ n \in Nat
        /\ DOMAIN queue = 1..n
        /\ DOMAIN queue' = 1..(n + 1)
        /\ \A i \in 1..n : queue'[i] = queue[i]
        /\ queue'[n + 1] = j
    BY <1>1 DEF CreateJob
  <2>2. /\ store' = [store EXCEPT ![j] = "queued"]
        /\ minted' = minted \cup {j}
        /\ j \notin minted
        /\ UNCHANGED <<worker, interrupt, task, accepting, ran, acked>>
    BY <1>1 DEF CreateJob, StoreEntry
  <2>3. j \notin ran /\ \A i \in 1..n : queue[i] # j
    BY <2>1, <2>2
  <2>4. \A i, k \in DOMAIN queue' : queue'[i] = queue'[k] => i = k
    BY <2>1, <2>3
  <2>5. \A i \in DOMAIN queue' : queue'[i] \in minted' \ ran'
    BY <2>1, <2>2, <2>3
  <2>6. \A k \in Jobs : task'[k] = "returned" => store'[k] \notin Active
    <3>1. task[j] # "returned"
      BY <2>2, <2>3
    <3>2. QED BY <2>2, <3>1
  <2>7. QED BY <2>2, <2>4, <2>5, <2>6
<1>2. CASE CreateJobQueueFull(j)
  <2>1. /\ store' = [store EXCEPT ![j] = "queued"]
        /\ minted' = minted \cup {j}
        /\ j \notin minted
        /\ UNCHANGED <<queue, worker, interrupt, task, accepting, ran, acked>>
    BY <1>2 DEF CreateJobQueueFull, StoreEntry, poolVars
  <2>2. task[j] # "returned"
    BY <2>1
  <2>3. QED BY <2>1, <2>2
<1>3. CASE CancelJob(j)
  <2>1. j \in minted /\ acked' = acked \cup {j}
        /\ UNCHANGED <<queue, worker, interrupt, accepting, minted, ran>>
    BY <1>3 DEF CancelJob
  <2>2. CASE task[j] \in Live
    <3>1. task' = [task EXCEPT ![j] = "cancelling"] /\ store' = store
      BY <1>3, <2>2 DEF CancelJob
    <3>2. QED BY <2>1, <2>2, <3>1
  <2>3. CASE task[j] \notin Live
    <3>1. store' = [store EXCEPT ![j] = "cancelled"] /\ task' = task
      BY <1>3, <2>3 DEF CancelJob
    <3>2. QED BY <2>1, <3>1
  <2>4. QED BY <2>2, <2>3
<1>4. QED BY <1>1, <1>2, <1>3

\* Taking the head off the queue keeps the rest of it: distinct, not yet run.
LEMMA TakeHead ==
  ASSUME QueueTypeOK, OneOwner, queue # <<>>, queue' = Tail(queue)
  PROVE  /\ Head(queue) \in Jobs
         /\ Head(queue) \in minted \ ran
         /\ \A i, k \in DOMAIN queue' : queue'[i] = queue'[k] => i = k
         /\ \A i \in DOMAIN queue' : queue'[i] \in minted \ ran /\ queue'[i] # Head(queue)
<1> DEFINE n == Len(queue)
<1>1. /\ n \in Nat \ {0}
      /\ DOMAIN queue = 1..n
      /\ DOMAIN queue' = 1..(n - 1)
      /\ Head(queue) = queue[1]
      /\ \A i \in 1..(n - 1) : queue'[i] = queue[i + 1]
  BY DEF QueueTypeOK
<1>2. \A i \in 1..(n - 1) : i + 1 \in 1..n /\ i + 1 # 1
  BY <1>1
<1>3. 1 \in DOMAIN queue /\ queue[1] \in Jobs /\ queue[1] \in minted \ ran
  BY <1>1 DEF QueueTypeOK, OneOwner
<1>4. \A i, k \in 1..n : queue[i] = queue[k] => i = k
  BY <1>1 DEF OneOwner
<1>5. \A i \in 1..n : queue[i] \in minted \ ran
  BY <1>1 DEF OneOwner
<1> HIDE DEF n
<1>6. \A i, k \in 1..(n - 1) : queue'[i] = queue'[k] => i = k
  <2> SUFFICES ASSUME NEW i \in 1..(n - 1), NEW k \in 1..(n - 1), queue'[i] = queue'[k]
               PROVE  i = k
    OBVIOUS
  <2>1. i + 1 = k + 1
    BY <1>1, <1>2, <1>4
  <2>2. QED BY <1>1, <2>1
<1>7. \A i \in 1..(n - 1) : queue'[i] \in minted \ ran /\ queue'[i] # queue[1]
  <2> SUFFICES ASSUME NEW i \in 1..(n - 1)
               PROVE  queue'[i] \in minted \ ran /\ queue'[i] # queue[1]
    OBVIOUS
  <2>1. i + 1 \in 1..n /\ queue'[i] = queue[i + 1]
    BY <1>1, <1>2
  <2>2. queue[i + 1] # queue[1]
    BY <1>1, <1>2, <1>4
  <2>3. QED BY <1>5, <2>1, <2>2
<1>8. QED BY <1>1, <1>3, <1>6, <1>7

\* The worker's three moves: skip a cancelled head, start it, resume after its handler.
LEMMA WorkersKeepIInv ==
  ASSUME IInv, NEW w \in Workers, Worker(w)
  PROVE  (OneOwner /\ Bookkeeping)'
<1> USE QueueAssumption DEF IInv, QueueTypeOK, Active, Terminal, Live, Ended, Updated
<1>1. CASE WorkerSkips(w)
  <2>1. queue # <<>> /\ queue' = Tail(queue)
        /\ UNCHANGED <<store, worker, interrupt, task, accepting, minted, ran, acked>>
    BY <1>1 DEF WorkerSkips, storeVars, history
  <2>2. QED BY <2>1, TakeHead DEF OneOwner, Bookkeeping
<1>2. CASE WorkerStarts(w)
  <2> DEFINE j == Head(queue)
  <2>1. /\ worker[w] = NoJob
        /\ queue # <<>> /\ queue' = Tail(queue)
        /\ store' = Updated(j, "running")
        /\ task' = [task EXCEPT ![j] = "running"]
        /\ worker' = [worker EXCEPT ![w] = j]
        /\ ran' = ran \cup {j}
        /\ UNCHANGED <<interrupt, accepting, minted, acked>>
    BY <1>2 DEF WorkerStarts
  <2>2. /\ j \in Jobs
        /\ j \in minted \ ran
        /\ \A i, k \in DOMAIN queue' : queue'[i] = queue'[k] => i = k
        /\ \A i \in DOMAIN queue' : queue'[i] \in minted \ ran /\ queue'[i] # j
    BY <2>1, TakeHead
  <2>3. \A v \in Workers : worker[v] # j
    BY <2>2 DEF OneOwner
  <2>4. OneOwner'
    <3>1. \A i \in DOMAIN queue' : queue'[i] \in minted' \ ran'
      BY <2>1, <2>2
    <3>2. \A v, u \in Workers : worker'[v] = worker'[u] /\ worker'[v] \in Jobs => v = u
      BY <2>1, <2>2, <2>3 DEF OneOwner
    <3>3. \A v \in Workers : worker'[v] \in Jobs => task'[worker'[v]] # "none"
      BY <2>1, <2>2 DEF OneOwner
    <3>4. \A k \in Jobs : task'[k] # "none" => k \in ran' /\ \E v \in Workers : worker'[v] = k
      BY <2>1, <2>2 DEF OneOwner
    <3>5. QED BY <2>2, <3>1, <3>2, <3>3, <3>4 DEF OneOwner
  <2>5. Bookkeeping'
    BY <2>1, <2>2 DEF Bookkeeping
  <2>6. QED BY <2>4, <2>5
<1>3. CASE WorkerResumes(w)
  <2> DEFINE j == worker[w]
  <2>1. /\ j \in Jobs /\ task[j] \in Ended
        /\ task' = [task EXCEPT ![j] = "none"]
        /\ worker' \in {[worker EXCEPT ![w] = "stopped"], [worker EXCEPT ![w] = NoJob]}
        /\ store' \in {store, Updated(j, "failed"), Updated(j, "cancelled")}
        /\ UNCHANGED <<queue, interrupt, accepting, minted, ran, acked>>
    BY <1>3 DEF WorkerResumes, Outcome, history
  <2>2. \A v \in Workers : worker'[v] \in Jobs => v # w /\ worker'[v] = worker[v] /\ worker[v] # j
    BY <2>1 DEF OneOwner
  <2>3. OneOwner'
    <3>1. \A v, u \in Workers : worker'[v] = worker'[u] /\ worker'[v] \in Jobs => v = u
      BY <2>2 DEF OneOwner
    <3>2. \A v \in Workers : worker'[v] \in Jobs => task'[worker'[v]] # "none"
      BY <2>1, <2>2 DEF OneOwner
    <3>3. \A k \in Jobs : task'[k] # "none" => k \in ran' /\ \E v \in Workers : worker'[v] = k
      BY <2>1 DEF OneOwner
    <3>4. QED BY <2>1, <3>1, <3>2, <3>3 DEF OneOwner
  <2>4. Bookkeeping'
    BY <2>1 DEF Bookkeeping
  <2>5. QED BY <2>3, <2>4
<1>4. QED BY <1>1, <1>2, <1>3 DEF Worker

\* A handler's report and its end move neither the queue nor the workers.
LEMMA HandlersKeepIInv ==
  ASSUME IInv, NEW j \in Jobs, Handler(j)
  PROVE  (OneOwner /\ Bookkeeping)'
<1> USE DEF IInv, QueueTypeOK, OneOwner, Bookkeeping, Active, Terminal, Live, Ended, Updated
<1>1. ASSUME NEW state \in {"completed", "failed"}, HandlerReports(j, state)
      PROVE  (OneOwner /\ Bookkeeping)'
  BY <1>1 DEF HandlerReports, poolVars, history
<1>2. ASSUME NEW from \in Live, NEW outcome \in Ended, HandlerEnds(j, from, outcome),
             outcome = "returned" => store[j] \notin Active
      PROVE  (OneOwner /\ Bookkeeping)'
  BY <1>2 DEF HandlerEnds, storeVars, history
<1>3. QED BY <1>1, <1>2 DEF Handler, HandlerReturns, HandlerRaises, HandlerAborts, CleanupRaises

\* IInv holds initially.
LEMMA InitIInv == QueueInit => IInv
BY QueueAssumption DEF QueueInit, IInv, QueueTypeOK, OneOwner, Bookkeeping, Active, Terminal,
                       Live, Ended

\* IInv is inductive: every step of the queue keeps it.
LEMMA StepIInv ==
  ASSUME IInv, [QueueNext]_queueVars
  PROVE  IInv'
<1>0. SUFFICES (OneOwner /\ Bookkeeping)'
  BY QueueTypeStep DEF IInv
<1>1. CASE Callers
  BY <1>1, CallersKeepIInv DEF Callers
<1>2. CASE Clock
  <2>1. /\ UNCHANGED <<queue, worker, interrupt, task, accepting, minted, ran, acked>>
        /\ \A j \in Jobs : store'[j] \in {store[j], "absent"}
    BY <1>2 DEF Clock, JobAges, Cleanup, Stale, poolVars, history, IInv, QueueTypeOK
  <2>2. QED BY <2>1 DEF IInv, OneOwner, Bookkeeping, Active
<1>3. ASSUME NEW w \in Workers, Worker(w) PROVE (OneOwner /\ Bookkeeping)'
  BY <1>3, WorkersKeepIInv
<1>4. ASSUME NEW j \in Jobs, Handler(j) PROVE (OneOwner /\ Bookkeeping)'
  BY <1>4, HandlersKeepIInv
<1>5. CASE StopWorkers
  <2>1. /\ ~accepting'
        /\ UNCHANGED <<queue, store, minted, ran, acked>>
        /\ \A w \in Workers : worker'[w] = IF worker[w] = NoJob THEN "stopped" ELSE worker[w]
        /\ \A j \in Jobs : task'[j] = IF task[j] \in Live THEN "cancelling" ELSE task[j]
    BY <1>5 DEF StopWorkers, storeVars, history, IInv, QueueTypeOK
  <2>2. QED BY <2>1, QueueAssumption DEF IInv, QueueTypeOK, OneOwner, Bookkeeping, Live
<1>6. CASE UNCHANGED queueVars
  BY <1>6 DEF queueVars, IInv, OneOwner, Bookkeeping
<1>7. CASE Restart
  BY <1>7, QueueAssumption DEF Restart, FreshPool, history, IInv, OneOwner, Bookkeeping, Active
<1>8. QED BY <1>1, <1>2, <1>3, <1>4, <1>5, <1>6, <1>7 DEF QueueNext

\* IInv is an invariant: what the theorems below rest on.
THEOREM IInvHolds == QueueSafety => []IInv
BY InitIInv, StepIInv, PTL DEF QueueSafety

\* A job is in one place only, for any number of jobs and workers and any queue
\* limit: queued once, or run by the one worker that awaits its handler.
THEOREM OneOwnerHolds == QueueSafety => []OneOwner
BY IInvHolds, PTL DEF IInv

\* No job is ever handed to a handler twice.
THEOREM RunsOnce == QueueSafety => RunsAtMostOnce
<1>1. IInv /\ [QueueNext]_queueVars
        => [\A j \in ran : task[j] = "none" => task'[j] = "none"]_queueVars
  <2> SUFFICES ASSUME IInv, QueueNext, NEW j \in ran, task[j] = "none"
               PROVE  task'[j] = "none"
    BY DEF IInv
  <2> USE DEF IInv, QueueTypeOK
  <2>1. CASE Callers
    BY <2>1 DEF Callers, CreateJob, CreateJobQueueFull, CancelJob, Live, poolVars
  <2>2. CASE Clock
    BY <2>2 DEF Clock, JobAges, Cleanup, poolVars
  <2>3. ASSUME NEW w \in Workers, Worker(w) PROVE task'[j] = "none"
    <3>1. CASE WorkerStarts(w)
      <4>1. queue # <<>> /\ task' = [task EXCEPT ![Head(queue)] = "running"]
        BY <3>1 DEF WorkerStarts
      <4>2. Head(queue) = queue[1] /\ 1 \in DOMAIN queue
        BY <4>1
      <4>3. Head(queue) \notin ran
        BY <4>2 DEF OneOwner
      <4>4. QED BY <4>1, <4>3
    <3>2. CASE WorkerSkips(w) \/ WorkerResumes(w)
      BY <3>2 DEF WorkerSkips, WorkerResumes
    <3>3. QED BY <2>3, <3>1, <3>2 DEF Worker
  <2>4. ASSUME NEW k \in Jobs, Handler(k) PROVE task'[j] = "none"
    BY <2>4 DEF Handler, HandlerReports, HandlerReturns, HandlerRaises, HandlerAborts,
                CleanupRaises, HandlerEnds, poolVars
  <2>5. CASE StopWorkers
    BY <2>5 DEF StopWorkers, Live
  <2>6. CASE Restart
    BY <2>6 DEF Restart, FreshPool, Bookkeeping
  <2>7. QED BY <2>1, <2>2, <2>3, <2>4, <2>5, <2>6 DEF QueueNext
<1>2. QED BY <1>1, IInvHolds, PTL DEF QueueSafety, RunsAtMostOnce

\* A cancelled job that was never started has been dropped or says CANCELLED, and
\* one that is started all the same has no entry left to write COMPLETED into.
CancelInv ==
    /\ CancelledNeverCompletes
    /\ \A j \in acked \ ran : store[j] \in {"cancelled", "absent"}
    /\ \A j \in acked : task[j] = "running" => store[j] = "absent"

\* After a successful cancel_job no reader sees COMPLETED for the job, for any
\* number of jobs and workers.
THEOREM CancelWins == QueueSafety => []CancelledNeverCompletes
<1>1. QueueInit => CancelInv
  BY DEF QueueInit, CancelInv, CancelledNeverCompletes
<1>2. IInv /\ IInv' /\ CancelInv /\ [QueueNext]_queueVars => CancelInv'
  <2> SUFFICES ASSUME IInv, IInv', CancelInv, [QueueNext]_queueVars
               PROVE  CancelInv'
    OBVIOUS
  <2> USE DEF IInv, QueueTypeOK, Bookkeeping, CancelInv, CancelledNeverCompletes, Updated,
              Active, Terminal, Live, Ended
  <2>1. ASSUME NEW j \in Jobs, CreateJob(j) \/ CreateJobQueueFull(j)
        PROVE  CancelInv'
    BY <2>1 DEF CreateJob, CreateJobQueueFull, StoreEntry, poolVars
  <2>2. ASSUME NEW j \in Jobs, CancelJob(j)
        PROVE  CancelInv'
    <3>1. CASE task[j] \in Live
      <4>1. j \in ran
        BY <3>1 DEF OneOwner
      <4>2. QED BY <2>2, <3>1, <4>1 DEF CancelJob
    <3>2. CASE task[j] \notin Live
      BY <2>2, <3>2 DEF CancelJob
    <3>3. QED BY <3>1, <3>2
  <2>3. CASE Clock
    BY <2>3 DEF Clock, JobAges, Cleanup, Stale, poolVars, history
  <2>4. ASSUME NEW w \in Workers, Worker(w) PROVE CancelInv'
    <3>1. CASE WorkerSkips(w)
      BY <3>1 DEF WorkerSkips, storeVars, history
    <3>2. CASE WorkerStarts(w)
      <4> DEFINE j == Head(queue)
      <4>1. /\ store[j] # "cancelled"
            /\ store' = Updated(j, "running")
            /\ task' = [task EXCEPT ![j] = "running"]
            /\ ran' = ran \cup {j} /\ acked' = acked
            /\ queue # <<>>
        BY <3>2 DEF WorkerStarts
      <4>2. j \in Jobs /\ j \notin ran
        BY <4>1, TakeHead, <3>2 DEF WorkerStarts
      <4>3. QED BY <4>1, <4>2
    <3>3. CASE WorkerResumes(w)
      <4>1. /\ task' = [task EXCEPT ![worker[w]] = "none"]
            /\ store' \in {store, Updated(worker[w], "failed"), Updated(worker[w], "cancelled")}
            /\ worker[w] \in Jobs /\ worker[w] \in ran
            /\ UNCHANGED <<ran, acked>>
        BY <3>3 DEF WorkerResumes, Outcome, history, OneOwner
      <4>2. QED BY <4>1
    <3>4. QED BY <2>4, <3>1, <3>2, <3>3 DEF Worker
  <2>5. ASSUME NEW j \in Jobs, Handler(j) PROVE CancelInv'
    <3>1. ASSUME NEW state \in {"completed", "failed"}, HandlerReports(j, state)
          PROVE  CancelInv'
      <4>1. j \in ran
        BY <3>1 DEF HandlerReports, OneOwner
      <4>2. QED BY <3>1, <4>1 DEF HandlerReports, poolVars, history
    <3>2. ASSUME NEW from \in Live, NEW outcome \in Ended, HandlerEnds(j, from, outcome)
          PROVE  CancelInv'
      BY <3>2 DEF HandlerEnds, storeVars, history
    <3>3. QED BY <2>5, <3>1, <3>2 DEF Handler, HandlerReturns, HandlerRaises, HandlerAborts,
                                      CleanupRaises
  <2>6. CASE StopWorkers
    BY <2>6 DEF StopWorkers, storeVars, history
  <2>7. CASE UNCHANGED queueVars
    BY <2>7 DEF queueVars
  <2>8. CASE Restart
    BY <2>8 DEF Restart, FreshPool, history
  <2>9. QED BY <2>1, <2>2, <2>3, <2>4, <2>5, <2>6, <2>7, <2>8 DEF QueueNext, Callers
<1>3. CancelInv => CancelledNeverCompletes
  BY DEF CancelInv
<1>4. QED BY <1>1, <1>2, <1>3, IInvHolds, PTL DEF QueueSafety

\* While the queue accepts jobs, an entry in RUNNING is held by a worker, for any
\* number of jobs and workers.
THEOREM RunningIsAlwaysHeld == QueueSafety => []RunningIsHeld
<1>1. QueueInit => RunningIsHeld
  BY DEF QueueInit, RunningIsHeld
<1>2. IInv /\ RunningIsHeld /\ [QueueNext]_queueVars => RunningIsHeld'
  <2> SUFFICES ASSUME IInv, RunningIsHeld, [QueueNext]_queueVars, accepting',
                      NEW k \in Jobs, store'[k] = "running"
               PROVE  \E v \in Workers : worker'[v] = k
    BY DEF RunningIsHeld
  <2> USE DEF IInv, QueueTypeOK, Bookkeeping, RunningIsHeld, Updated, Active, Terminal,
              Live, Ended
  <2>0. SUFFICES ASSUME store[k] # "running" \/ worker' # worker \/ ~accepting
                 PROVE  \E v \in Workers : worker'[v] = k
    OBVIOUS
  <2>1. CASE Callers
    <3>1. worker' = worker /\ accepting' = accepting
      BY <2>1 DEF Callers, CreateJob, CreateJobQueueFull, CancelJob, poolVars
    <3>2. PICK j \in Jobs : CreateJob(j) \/ CreateJobQueueFull(j) \/ CancelJob(j)
      BY <2>1 DEF Callers
    <3>3. store' \in {store, [store EXCEPT ![j] = "queued"], [store EXCEPT ![j] = "cancelled"]}
      BY <3>2 DEF CreateJob, CreateJobQueueFull, CancelJob, StoreEntry
    <3>4. store[k] = "running"
      BY <3>3
    <3>5. QED BY <2>0, <3>1, <3>4
  <2>2. CASE Clock
    <3>1. worker' = worker /\ accepting' = accepting
      BY <2>2 DEF Clock, JobAges, Cleanup, poolVars
    <3>2. store[k] = "running"
      BY <2>2 DEF Clock, JobAges, Cleanup
    <3>3. QED BY <2>0, <3>1, <3>2
  <2>3. ASSUME NEW w \in Workers, Worker(w) PROVE \E v \in Workers : worker'[v] = k
    <3>1. CASE WorkerSkips(w)
      BY <3>1 DEF WorkerSkips, storeVars, history
    <3>2. CASE WorkerStarts(w)
      <4>1. /\ worker[w] = NoJob
            /\ store' = Updated(Head(queue), "running")
            /\ worker' = [worker EXCEPT ![w] = Head(queue)]
            /\ accepting' = accepting
        BY <3>2 DEF WorkerStarts
      <4>2. CASE k = Head(queue)
        BY <4>1, <4>2
      <4>3. CASE k # Head(queue)
        BY <4>1, <4>3, QueueAssumption
      <4>4. QED BY <4>2, <4>3
    <3>3. CASE WorkerResumes(w)
      <4> DEFINE j == worker[w]
      <4>1. j \in Jobs /\ task[j] \in Ended /\ accepting /\ interrupt[w] = "none"
        BY <3>3 DEF WorkerResumes
      <4>2. worker' = [worker EXCEPT ![w] = NoJob] /\ store' = Outcome(j)
        BY <3>3, <4>1 DEF WorkerResumes, WorkerStops
      <4>3. /\ task[j] = "raised" => Outcome(j) = Updated(j, "failed")
            /\ task[j] = "cancelled" => Outcome(j) = Updated(j, "cancelled")
            /\ task[j] = "returned" => Outcome(j) = store
        BY DEF Outcome
      <4>4. k # j /\ store[k] = "running"
        BY <4>1, <4>2, <4>3
      <4>5. QED BY <4>1, <4>2, <4>4
    <3>4. QED BY <2>3, <3>1, <3>2, <3>3 DEF Worker
  <2>4. ASSUME NEW j \in Jobs, Handler(j) PROVE \E v \in Workers : worker'[v] = k
    <3>1. worker' = worker /\ accepting' = accepting
      BY <2>4 DEF Handler, HandlerReports, HandlerReturns, HandlerRaises, HandlerAborts,
                  CleanupRaises, HandlerEnds, poolVars
    <3>2. store[k] = "running"
      BY <2>4 DEF Handler, HandlerReports, HandlerReturns, HandlerRaises, HandlerAborts,
                  CleanupRaises, HandlerEnds, storeVars
    <3>3. QED BY <2>0, <3>1, <3>2
  <2>5. CASE StopWorkers
    BY <2>5 DEF StopWorkers
  <2>6. CASE UNCHANGED queueVars
    BY <2>6 DEF queueVars
  <2>7. CASE Restart
    BY <2>7 DEF Restart, FreshPool
  <2>8. QED BY <2>1, <2>2, <2>3, <2>4, <2>5, <2>6, <2>7 DEF QueueNext
<1>3. QED BY <1>1, <1>2, IInvHolds, PTL DEF QueueSafety

\* Once every worker has stopped, no handler still runs: every handler's task is
\* awaited by a worker, and a worker that awaits one has not stopped.
THEOREM NoHandlerIsLeftBehind == QueueSafety => []NoHandlerOutlivesPool
<1>1. IInv => NoHandlerOutlivesPool
  <2> SUFFICES ASSUME OneOwner, \A w \in Workers : worker[w] = "stopped",
                      NEW j \in Jobs, task[j] # "none"
               PROVE  FALSE
    BY DEF IInv, NoHandlerOutlivesPool
  <2>1. PICK w \in Workers : worker[w] = j
    BY DEF OneOwner
  <2>2. QED BY <2>1, QueueAssumption
<1>2. QED BY <1>1, IInvHolds, PTL

-----------------------------------------------------------------------------
(* What the programs that run on the queue need to know of one of its steps. *)

\* Starting a job: it was waiting, nobody had started it and it has no task yet.
LEMMA StartsFresh ==
  ASSUME IInv, NEW w \in Workers, WorkerStarts(w)
  PROVE  /\ Head(queue) \in Jobs
         /\ Head(queue) \in minted \ ran
         /\ task[Head(queue)] = "none"
<1>1. queue # <<>> /\ queue' = Tail(queue)
  BY DEF WorkerStarts
<1>2. Head(queue) \in Jobs /\ Head(queue) \in minted \ ran
  BY <1>1, TakeHead DEF IInv
<1>3. QED BY <1>2 DEF IInv, OneOwner

\* What has happened is not forgotten.
LEMMA HistoryGrows ==
  ASSUME [QueueNext]_queueVars
  PROVE  minted \subseteq minted' /\ ran \subseteq ran'
<1> USE DEF history, poolVars, storeVars
<1>1. CASE Callers
  BY <1>1 DEF Callers, CreateJob, CreateJobQueueFull, CancelJob, StoreEntry
<1>2. CASE Clock
  BY <1>2 DEF Clock, JobAges, Cleanup
<1>3. ASSUME NEW w \in Workers, Worker(w) PROVE minted \subseteq minted' /\ ran \subseteq ran'
  BY <1>3 DEF Worker, WorkerSkips, WorkerStarts, WorkerResumes
<1>4. ASSUME NEW j \in Jobs, Handler(j) PROVE minted \subseteq minted' /\ ran \subseteq ran'
  BY <1>4 DEF Handler, HandlerReports, HandlerReturns, HandlerRaises, HandlerAborts,
              CleanupRaises, HandlerEnds
<1>5. CASE StopWorkers
  BY <1>5 DEF StopWorkers
<1>6. CASE Restart
  BY <1>6 DEF Restart, FreshPool
<1>7. QED BY <1>1, <1>2, <1>3, <1>4, <1>5, <1>6 DEF QueueNext, queueVars

\* The entry of a job that has a task never becomes active again.
LEMMA SettledStays ==
  ASSUME IInv, [QueueNext]_queueVars, NEW j \in Jobs, task[j] # "none", store[j] \notin Active
  PROVE  store'[j] \notin Active
<1> USE DEF IInv, QueueTypeOK, Active, Terminal, Updated, history, poolVars, storeVars
<1>0. j \in ran /\ j \in minted
  BY DEF OneOwner, Bookkeeping
<1>1. ASSUME NEW k \in Jobs, CreateJob(k) \/ CreateJobQueueFull(k) \/ CancelJob(k)
      PROVE  store'[j] \notin Active
  BY <1>0, <1>1 DEF CreateJob, CreateJobQueueFull, CancelJob, StoreEntry
<1>2. CASE Clock
  BY <1>2 DEF Clock, JobAges, Cleanup
<1>3. ASSUME NEW w \in Workers, Worker(w) PROVE store'[j] \notin Active
  <2>1. CASE WorkerSkips(w)
    BY <2>1 DEF WorkerSkips
  <2>2. CASE WorkerStarts(w)
    <3>1. Head(queue) # j /\ store' = Updated(Head(queue), "running")
      BY <1>0, <2>2, StartsFresh DEF WorkerStarts
    <3>2. QED BY <3>1
  <2>3. CASE WorkerResumes(w)
    BY <2>3 DEF WorkerResumes, Outcome
  <2>4. QED BY <1>3, <2>1, <2>2, <2>3 DEF Worker
<1>4. ASSUME NEW k \in Jobs, Handler(k) PROVE store'[j] \notin Active
  BY <1>4 DEF Handler, HandlerReports, HandlerReturns, HandlerRaises, HandlerAborts,
              CleanupRaises, HandlerEnds
<1>5. CASE StopWorkers
  BY <1>5 DEF StopWorkers
<1>6. CASE Restart
  BY <1>6 DEF Restart, FreshPool
<1>7. QED BY <1>1, <1>2, <1>3, <1>4, <1>5, <1>6 DEF QueueNext, queueVars, Callers

\* Of a queue that loses its head, the other jobs stay in it.
LEMMA TailKeepsRest ==
  ASSUME QueueTypeOK, queue # <<>>, queue' = Tail(queue), NEW j
  PROVE  /\ Queued(j) => Head(queue) = j \/ Queued(j)'
         /\ Queued(j)' => Queued(j)
<1> DEFINE n == Len(queue)
<1>1. /\ n \in Nat \ {0}
      /\ DOMAIN queue = 1..n
      /\ DOMAIN queue' = 1..(n - 1)
      /\ Head(queue) = queue[1]
      /\ \A i \in 1..(n - 1) : queue'[i] = queue[i + 1]
  BY DEF QueueTypeOK
<1>2. ASSUME NEW i \in DOMAIN queue, queue[i] = j PROVE Head(queue) = j \/ Queued(j)'
  <2>1. CASE i = 1
    BY <1>1, <1>2, <2>1
  <2>2. CASE i # 1
    <3>1. i - 1 \in 1..(n - 1) /\ (i - 1) + 1 = i
      BY <1>1, <2>2
    <3>2. queue'[i - 1] = j /\ i - 1 \in DOMAIN queue'
      BY <1>1, <1>2, <3>1
    <3>3. QED BY <3>2 DEF Queued
  <2>3. QED BY <2>1, <2>2
<1>3. ASSUME NEW i \in DOMAIN queue', queue'[i] = j PROVE Queued(j)
  <2>1. i + 1 \in DOMAIN queue /\ queue[i + 1] = j
    BY <1>1, <1>3
  <2>2. QED BY <2>1 DEF Queued
<1>4. QED BY <1>2, <1>3 DEF Queued

\* An entry in QUEUED that a worker would find in the queue.
Findable(j) == j \in minted /\ store[j] = "queued" => Queued(j)

\* A job that entered the queue can be found there for as long as its entry says
\* QUEUED: only an id that is minted in this very step may miss the queue.
LEMMA StaysFindable ==
  ASSUME IInv, [QueueNext]_queueVars, NEW j \in minted, Findable(j)
  PROVE  Findable(j)'
<1> USE DEF IInv, QueueTypeOK, Updated, history, poolVars, storeVars
<1>0. SUFFICES ASSUME store'[j] = "queued" PROVE Queued(j)'
  BY DEF Findable
<1>w. j \in Jobs /\ (store[j] = "queued" => \E i \in DOMAIN queue : queue[i] = j)
  BY DEF Findable, Queued, Bookkeeping
<1>a. ASSUME store[j] = "queued", queue' = queue PROVE Queued(j)'
  BY <1>a, <1>w DEF Queued
<1>1. ASSUME NEW k \in Jobs, CreateJob(k) PROVE Queued(j)'
  <2>1. store[j] = "queued" /\ queue' = Append(queue, k)
    BY <1>w, <1>0, <1>1 DEF CreateJob, StoreEntry
  <2>2. PICK i \in DOMAIN queue : queue[i] = j
    BY <1>w, <2>1
  <2>3. i \in DOMAIN queue' /\ queue'[i] = j
    BY <2>1, <2>2
  <2>4. QED BY <2>3 DEF Queued
<1>2. ASSUME NEW k \in Jobs, CreateJobQueueFull(k) \/ CancelJob(k) PROVE Queued(j)'
  BY <1>0, <1>a, <1>2, <1>w DEF CreateJobQueueFull, CancelJob, StoreEntry
<1>3. CASE Clock
  BY <1>0, <1>a, <1>3, <1>w DEF Clock, JobAges, Cleanup
<1>4. ASSUME NEW w \in Workers, Worker(w) PROVE Queued(j)'
  <2>1. ASSUME queue # <<>>, queue' = Tail(queue), Head(queue) # j, store[j] = "queued"
        PROVE  Queued(j)'
    BY <2>1, TailKeepsRest DEF Findable
  <2>2. CASE WorkerSkips(w)
    <3>1. store' = store /\ queue # <<>> /\ queue' = Tail(queue) /\ store[Head(queue)] = "cancelled"
      BY <2>2 DEF WorkerSkips
    <3>2. QED BY <1>0, <2>1, <3>1
  <2>3. CASE WorkerStarts(w)
    <3>1. queue # <<>> /\ queue' = Tail(queue) /\ store' = Updated(Head(queue), "running")
          /\ Head(queue) \in Jobs
      BY <2>3, StartsFresh DEF WorkerStarts
    <3>2. Head(queue) # j /\ store[j] = "queued"
      BY <1>0, <1>w, <3>1
    <3>3. QED BY <2>1, <3>1, <3>2
  <2>4. CASE WorkerResumes(w)
    <3>1. queue' = queue /\ store[j] = "queued"
      BY <1>0, <1>w, <2>4 DEF WorkerResumes, Outcome
    <3>2. QED BY <1>a, <3>1
  <2>5. QED BY <1>4, <2>2, <2>3, <2>4 DEF Worker
<1>5. ASSUME NEW k \in Jobs, Handler(k) PROVE Queued(j)'
  BY <1>0, <1>a, <1>5, <1>w DEF Handler, HandlerReports, HandlerReturns, HandlerRaises,
     HandlerAborts, CleanupRaises, HandlerEnds
<1>6. CASE StopWorkers
  BY <1>0, <1>a, <1>6 DEF StopWorkers
<1>7. CASE Restart
  BY <1>0, <1>w, <1>7 DEF Restart, FreshPool
<1>8. CASE UNCHANGED queueVars
  BY <1>0, <1>a, <1>8 DEF queueVars
<1>9. QED BY <1>1, <1>2, <1>3, <1>4, <1>5, <1>6, <1>7, <1>8 DEF QueueNext, Callers

\* A job that is not in the queue enters it only in the step that mints it, and
\* nothing runs that was not in the queue.
LEMMA StaysOutOfQueue ==
  ASSUME IInv, [QueueNext]_queueVars, NEW j \in Jobs, ~Queued(j), j \in minted' => j \in minted
  PROVE  ~Queued(j)' /\ (j \notin ran => j \notin ran')
<1> USE DEF IInv, history, poolVars, storeVars
<1>a. queue' = queue => ~Queued(j)'
  BY DEF Queued
<1>1. ASSUME NEW k \in Jobs, CreateJob(k) PROVE ~Queued(j)' /\ ran' = ran
  <2>1. k # j /\ queue' = Append(queue, k) /\ ran' = ran
    BY <1>1 DEF CreateJob, StoreEntry
  <2>2. /\ DOMAIN queue' = 1..(Len(queue) + 1) /\ DOMAIN queue = 1..Len(queue)
        /\ Len(queue) \in Nat
        /\ queue'[Len(queue) + 1] = k
        /\ \A i \in 1..Len(queue) : queue'[i] = queue[i]
    BY <2>1 DEF QueueTypeOK
  <2>3. QED BY <2>1, <2>2 DEF Queued
<1>2. ASSUME NEW k \in Jobs, CreateJobQueueFull(k) \/ CancelJob(k) PROVE ~Queued(j)' /\ ran' = ran
  BY <1>2, <1>a DEF CreateJobQueueFull, CancelJob, StoreEntry
<1>3. CASE Clock
  BY <1>3, <1>a DEF Clock, JobAges, Cleanup
<1>4. ASSUME NEW w \in Workers, Worker(w) PROVE ~Queued(j)' /\ (j \notin ran => j \notin ran')
  <2>1. CASE WorkerSkips(w)
    BY <2>1, TailKeepsRest DEF WorkerSkips
  <2>2. CASE WorkerStarts(w)
    <3>1. queue # <<>> /\ queue' = Tail(queue) /\ ran' = ran \cup {Head(queue)}
      BY <2>2 DEF WorkerStarts
    <3>2. Head(queue) = queue[1] /\ 1 \in DOMAIN queue
      BY <3>1 DEF QueueTypeOK
    <3>3. Head(queue) # j
      BY <3>2 DEF Queued
    <3>4. QED BY <3>1, <3>3, TailKeepsRest
  <2>3. CASE WorkerResumes(w)
    BY <1>a, <2>3 DEF WorkerResumes
  <2>4. QED BY <1>4, <2>1, <2>2, <2>3 DEF Worker
<1>5. ASSUME NEW k \in Jobs, Handler(k) PROVE ~Queued(j)' /\ ran' = ran
  BY <1>5, <1>a DEF Handler, HandlerReports, HandlerReturns, HandlerRaises, HandlerAborts,
     CleanupRaises, HandlerEnds
<1>6. CASE StopWorkers
  BY <1>6, <1>a DEF StopWorkers
<1>7. CASE Restart
  BY <1>7 DEF Restart, FreshPool, Queued
<1>8. CASE UNCHANGED queueVars
  BY <1>8, <1>a DEF queueVars
<1>9. QED BY <1>1, <1>2, <1>3, <1>4, <1>5, <1>6, <1>7, <1>8 DEF QueueNext, Callers

\* A step of the queue other than a cancellation and the process's death.
Moves ==
    \/ \E k \in Jobs : CreateJob(k) \/ CreateJobQueueFull(k)
    \/ Clock \/ StopWorkers \/ UNCHANGED queueVars
    \/ \E w \in Workers : Worker(w)
    \/ \E j \in Jobs : Handler(j)

\* A job that nobody cancelled leaves the queue only by being started, or with
\* the process.
LEMMA StaysInQueue ==
  ASSUME IInv, Moves \/ \E k \in Jobs : CancelJob(k),
         NEW j \in Jobs, Queued(j), store[j] # "cancelled"
  PROVE  Queued(j)' \/ task'[j] = "running"
<1> USE DEF IInv, history, poolVars, storeVars
<1>a. queue' = queue => Queued(j)'
  BY DEF Queued
<1>1. ASSUME NEW k \in Jobs, CreateJob(k) PROVE Queued(j)'
  <2>1. queue' = Append(queue, k)
    BY <1>1 DEF CreateJob
  <2>2. DOMAIN queue \subseteq DOMAIN queue' /\ \A i \in DOMAIN queue : queue'[i] = queue[i]
    BY <2>1 DEF QueueTypeOK
  <2>3. QED BY <2>2 DEF Queued
<1>2. ASSUME NEW k \in Jobs, CreateJobQueueFull(k) \/ CancelJob(k) PROVE Queued(j)'
  BY <1>2, <1>a DEF CreateJobQueueFull, CancelJob, StoreEntry
<1>3. CASE Clock
  BY <1>3, <1>a DEF Clock, JobAges, Cleanup
<1>4. ASSUME NEW w \in Workers, Worker(w) PROVE Queued(j)' \/ task'[j] = "running"
  <2>1. CASE WorkerSkips(w)
    BY <2>1, TailKeepsRest DEF WorkerSkips
  <2>2. CASE WorkerStarts(w)
    <3>1. queue # <<>> /\ queue' = Tail(queue) /\ task' = [task EXCEPT ![Head(queue)] = "running"]
      BY <2>2 DEF WorkerStarts
    <3>2. CASE Head(queue) = j
      BY <3>1, <3>2 DEF QueueTypeOK
    <3>3. CASE Head(queue) # j
      BY <3>1, <3>3, TailKeepsRest
    <3>4. QED BY <3>2, <3>3
  <2>3. CASE WorkerResumes(w)
    BY <1>a, <2>3 DEF WorkerResumes
  <2>4. QED BY <1>4, <2>1, <2>2, <2>3 DEF Worker
<1>5. ASSUME NEW k \in Jobs, Handler(k) PROVE Queued(j)'
  BY <1>5, <1>a DEF Handler, HandlerReports, HandlerReturns, HandlerRaises, HandlerAborts,
     CleanupRaises, HandlerEnds
<1>6. CASE StopWorkers
  BY <1>6, <1>a DEF StopWorkers
<1>7. CASE UNCHANGED queueVars
  BY <1>7, <1>a DEF queueVars
<1>8. QED BY <1>1, <1>2, <1>3, <1>4, <1>5, <1>6, <1>7 DEF Moves

\* A handler's task disappears only after it has ended, or with the process.
LEMMA TaskStays ==
  ASSUME IInv, Moves \/ \E k \in Jobs : CancelJob(k),
         NEW j \in Jobs, task[j] \notin {"none"} \cup Ended
  PROVE  task'[j] # "none"
<1> USE DEF IInv, QueueTypeOK, history, poolVars, storeVars
<1>1. CASE Callers
  BY <1>1 DEF Callers, CreateJob, CreateJobQueueFull, CancelJob
<1>2. CASE Clock
  BY <1>2 DEF Clock, JobAges, Cleanup
<1>3. ASSUME NEW w \in Workers, Worker(w) PROVE task'[j] # "none"
  BY <1>3 DEF Worker, WorkerSkips, WorkerStarts, WorkerResumes
<1>4. ASSUME NEW k \in Jobs, Handler(k) PROVE task'[j] # "none"
  BY <1>4 DEF Handler, HandlerReports, HandlerReturns, HandlerRaises, HandlerAborts,
     CleanupRaises, HandlerEnds
<1>5. CASE StopWorkers
  BY <1>5 DEF StopWorkers
<1>6. QED BY <1>1, <1>2, <1>3, <1>4, <1>5 DEF Moves, queueVars, Callers

\* A job that waits in the queue is CANCELLED by cancel_job only.
LEMMA WaitingIsCancelledByCallers ==
  ASSUME IInv, IInv', NEW j \in Jobs, Moves \/ \E k \in Jobs \ {j} : CancelJob(k),
         Queued(j)', store'[j] = "cancelled"
  PROVE  Queued(j) /\ store[j] = "cancelled"
<1> USE DEF IInv, QueueTypeOK, Updated, history, poolVars, storeVars
<1>q. [QueueNext]_queueVars
  BY DEF Moves, QueueNext, Callers
<1>0. j \in minted' \ ran'
  BY DEF Queued, OneOwner
<1>r. j \notin ran
  BY <1>0, <1>q, HistoryGrows
<1>s. store[j] = "cancelled" => Queued(j)
  <2>1. store[j] = "cancelled" => j \in minted
    BY DEF Bookkeeping
  <2>2. QED BY <1>q, <2>1, StaysOutOfQueue
<1>1. ASSUME NEW k \in Jobs, CreateJob(k) \/ CreateJobQueueFull(k) \/ (CancelJob(k) /\ k # j)
      PROVE  store[j] = "cancelled"
  BY <1>1 DEF CreateJob, CreateJobQueueFull, CancelJob, StoreEntry
<1>2. CASE Clock
  BY <1>2, <1>s DEF Clock, JobAges, Cleanup
<1>3. ASSUME NEW w \in Workers, Worker(w) PROVE store[j] = "cancelled"
  <2>1. CASE WorkerSkips(w)
    BY <2>1 DEF WorkerSkips
  <2>2. CASE WorkerStarts(w)
    BY <2>2, StartsFresh DEF WorkerStarts
  <2>3. CASE WorkerResumes(w)
    <3>1. worker[w] # j
      BY <1>r, <2>3 DEF WorkerResumes, OneOwner, Ended
    <3>2. QED BY <2>3, <3>1 DEF WorkerResumes, Outcome
  <2>4. QED BY <1>3, <2>1, <2>2, <2>3 DEF Worker
<1>4. ASSUME NEW k \in Jobs, Handler(k) PROVE store[j] = "cancelled"
  BY <1>4 DEF Handler, HandlerReports, HandlerReturns, HandlerRaises, HandlerAborts,
     CleanupRaises, HandlerEnds
<1>5. CASE StopWorkers
  BY <1>5, <1>s DEF StopWorkers
<1>6. CASE UNCHANGED queueVars
  BY <1>6, <1>s DEF queueVars
<1>7. QED BY <1>s, <1>1, <1>2, <1>3, <1>4, <1>5, <1>6 DEF Moves

\* Nothing but a handler's report makes a job COMPLETED.
LEMMA OnlyReportsComplete ==
  ASSUME IInv, NEW j \in Jobs, store'[j] = "completed",
         \/ Callers \/ Clock \/ StopWorkers \/ Restart \/ UNCHANGED queueVars
         \/ \E w \in Workers : Worker(w)
         \/ \E k \in Jobs : \E from, outcome : HandlerEnds(k, from, outcome)
  PROVE  store[j] = "completed"
<1> USE DEF IInv, QueueTypeOK, Updated, history, poolVars, storeVars
<1>1. CASE Callers
  BY <1>1 DEF Callers, CreateJob, CreateJobQueueFull, CancelJob, StoreEntry
<1>2. CASE Clock
  BY <1>2 DEF Clock, JobAges, Cleanup
<1>3. ASSUME NEW w \in Workers, Worker(w) PROVE store[j] = "completed"
  <2>1. CASE WorkerSkips(w)
    BY <2>1 DEF WorkerSkips
  <2>2. CASE WorkerStarts(w)
    BY <2>2, StartsFresh DEF WorkerStarts
  <2>3. CASE WorkerResumes(w)
    BY <2>3 DEF WorkerResumes, Outcome
  <2>4. QED BY <1>3, <2>1, <2>2, <2>3 DEF Worker
<1>4. CASE StopWorkers \/ UNCHANGED queueVars
  BY <1>4 DEF StopWorkers, queueVars
<1>5. CASE Restart
  BY <1>5 DEF Restart, FreshPool
<1>6. ASSUME NEW k \in Jobs, NEW from, NEW outcome, HandlerEnds(k, from, outcome)
      PROVE  store[j] = "completed"
  BY <1>6 DEF HandlerEnds
<1>7. QED BY <1>1, <1>2, <1>3, <1>4, <1>5, <1>6
===============================================================================
