-------------------------- MODULE ChatClaimProofs ---------------------------
(* Proofs about the section claims and the chats that run on the job queue,  *)
(* for any jobs, workers, sections and queue limit: the composition is a     *)
(* queue, the locks are never leaked, and a claim that nothing will clear is *)
(* recognised as stale.                                                     *)
EXTENDS ChatClaim, JobQueueProofs

\* Where a handler is, what its task is, and whether its CancelledError is still
\* to be thrown go together.  The last two say that a handler reaches the
\* pointer either cancelled or with its outcome reported.
InStepAt(j) ==
    /\ chat[j] = "none" <=> task[j] = "none"
    /\ chat[j] = "ended" <=> task[j] \in Ended
    /\ j \in pending => task[j] = "cancelling"
    /\ task[j] = "cancelling" /\ j \notin pending => chat[j] \in {"tombstone", "clearing"}
    /\ chat[j] = "tombstone" => task[j] = "cancelling"
    /\ chat[j] = "clearing" /\ task[j] = "running" => store[j] \notin Active

InStep == \A j \in Jobs : InStepAt(j)

\* The job that a section's pointer names, committed or not, is not one that the
\* full queue refused: while it waits, a worker will find it.
Tracked ==
    /\ \A s \in Sections : claim[s] \in Jobs => claim[s] \in minted /\ Findable(claim[s])
    /\ \A j \in Jobs : posting[SectionOf[j]] = j => Findable(j)

ChatIInv == ChatTypeOK /\ IInv /\ InStep /\ LockHasLiveHolder /\ Tracked

\* What a step may do to a handler's task and to where it is, for one job.
Quiet(j) ==
    /\ chat'[j] = chat[j]
    /\ task'[j] = task[j]
    /\ j \in pending' <=> j \in pending

\* A job that a step leaves where it is stays in step: its entry, once settled,
\* does not become active again.
LEMMA QuietStaysInStep ==
  ASSUME ChatIInv, [QueueNext]_queueVars, NEW j \in Jobs, Quiet(j)
  PROVE  InStepAt(j)'
<1>1. InStepAt(j)
  BY DEF ChatIInv, InStep
<1>2. task[j] # "none" /\ store[j] \notin Active => store'[j] \notin Active
  BY SettledStays DEF ChatIInv
<1>3. QED BY <1>1, <1>2 DEF Quiet, InStepAt, Ended

\* A signal reaches a live handler through its task, and sets no settled entry.
LEMMA SignalStaysInStep ==
  ASSUME ChatIInv, NEW k \in Jobs, Signals(k), chat' = chat
  PROVE  InStep'
<1> USE DEF ChatIInv, ChatTypeOK, QueueTypeOK, Live, Ended, Active
<1>0. CancelJob(k)
  BY DEF Signals
<1>q. [QueueNext]_queueVars
  BY <1>0 DEF QueueNext, Callers
<1>1. SUFFICES ASSUME NEW j \in Jobs PROVE InStepAt(j)'
  BY DEF InStep
<1>2. CASE j = k /\ task[k] \in Live
  <2>1. task'[j] = "cancelling" /\ j \in pending' /\ chat'[j] = chat[j]
    BY <1>0, <1>2 DEF Signals, CancelJob
  <2>2. InStepAt(j)
    BY DEF InStep
  <2>3. QED BY <1>2, <2>1, <2>2 DEF InStepAt
<1>3. CASE j # k \/ task[k] \notin Live
  <2>1. Quiet(j)
    BY <1>0, <1>3 DEF Signals, CancelJob, Quiet
  <2>2. QED BY <1>q, <2>1, QuietStaysInStep
<1>4. QED BY <1>2, <1>3

\* The end of a handler that is live and has no CancelledError to come.
LEMMA EndStaysInStep ==
  ASSUME ChatIInv, NEW k \in Jobs, NEW outcome \in Ended, Ends(k, outcome),
         pending' = pending \ {k}, [QueueNext]_queueVars
  PROVE  InStep'
<1> USE DEF ChatIInv, ChatTypeOK, QueueTypeOK, Live, Ended
<1>0. task' = [task EXCEPT ![k] = outcome] /\ chat' = [chat EXCEPT ![k] = "ended"]
  BY DEF Ends, HandlerEnds
<1>1. SUFFICES ASSUME NEW j \in Jobs PROVE InStepAt(j)'
  BY DEF InStep
<1>2. CASE j = k
  BY <1>0, <1>2 DEF InStepAt
<1>3. CASE j # k
  <2>1. Quiet(j)
    BY <1>0, <1>3 DEF Quiet
  <2>2. QED BY <2>1, QuietStaysInStep
<1>4. QED BY <1>2, <1>3

\* Every step of the composition is a step of the queue, or leaves it alone: what
\* the handlers do is what the queue's specification says of handlers.
LEMMA QueueStep ==
  ASSUME ChatIInv, [ChatNext]_vars
  PROVE  [QueueNext]_queueVars
<1>1. ASSUME NEW j \in Jobs, Post(j) PROVE [QueueNext]_queueVars
  BY <1>1 DEF Post, PostClaims, PostEnqueues, PostQueueFull, PostFails, PostCommits,
              PostCommitFails, QueueNext, Callers
<1>2. ASSUME NEW s \in Sections, NEW step \in {"cancel", "active"}, ReadPointer(s, step)
      PROVE  [QueueNext]_queueVars
  BY <1>2 DEF ReadPointer
<1>3. ASSUME NEW s \in Sections, RequestEnds(s) PROVE [QueueNext]_queueVars
  <2>1. CASE CancelChat(s)
    <3>1. request[s].job \in Jobs
      BY <2>1 DEF ChatIInv, ChatTypeOK, CancelChat, Requests, Idle
    <3>2. QED BY <2>1, <3>1 DEF CancelChat, Signals, QueueNext, Callers
  <2>2. CASE CheckActive(s) \/ ClearPointer(s)
    BY <2>2 DEF CheckActive, ClearPointer
  <2>3. QED BY <1>3, <2>1, <2>2 DEF RequestEnds
<1>4. ASSUME NEW j \in Jobs, BareCancel(j) PROVE [QueueNext]_queueVars
  BY <1>4 DEF BareCancel, Signals, QueueNext, Callers
<1>5. ASSUME NEW w \in Workers, ChatWorker(w) PROVE [QueueNext]_queueVars
  BY <1>5 DEF ChatWorker, ChatSkips, ChatStarts, ChatResumes, QueueNext, Worker
<1>6. ASSUME NEW j \in Jobs, ChatHandler(j) PROVE [QueueNext]_queueVars
  <2>0. InStepAt(j) /\ task[j] \in {"none"} \cup Live \cup Ended
    BY DEF ChatIInv, InStep, ChatTypeOK, QueueTypeOK
  <2>1. CASE Marked(j) \/ Acquires(j) \/ LeavesLock(j) \/ TombstoneWritten(j)
    BY <2>1 DEF Marked, Acquires, LeavesLock, TombstoneWritten
  <2>2. ASSUME NEW state \in {"completed", "failed"}, Reports(j, state)
        PROVE  [QueueNext]_queueVars
    BY <2>2 DEF Reports, QueueNext, Handler
  <2>3. CASE ClearsClaim(j)
    <3>1. CASE task[j] = "cancelling"
      <4>1. chat[j] = "clearing"
        BY <2>0, <2>3, <3>1 DEF ClearsClaim, InStepAt
      <4>2. Ends(j, "cancelled")
        BY <2>3, <3>1, <4>1 DEF ClearsClaim
      <4>3. HandlerAborts(j)
        BY <3>1, <4>2 DEF Ends, HandlerAborts
      <4>4. QED BY <4>3 DEF QueueNext, Handler
    <3>2. CASE task[j] # "cancelling" /\ chat[j] = "failing"
      <4>1. task[j] = "running"
        BY <2>0, <3>2 DEF InStepAt, Live
      <4>2. HandlerRaises(j)
        BY <2>3, <3>2, <4>1 DEF ClearsClaim, Ends, HandlerRaises
      <4>3. QED BY <4>2 DEF QueueNext, Handler
    <3>3. CASE task[j] # "cancelling" /\ chat[j] = "clearing"
      <4>1. task[j] = "running" /\ store[j] \notin Active
        BY <2>0, <3>3 DEF InStepAt, Live
      <4>2. HandlerReturns(j)
        BY <2>3, <3>3, <4>1 DEF ClearsClaim, Ends, HandlerReturns
      <4>3. QED BY <4>2 DEF QueueNext, Handler
    <3>4. QED BY <2>3, <3>1, <3>2, <3>3 DEF ClearsClaim
  <2>4. CASE Interrupted(j)
    <3>1. task[j] = "cancelling"
      BY <2>0, <2>4 DEF Interrupted, InStepAt
    <3>2. UNCHANGED queueVars \/ HandlerAborts(j)
      BY <2>4, <3>1 DEF Interrupted, Ends, HandlerAborts
    <3>3. QED BY <3>2 DEF QueueNext, Handler
  <2>5. QED BY <1>6, <2>1, <2>2, <2>3, <2>4 DEF ChatHandler
<1>7. CASE Clock /\ UNCHANGED chatVars
  BY <1>7 DEF QueueNext
<1>8. CASE StopChats
  BY <1>8 DEF StopChats, QueueNext
<1>9. CASE Reboot
  BY <1>9 DEF Reboot, QueueNext
<1>10. CASE UNCHANGED vars
  BY <1>10 DEF vars
<1>11. QED BY <1>1, <1>2, <1>3, <1>4, <1>5, <1>6, <1>7, <1>8, <1>9, <1>10 DEF ChatNext

\* The variables of the composition keep their types.
LEMMA ChatTypeStep ==
  ASSUME ChatIInv, [ChatNext]_vars
  PROVE  ChatTypeOK'
<1> USE ChatAssumption, QueueAssumption DEF Idle, Requests
<1>0. ChatTypeOK /\ QueueTypeOK'
  BY QueueStep, QueueTypeStep DEF ChatIInv, ChatTypeOK
<1>s. \A j \in Jobs : SectionOf[j] \in Sections
  OBVIOUS
<1>1. ASSUME NEW j \in Jobs, Post(j) PROVE ChatTypeOK'
  BY <1>0, <1>1, <1>s DEF ChatTypeOK, Post, PostClaims, PostEnqueues, PostQueueFull, PostFails,
     PostCommits, PostCommitFails, RollBack, chatVars
<1>2. ASSUME NEW s \in Sections, NEW step \in {"cancel", "active"}, ReadPointer(s, step)
      PROVE  ChatTypeOK'
  <2>1. claim[s] \in Jobs
    BY <1>0, <1>2 DEF ChatTypeOK, ReadPointer
  <2>2. [step |-> step, job |-> claim[s]] \in Requests
    BY <2>1
  <2>3. request' \in [Sections -> Requests]
    BY ONLY <1>0, <1>2, <2>2 DEF ChatTypeOK, ReadPointer
  <2>4. QED BY ONLY <1>0, <1>2, <2>3 DEF ChatTypeOK, ReadPointer
<1>3. ASSUME NEW s \in Sections, RequestEnds(s) PROVE ChatTypeOK'
  <2>1. CASE CancelChat(s) \/ CheckActive(s)
    <3>1. request[s].step # "idle"
      BY <2>1 DEF CancelChat, CheckActive
    <3>2. request[s].job \in Jobs
      BY <1>0, <3>1 DEF ChatTypeOK
    <3>3. [step |-> "clear", job |-> request[s].job] \in Requests /\ Idle \in Requests
      BY <3>2
    <3>4. request' \in [Sections -> Requests]
      BY ONLY <1>0, <2>1, <3>3 DEF ChatTypeOK, CancelChat, CheckActive
    <3>5. pending' \subseteq Jobs
      BY ONLY <1>0, <2>1, <3>2 DEF ChatTypeOK, CancelChat, CheckActive, Signals
    <3>6. QED BY ONLY <1>0, <2>1, <3>4, <3>5 DEF ChatTypeOK, CancelChat, CheckActive
  <2>2. CASE ClearPointer(s)
    <3>1. request' \in [Sections -> Requests]
      BY <1>0, <2>2 DEF ChatTypeOK, ClearPointer
    <3>2. QED BY ONLY <1>0, <2>2, <3>1 DEF ChatTypeOK, ClearPointer, Cleared
  <2>3. QED BY <1>3, <2>1, <2>2 DEF RequestEnds
<1>4. ASSUME NEW j \in Jobs, BareCancel(j) PROVE ChatTypeOK'
  BY <1>0, <1>4 DEF ChatTypeOK, BareCancel, Signals
<1>5. ASSUME NEW w \in Workers, ChatWorker(w) PROVE ChatTypeOK'
  BY <1>0, <1>5 DEF ChatTypeOK, ChatWorker, ChatSkips, ChatStarts, ChatResumes, chatVars
<1>6. ASSUME NEW j \in Jobs, ChatHandler(j) PROVE ChatTypeOK'
  <2>1. CASE Marked(j) \/ Acquires(j) \/ LeavesLock(j) \/ TombstoneWritten(j)
    BY <1>0, <1>s, <2>1 DEF ChatTypeOK, Marked, Acquires, LeavesLock, TombstoneWritten, Leave
  <2>2. ASSUME NEW state \in {"completed", "failed"}, Reports(j, state)
        PROVE  ChatTypeOK'
    BY <1>0, <2>2 DEF ChatTypeOK, Reports, chatVars
  <2>3. CASE ClearsClaim(j)
    BY <1>0, <1>s, <2>3 DEF ChatTypeOK, ClearsClaim, Ends, Cleared
  <2>4. CASE Interrupted(j)
    BY <1>0, <1>s, <2>4 DEF ChatTypeOK, Interrupted, Ends, Leave, Cleared
  <2>5. QED BY <1>6, <2>1, <2>2, <2>3, <2>4 DEF ChatHandler
<1>7. CASE Clock /\ UNCHANGED chatVars
  BY <1>0, <1>7 DEF ChatTypeOK, chatVars
<1>8. CASE StopChats
  BY <1>0, <1>8 DEF ChatTypeOK, StopChats
<1>9. CASE Reboot
  BY <1>0, <1>9 DEF ChatTypeOK, Reboot, recover_stuck_chats
<1>10. CASE UNCHANGED vars
  BY <1>0, <1>10 DEF ChatTypeOK, vars, chatVars
<1>11. QED BY <1>1, <1>2, <1>3, <1>4, <1>5, <1>6, <1>7, <1>8, <1>9, <1>10 DEF ChatNext

\* Handlers and tasks stay in step.
LEMMA StepInStep ==
  ASSUME ChatIInv, [ChatNext]_vars
  PROVE  InStep'
<1> USE DEF Live, Ended
<1>q. [QueueNext]_queueVars
  BY QueueStep
<1>t. ChatTypeOK /\ QueueTypeOK /\ InStep
  BY DEF ChatIInv, ChatTypeOK
<1>u. ASSUME UNCHANGED <<chat, task, pending>> PROVE InStep'
  BY <1>q, <1>u, QuietStaysInStep DEF InStep, Quiet
<1>1. ASSUME NEW j \in Jobs, Post(j) PROVE InStep'
  BY <1>1, <1>u DEF Post, PostClaims, PostEnqueues, PostQueueFull, PostFails, PostCommits,
     PostCommitFails, RollBack, CreateJob, CreateJobQueueFull, chatVars, queueVars, poolVars
<1>2. ASSUME NEW s \in Sections, NEW step \in {"cancel", "active"}, ReadPointer(s, step)
      PROVE  InStep'
  BY <1>2, <1>u DEF ReadPointer, queueVars
<1>3. ASSUME NEW s \in Sections, RequestEnds(s) PROVE InStep'
  <2>1. CASE CancelChat(s)
    <3>1. request[s].job \in Jobs
      BY <1>t, <2>1 DEF ChatTypeOK, CancelChat, Requests, Idle
    <3>2. QED BY <1>u, <2>1, <3>1, SignalStaysInStep DEF CancelChat, queueVars
  <2>2. CASE CheckActive(s) \/ ClearPointer(s)
    BY <2>2, <1>u DEF CheckActive, ClearPointer, queueVars
  <2>3. QED BY <1>3, <2>1, <2>2 DEF RequestEnds
<1>4. ASSUME NEW j \in Jobs, BareCancel(j) PROVE InStep'
  BY <1>4, SignalStaysInStep DEF BareCancel
<1>5. ASSUME NEW w \in Workers, ChatWorker(w) PROVE InStep'
  <2>1. CASE ChatSkips(w)
    BY <1>u, <2>1 DEF ChatSkips, WorkerSkips, chatVars
  <2>2. SUFFICES ASSUME ChatStarts(w) \/ ChatResumes(w), NEW j \in Jobs PROVE InStepAt(j)'
    BY <1>5, <2>1 DEF ChatWorker, InStep
  <2>i. InStepAt(j)
    BY <1>t DEF InStep
  <2>3. CASE ChatStarts(w)
    <3>1. /\ Head(queue) \in Jobs
          /\ task[Head(queue)] = "none"
          /\ task' = [task EXCEPT ![Head(queue)] = "running"]
          /\ chat' = [chat EXCEPT ![Head(queue)] = "marking"]
          /\ pending' = pending
      BY <2>3, StartsFresh DEF ChatStarts, WorkerStarts, ChatIInv
    <3>2. CASE j = Head(queue)
      BY <1>t, <2>i, <3>1, <3>2 DEF InStepAt, ChatTypeOK, QueueTypeOK
    <3>3. CASE j # Head(queue)
      <4>1. Quiet(j)
        BY <1>t, <3>1, <3>3 DEF Quiet, ChatTypeOK, QueueTypeOK
      <4>2. QED BY <1>q, <4>1, QuietStaysInStep
    <3>4. QED BY <3>2, <3>3
  <2>4. CASE ChatResumes(w)
    <3> DEFINE k == worker[w]
    <3>1. /\ k \in Jobs
          /\ task[k] \in Ended
          /\ task' = [task EXCEPT ![k] = "none"]
          /\ chat' = [chat EXCEPT ![k] = "none"]
          /\ pending' = pending
      BY <2>4 DEF ChatResumes, WorkerResumes
    <3> HIDE DEF k
    <3>2. CASE j = k
      BY <1>t, <2>i, <3>1, <3>2 DEF InStepAt, ChatTypeOK, QueueTypeOK
    <3>3. CASE j # k
      <4>1. Quiet(j)
        BY <1>t, <3>1, <3>3 DEF Quiet, ChatTypeOK, QueueTypeOK
      <4>2. QED BY <1>q, <4>1, QuietStaysInStep
    <3>4. QED BY <3>2, <3>3
  <2>5. QED BY <2>2, <2>3, <2>4
<1>6. ASSUME NEW k \in Jobs, ChatHandler(k) PROVE InStep'
  <2>i. InStepAt(k) /\ task[k] \in {"none"} \cup Live \cup Ended
    BY <1>t DEF InStep, QueueTypeOK
  \* A handler that moves on to next, its task and its entry as they were.
  <2>m. ASSUME NEW next \in {"waiting", "chatting", "tombstone", "clearing", "failing"},
               chat' = [chat EXCEPT ![k] = next], pending' = pending \ {k},
               task' = task, store' = store, chat[k] \notin {"none", "ended"},
               task[k] = "cancelling" => next \in {"tombstone", "clearing"},
               next = "tombstone" => task[k] = "cancelling",
               next = "clearing" /\ task[k] = "running" => store[k] \notin Active
        PROVE  InStep'
    <3>1. SUFFICES ASSUME NEW j \in Jobs PROVE InStepAt(j)'
      BY DEF InStep
    <3>2. CASE j = k
      BY <1>t, <2>i, <2>m, <3>2 DEF InStepAt, ChatTypeOK
    <3>3. CASE j # k
      <4>1. Quiet(j)
        BY <1>t, <2>m, <3>3 DEF Quiet, ChatTypeOK
      <4>2. QED BY <1>q, <4>1, QuietStaysInStep
    <3>4. QED BY <3>2, <3>3
  <2>p. k \notin pending => pending = pending \ {k}
    OBVIOUS
  <2>1. CASE Marked(k)
    <3>1. task[k] # "cancelling"
      BY <2>i, <2>1 DEF Marked, InStepAt
    <3>2. QED BY <2>m, <2>p, <2>1, <3>1 DEF Marked, queueVars
  <2>2. CASE Acquires(k)
    <3>1. task[k] # "cancelling"
      BY <2>i, <2>2 DEF Acquires, InStepAt
    <3>2. QED BY <2>m, <2>p, <2>2, <3>1 DEF Acquires, queueVars
  <2>3. CASE LeavesLock(k)
    <3>1. task[k] = "running"
      BY <2>i, <2>3 DEF LeavesLock, InStepAt
    <3>2. QED BY <2>m, <2>p, <2>3, <3>1 DEF LeavesLock, Leave, queueVars
  <2>4. CASE TombstoneWritten(k)
    <3>1. task[k] = "cancelling"
      BY <2>i, <2>4 DEF TombstoneWritten, InStepAt
    <3>2. QED BY <2>m, <2>p, <2>4, <3>1 DEF TombstoneWritten, queueVars
  <2>5. ASSUME NEW state \in {"completed", "failed"}, Reports(k, state)
        PROVE  InStep'
    BY <1>u, <2>5 DEF Reports, HandlerReports, chatVars, poolVars
  <2>6. CASE ClearsClaim(k)
    <3>1. PICK outcome \in Ended : Ends(k, outcome)
      <4>1. chat[k] = "failing" => task[k] # "cancelling"
        BY <2>i, <2>6 DEF ClearsClaim, InStepAt
      <4>2. \/ task[k] = "cancelling" /\ chat[k] = "clearing"
            \/ task[k] # "cancelling" /\ chat[k] = "failing"
            \/ task[k] # "cancelling" /\ chat[k] = "clearing"
        BY <2>6, <4>1 DEF ClearsClaim
      <4>3. \/ Ends(k, "cancelled") \/ Ends(k, "raised") \/ Ends(k, "returned")
        BY <2>6, <4>2 DEF ClearsClaim
      <4>4. QED BY <4>3
    <3>2. pending' = pending \ {k}
      BY <2>6, <2>p DEF ClearsClaim
    <3>3. QED BY <1>q, <3>1, <3>2, EndStaysInStep
  <2>7. CASE Interrupted(k)
    <3>0. k \in pending /\ pending' = pending \ {k} /\ task[k] = "cancelling"
      BY <2>i, <2>7 DEF Interrupted, InStepAt
    <3>1. CASE chat[k] \in {"marking", "clearing", "failing"}
      <4>1. Ends(k, "cancelled")
        BY <2>7, <3>1 DEF Interrupted
      <4>2. QED BY <1>q, <3>0, <4>1, EndStaysInStep
    <3>2. CASE chat[k] \in {"waiting", "chatting"}
      <4>1. chat' = [chat EXCEPT ![k] = "tombstone"] /\ UNCHANGED queueVars
        BY <2>7, <3>2 DEF Interrupted, Leave
      <4>2. QED BY <2>m, <3>0, <3>2, <4>1 DEF queueVars
    <3>3. CASE chat[k] = "tombstone"
      <4>1. chat' = [chat EXCEPT ![k] = "clearing"] /\ UNCHANGED queueVars
        BY <2>7, <3>3 DEF Interrupted, Leave
      <4>2. QED BY <2>m, <3>0, <3>3, <4>1 DEF queueVars
    <3>4. QED BY <2>7, <3>1, <3>2, <3>3 DEF Interrupted
  <2>8. QED BY <1>6, <2>1, <2>2, <2>3, <2>4, <2>5, <2>6, <2>7 DEF ChatHandler
<1>7. CASE Clock /\ UNCHANGED chatVars
  BY <1>7, <1>u DEF Clock, JobAges, Cleanup, chatVars, poolVars
<1>8. CASE StopChats
  <2>0. /\ \A j \in Jobs : task'[j] = IF task[j] \in Live THEN "cancelling" ELSE task[j]
        /\ pending' = pending \cup {j \in Jobs : task[j] \in Live}
        /\ chat' = chat
    BY <1>8 DEF StopChats, StopWorkers
  <2>1. SUFFICES ASSUME NEW j \in Jobs PROVE InStepAt(j)'
    BY DEF InStep
  <2>2. CASE task[j] \in Live
    BY <1>t, <2>0, <2>2 DEF InStep, InStepAt
  <2>3. CASE task[j] \notin Live
    <3>1. Quiet(j)
      BY <2>0, <2>3 DEF Quiet
    <3>2. QED BY <1>q, <3>1, QuietStaysInStep
  <2>4. QED BY <2>2, <2>3
<1>9. CASE Reboot
  BY <1>9 DEF Reboot, Restart, FreshPool, InStep, InStepAt
<1>10. CASE UNCHANGED vars
  BY <1>10, <1>u DEF vars, chatVars, queueVars
<1>11. QED BY <1>1, <1>2, <1>3, <1>4, <1>5, <1>6, <1>7, <1>8, <1>9, <1>10 DEF ChatNext

\* No step leaks a lock: whatever ends a handler, or throws into it, has let go of
\* the lock by the time the handler is out of the with block.
LEMMA StepLock ==
  ASSUME ChatIInv, [ChatNext]_vars
  PROVE  LockHasLiveHolder'
<1>t. ChatTypeOK /\ QueueTypeOK /\ InStep /\ LockHasLiveHolder
  BY DEF ChatIInv, ChatTypeOK
<1>s. \A j \in Jobs : SectionOf[j] \in Sections /\ j # NoJob
  BY ChatAssumption, QueueAssumption
<1> DEFINE Holds(j) == task[j] \in Live /\ chat[j] = "chatting"
\* The steps that take no lock.
<1>k. ASSUME \A s \in Sections : lock'[s] # NoJob => lock'[s] = lock[s] /\ Holds(lock[s])'
      PROVE  LockHasLiveHolder'
  BY <1>k, <1>t DEF LockHasLiveHolder
<1>h. \A s \in Sections : lock[s] # NoJob => lock[s] \in Jobs /\ Holds(lock[s])
  BY <1>t DEF LockHasLiveHolder, ChatTypeOK
<1>u. ASSUME lock' = lock, \A j \in Jobs : Holds(j) => Holds(j)'
      PROVE  LockHasLiveHolder'
  <2> HIDE DEF Holds
  <2>1. QED BY <1>h, <1>k, <1>u
<1>c. ASSUME NEW k \in Jobs, CancelJob(k) PROVE \A j \in Jobs : task[j] \in Live => task'[j] \in Live
  BY <1>c, <1>t DEF CancelJob, QueueTypeOK, Live
<1>e. ASSUME NEW k \in Jobs, NEW outcome, Ends(k, outcome), chat[k] # "chatting"
      PROVE  \A j \in Jobs : Holds(j) => Holds(j)'
  BY <1>e, <1>t DEF Ends, HandlerEnds, ChatTypeOK, QueueTypeOK
\* A handler that leaves the with block, or was not in it.
<1>l. ASSUME NEW k \in Jobs, NEW next, Leave(k, next), task' = task PROVE LockHasLiveHolder'
  <2>1. SUFFICES ASSUME NEW s \in Sections, lock'[s] # NoJob
                 PROVE  lock'[s] = lock[s] /\ Holds(lock[s])'
    BY <1>k
  <2>2. lock'[s] = lock[s] /\ lock[s] # k
    BY <1>l, <2>1 DEF Leave
  <2>3. QED BY <1>h, <1>l, <1>t, <2>1, <2>2 DEF Leave, ChatTypeOK
<1>1. ASSUME NEW j \in Jobs, Post(j) PROVE LockHasLiveHolder'
  BY <1>1, <1>u DEF Post, PostClaims, PostEnqueues, PostQueueFull, PostFails, PostCommits,
     PostCommitFails, RollBack, CreateJob, CreateJobQueueFull, chatVars, queueVars, poolVars
<1>2. ASSUME NEW s \in Sections, NEW step \in {"cancel", "active"}, ReadPointer(s, step)
      PROVE  LockHasLiveHolder'
  BY <1>2, <1>u DEF ReadPointer, queueVars
<1>3. ASSUME NEW s \in Sections, RequestEnds(s) PROVE LockHasLiveHolder'
  <2>1. CASE CancelChat(s)
    <3>1. request[s].job \in Jobs
      BY <1>t, <2>1 DEF ChatTypeOK, CancelChat, Requests, Idle
    <3>2. QED BY <1>c, <1>u, <2>1, <3>1 DEF CancelChat, Signals, queueVars
  <2>2. CASE CheckActive(s) \/ ClearPointer(s)
    BY <2>2, <1>u DEF CheckActive, ClearPointer, queueVars
  <2>3. QED BY <1>3, <2>1, <2>2 DEF RequestEnds
<1>4. ASSUME NEW j \in Jobs, BareCancel(j) PROVE LockHasLiveHolder'
  BY <1>4, <1>c, <1>u DEF BareCancel, Signals
<1>5. ASSUME NEW w \in Workers, ChatWorker(w) PROVE LockHasLiveHolder'
  <2>1. CASE ChatSkips(w)
    BY <1>u, <2>1 DEF ChatSkips, WorkerSkips, chatVars
  <2>2. CASE ChatStarts(w)
    <3>1. /\ task[Head(queue)] = "none"
          /\ task' = [task EXCEPT ![Head(queue)] = "running"]
          /\ chat' = [chat EXCEPT ![Head(queue)] = "marking"]
          /\ lock' = lock
      BY <2>2, StartsFresh DEF ChatStarts, WorkerStarts, ChatIInv
    <3>2. \A j \in Jobs : Holds(j) => Holds(j)'
      BY <1>t, <3>1 DEF ChatTypeOK, QueueTypeOK, Live
    <3>3. QED BY <1>u, <3>1, <3>2
  <2>3. CASE ChatResumes(w)
    <3>1. \A j \in Jobs : Holds(j) => Holds(j)'
      BY <1>t, <2>3 DEF ChatResumes, WorkerResumes, ChatTypeOK, QueueTypeOK, Live, Ended
    <3>2. QED BY <1>u, <2>3, <3>1 DEF ChatResumes
  <2>4. QED BY <1>5, <2>1, <2>2, <2>3 DEF ChatWorker
<1>6. ASSUME NEW k \in Jobs, ChatHandler(k) PROVE LockHasLiveHolder'
  <2>i. InStepAt(k) /\ task[k] \in {"none"} \cup Live \cup Ended
    BY <1>t DEF InStep, QueueTypeOK
  <2>1. CASE Marked(k) \/ TombstoneWritten(k)
    <3>1. \A j \in Jobs : Holds(j) => Holds(j)'
      BY <1>t, <2>1 DEF Marked, TombstoneWritten, ChatTypeOK, queueVars
    <3>2. QED BY <1>u, <2>1, <3>1 DEF Marked, TombstoneWritten
  <2>2. CASE Acquires(k)
    <3>1. /\ chat[k] = "waiting"
          /\ chat' = [chat EXCEPT ![k] = "chatting"]
          /\ lock' = [lock EXCEPT ![SectionOf[k]] = k]
          /\ task' = task
      BY <2>2 DEF Acquires, queueVars
    <3>2. task[k] \in Live
      BY <2>i, <3>1 DEF InStepAt
    <3>3. QED BY <1>t, <1>s, <3>1, <3>2 DEF LockHasLiveHolder, ChatTypeOK
  <2>3. CASE LeavesLock(k)
    BY <1>l, <2>3 DEF LeavesLock, queueVars
  <2>4. ASSUME NEW state \in {"completed", "failed"}, Reports(k, state)
        PROVE  LockHasLiveHolder'
    BY <1>u, <2>4 DEF Reports, HandlerReports, chatVars, poolVars
  <2>5. CASE ClearsClaim(k)
    <3>1. \E outcome : Ends(k, outcome)
      BY <2>5 DEF ClearsClaim
    <3>2. QED BY <1>e, <1>u, <2>5, <3>1 DEF ClearsClaim
  <2>6. CASE Interrupted(k)
    BY <1>e, <1>l, <1>u, <2>6 DEF Interrupted, queueVars
  <2>7. QED BY <1>6, <2>1, <2>2, <2>3, <2>4, <2>5, <2>6 DEF ChatHandler
<1>7. CASE Clock /\ UNCHANGED chatVars
  BY <1>7, <1>u DEF Clock, JobAges, Cleanup, chatVars, poolVars
<1>8. CASE StopChats
  <2>1. \A j \in Jobs : Holds(j) => Holds(j)'
    BY <1>8 DEF StopChats, StopWorkers, Live
  <2>2. QED BY <1>8, <1>u, <2>1 DEF StopChats
<1>9. CASE Reboot
  BY <1>9 DEF Reboot, LockHasLiveHolder
<1>10. CASE UNCHANGED vars
  BY <1>10, <1>u DEF vars, chatVars, queueVars
<1>11. QED BY <1>1, <1>2, <1>3, <1>4, <1>5, <1>6, <1>7, <1>8, <1>9, <1>10 DEF ChatNext

\* The jobs that pointers name stay findable: a POST whose job the full queue
\* refused rolls its claim back in the same step.
LEMMA StepTracked ==
  ASSUME ChatIInv, [ChatNext]_vars
  PROVE  Tracked'
<1>q. [QueueNext]_queueVars
  BY QueueStep
<1>m. minted \subseteq minted'
  BY <1>q, HistoryGrows
<1>t. ChatTypeOK /\ Tracked
  BY DEF ChatIInv
<1>s. \A j \in Jobs : SectionOf[j] \in Sections /\ j # NoJob
  BY ChatAssumption, QueueAssumption
<1>f. \A j \in minted : Findable(j) => Findable(j)'
  BY <1>q, StaysFindable DEF ChatIInv
<1>n. \A j : j \notin minted' => Findable(j)'
  BY DEF Findable
<1> HIDE DEF Findable
\* The claims that were there before the step.
<1>a. ASSUME NEW s \in Sections, NEW c \in Jobs, claim[s] = c
      PROVE  c \in minted' /\ Findable(c)'
  BY <1>a, <1>f, <1>m, <1>t DEF Tracked
\* The requests that were open before the step, but for the one that mints.
<1>b. ASSUME NEW j \in Jobs, posting[SectionOf[j]] = j, j \in minted' => j \in minted
      PROVE  Findable(j)'
  BY <1>b, <1>f, <1>n, <1>t DEF Tracked
<1>u. ASSUME \A s \in Sections : claim'[s] \in Jobs => claim'[s] = claim[s],
             \A j \in Jobs : posting'[SectionOf[j]] = j => posting[SectionOf[j]] = j,
             minted' = minted
      PROVE  Tracked'
  BY <1>a, <1>b, <1>u DEF Tracked
<1>1. ASSUME NEW j \in Jobs, Post(j) PROVE Tracked'
  <2>1. CASE PostClaims(j)
    <3>1. /\ claim' = claim /\ minted' = minted /\ j \notin minted'
          /\ posting' = [posting EXCEPT ![SectionOf[j]] = j]
      BY <2>1 DEF PostClaims, queueVars
    <3>2. ASSUME NEW k \in Jobs, posting'[SectionOf[k]] = k PROVE Findable(k)'
      <4>1. k = j \/ posting[SectionOf[k]] = k
        BY <1>s, <1>t, <3>1, <3>2 DEF ChatTypeOK
      <4>2. QED BY <1>b, <1>n, <3>1, <4>1
    <3>3. QED BY <1>a, <3>1, <3>2 DEF Tracked
  <2>2. CASE PostEnqueues(j)
    <3>1. /\ claim' = claim /\ posting' = posting
          /\ minted' = minted \cup {j}
          /\ queue' = Append(queue, j)
      BY <2>2 DEF PostEnqueues, CreateJob, StoreEntry, chatVars
    <3>2. queue' \in Seq(Jobs) /\ Len(queue) + 1 \in DOMAIN queue' /\ queue'[Len(queue) + 1] = j
      BY <3>1 DEF ChatIInv, IInv, QueueTypeOK
    <3>3. Findable(j)'
      BY <3>2 DEF Findable, Queued
    <3>4. ASSUME NEW k \in Jobs, posting'[SectionOf[k]] = k PROVE Findable(k)'
      BY <1>b, <3>1, <3>3, <3>4
    <3>5. QED BY <1>a, <3>1, <3>4 DEF Tracked
  <2>3. CASE PostQueueFull(j)
    <3>1. /\ claim' = claim
          /\ posting' = [posting EXCEPT ![SectionOf[j]] = NoJob]
          /\ minted' = minted \cup {j}
      BY <2>3 DEF PostQueueFull, RollBack, CreateJobQueueFull, StoreEntry
    <3>2. ASSUME NEW k \in Jobs, posting'[SectionOf[k]] = k PROVE Findable(k)'
      <4>1. k # j /\ posting[SectionOf[k]] = k
        BY <1>s, <1>t, <3>1, <3>2 DEF ChatTypeOK
      <4>2. QED BY <1>b, <3>1, <4>1
    <3>3. QED BY <1>a, <3>1, <3>2 DEF Tracked
  <2>4. CASE PostFails(j) \/ PostCommitFails(j)
    <3>1. /\ claim' = claim /\ minted' = minted
          /\ posting' = [posting EXCEPT ![SectionOf[j]] = NoJob]
      BY <2>4 DEF PostFails, PostCommitFails, RollBack, queueVars
    <3>2. \A k \in Jobs : posting'[SectionOf[k]] = k => posting[SectionOf[k]] = k
      BY <1>s, <1>t, <3>1 DEF ChatTypeOK
    <3>3. QED BY <1>u, <3>1, <3>2
  <2>5. CASE PostCommits(j)
    <3>1. /\ posting[SectionOf[j]] = j /\ j \in minted /\ minted' = minted
          /\ claim' = [claim EXCEPT ![SectionOf[j]] = j]
          /\ posting' = [posting EXCEPT ![SectionOf[j]] = NoJob]
      BY <2>5 DEF PostCommits, queueVars
    <3>2. \A k \in Jobs : posting'[SectionOf[k]] = k => posting[SectionOf[k]] = k
      BY <1>s, <1>t, <3>1 DEF ChatTypeOK
    <3>3. \A s \in Sections : claim'[s] \in Jobs => claim'[s] \in {claim[s], j}
      BY <1>t, <3>1 DEF ChatTypeOK
    <3>4. j \in minted' /\ Findable(j)'
      BY <1>b, <3>1
    <3>5. QED BY <1>a, <1>b, <3>1, <3>2, <3>3, <3>4 DEF Tracked
  <2>6. QED BY <1>1, <2>1, <2>2, <2>3, <2>4, <2>5 DEF Post
<1>2. ASSUME NEW s \in Sections, NEW step \in {"cancel", "active"}, ReadPointer(s, step)
      PROVE  Tracked'
  BY <1>2, <1>u DEF ReadPointer, queueVars
<1>c. \A s \in Sections : \A r \in Sections : Cleared(s)[r] \in Jobs => Cleared(s)[r] = claim[r]
  BY <1>s, <1>t DEF Cleared, ChatTypeOK
<1>3. ASSUME NEW s \in Sections, RequestEnds(s) PROVE Tracked'
  <2>1. /\ \A r \in Sections : claim'[r] \in Jobs => claim'[r] = claim[r]
        /\ posting' = posting
    BY <1>3, <1>c DEF RequestEnds, CancelChat, CheckActive, ClearPointer
  <2>2. minted' = minted
    BY <1>3 DEF RequestEnds, CancelChat, CheckActive, ClearPointer, Signals, CancelJob, queueVars
  <2>3. QED BY <1>u, <2>1, <2>2
<1>4. ASSUME NEW j \in Jobs, BareCancel(j) PROVE Tracked'
  BY <1>4, <1>u DEF BareCancel, Signals, CancelJob
<1>5. ASSUME NEW w \in Workers, ChatWorker(w) PROVE Tracked'
  BY <1>5, <1>u DEF ChatWorker, ChatSkips, ChatStarts, ChatResumes, WorkerSkips, WorkerStarts,
     WorkerResumes, chatVars, history
<1>6. ASSUME NEW j \in Jobs, ChatHandler(j) PROVE Tracked'
  <2>1. minted' = minted /\ posting' = posting
    BY <1>6 DEF ChatHandler, Marked, Acquires, Reports, LeavesLock, TombstoneWritten, ClearsClaim,
       Interrupted, Ends, HandlerReports, HandlerEnds, history, chatVars, queueVars
  <2>2. claim' = claim \/ claim' = Cleared(SectionOf[j])
    BY <1>6 DEF ChatHandler, Marked, Acquires, Reports, LeavesLock, TombstoneWritten, ClearsClaim,
       Interrupted, chatVars
  <2>3. QED BY <1>c, <1>s, <1>u, <2>1, <2>2
<1>7. CASE Clock /\ UNCHANGED chatVars
  BY <1>7, <1>u DEF Clock, JobAges, Cleanup, chatVars, history
<1>8. CASE StopChats
  BY <1>8, <1>u DEF StopChats, StopWorkers, history
<1>9. CASE Reboot
  <2>1. /\ minted' = minted
        /\ claim' = [s \in Sections |-> NoJob] \/ claim' = claim
        /\ posting' = [s \in Sections |-> NoJob]
    BY <1>9 DEF Reboot, Restart, recover_stuck_chats, history
  <2>2. QED BY <1>s, <1>u, <2>1
<1>10. CASE UNCHANGED vars
  BY <1>10, <1>u DEF vars, chatVars, queueVars
<1>11. QED BY <1>1, <1>2, <1>3, <1>4, <1>5, <1>6, <1>7, <1>8, <1>9, <1>10 DEF ChatNext

\* The inductive invariant holds.
THEOREM ChatIInvAlways == ChatSafety => []ChatIInv
<1>1. ChatInit => ChatIInv
  <2>1. ChatInit => IInv
    BY InitIInv DEF ChatInit
  <2>2. ChatInit => ChatTypeOK
    BY <2>1 DEF ChatInit, ChatTypeOK, IInv, Requests
  <2>3. ChatInit => InStep /\ LockHasLiveHolder
    BY DEF ChatInit, QueueInit, InStep, InStepAt, LockHasLiveHolder, Ended
  <2>4. ChatInit => Tracked
    BY QueueAssumption, ChatAssumption DEF ChatInit, QueueInit, Tracked, Findable
  <2>5. QED BY <2>1, <2>2, <2>3, <2>4 DEF ChatIInv
<1>2. ChatIInv /\ [ChatNext]_vars => ChatIInv'
  <2> SUFFICES ASSUME ChatIInv, [ChatNext]_vars PROVE ChatIInv'
    OBVIOUS
  <2>1. IInv'
    BY QueueStep, StepIInv DEF ChatIInv
  <2>2. QED BY <2>1, ChatTypeStep, StepInStep, StepLock, StepTracked DEF ChatIInv
<1>3. QED BY <1>1, <1>2, PTL DEF ChatSafety

\* Every variable of the claims and the chats keeps its type.
THEOREM ChatTypeCorrect == ChatSafety => []ChatTypeOK
BY ChatIInvAlways, PTL DEF ChatIInv

\* Chats, cancellations and reboots do to the queue only what the queue's own
\* specification allows, so all that is proved of the queue is true of the chats.
THEOREM ChatsAreQueueJobs == ChatSafety => QueueSafety /\ ImplementsQueue
<1>1. ChatInit => QueueInit
  BY DEF ChatInit
<1>2. ChatIInv /\ [ChatNext]_vars => [QueueNext]_queueVars
  BY QueueStep
<1>3. QED BY <1>1, <1>2, ChatIInvAlways, PTL DEF ChatSafety, QueueSafety, ImplementsQueue

\* A section's lock is never leaked: who holds it is live and inside the lock.
THEOREM LocksAreReleased == ChatSafety => []LockHasLiveHolder
BY ChatIInvAlways, PTL DEF ChatIInv

\* A claim that no worker and no queue knows of is recognised as stale.
THEOREM StuckClaimsAreRecognised == ChatSafety => []StuckClaimIsRecognised
<1>1. ChatIInv /\ RunningIsHeld => StuckClaimIsRecognised
  <2> SUFFICES ASSUME ChatIInv, RunningIsHeld, accepting, NEW s \in Sections, NEW j \in Jobs,
                      claim[s] = j, task[j] = "none", ~Queued(j), store[j] \in Active
               PROVE  FALSE
    BY DEF StuckClaimIsRecognised
  <2>1. store[j] # "queued"
    BY DEF ChatIInv, Tracked, Findable
  <2>2. PICK w \in Workers : worker[w] = j
    BY <2>1 DEF RunningIsHeld, Active
  <2>3. QED BY <2>2 DEF ChatIInv, IInv, OneOwner
<1>2. QED BY <1>1, ChatIInvAlways, ChatsAreQueueJobs, RunningIsAlwaysHeld, PTL
===============================================================================
