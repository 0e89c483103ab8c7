-------------------------- MODULE DesignFanoutProofs --------------------------
(* Proofs about the design fan-out, for any repositories, any users and any bounds  *)
(* on tasks, jobs and requests: a design that is generating is worked on, and a     *)
(* design task that runs is rolled up by somebody still to come.                    *)
EXTENDS DesignFanout, FiniteSetTheorems, TLAPS

\* What a request has queued is not linked yet, and so out of reach of every
\* cancellation; the jobs of a regeneration are for its design.
RequestShape(r) ==
    /\ \A j \in r.queued :
          /\ job[j] # "none" /\ j \notin signalled
          /\ \A d \in Designs : link[d] # j
          /\ \A k \in Tasks : owner[k] # j
    /\ r.queued # {} => \E j \in r.queued : \A i \in r.queued : j <= i
    /\ r.kind = "none" => r = NoRequest
    /\ r.kind # "fanout" => r.refused = {}
    /\ r.kind \in {"flushed", "regenerate"} => r.target \in Designs
    /\ r.kind = "flushed" => r.queued = {}
    /\ r.kind = "regenerate" => \A j \in r.queued : subject[j] = r.target

\* A job is made for one design and never before the jobs of lower numbers; whatever
\* names a job names one that has been made, and a row one that was made for it.
JobShape ==
    /\ \A i, j \in Jobs : job[i] = "none" /\ i <= j => job[j] = "none"
    /\ \A j \in Jobs : job[j] # "none" => subject[j] \in Designs
    /\ \A j \in signalled : job[j] # "none"
    /\ \A d \in Designs : link[d] # Nothing => job[link[d]] # "none" /\ subject[link[d]] = d
    /\ \A k \in Tasks : owner[k] # Nothing => job[owner[k]] # "none"
    /\ \A k \in Tasks : stopper[k].phase = "signalled" /\ stopper[k].first # Nothing =>
          job[stopper[k].first] # "none"

Shape ==
    /\ JobShape
    /\ \A u \in Users : RequestShape(request[u])
    /\ \A u, v \in Users : \A j \in request[u].queued : j \in request[v].queued => u = v
    /\ \A k, l \in Running : k = l
    /\ abandoned # {} => lost # {}

IInv == FanoutTypeOK /\ Shape /\ GeneratingIsWorkedOn /\ TaskIsRolledUp

-----------------------------------------------------------------------------
(* Facts about one state.                                                       *)

\* Of a set with at most one element the cardinality is at most one.
LEMMA AtMostOne ==
  ASSUME NEW S, \A k, l \in S : k = l
  PROVE  Cardinality(S) <= 1
<1>1. CASE S = {}
  BY <1>1, FS_EmptySet
<1>2. CASE S # {}
  <2>1. PICK k \in S : TRUE
    BY <1>2
  <2>2. S = {k}
    BY <2>1
  <2>3. QED
    BY <2>2, FS_Singleton
<1>3. QED
  BY <1>1, <1>2

\* Numbers of jobs and tasks; none is Nothing.
LEMMA Numbers ==
  /\ \A j \in Jobs : j \in Nat /\ j >= 1 /\ j # Nothing
  /\ \A k \in Tasks : k \in Nat /\ k >= 1 /\ k # Nothing
BY FanoutAssumption DEF Jobs, Tasks, Nothing

\* A cancellation, by its phase.
LEMMA CancelFields ==
  ASSUME FanoutTypeOK, NEW d \in Designs
  PROVE  /\ canceller[d].phase \in {"none", "signalled", "counted"}
         /\ canceller[d] = NoCancel <=> canceller[d].phase = "none"
         /\ canceller[d].phase = "counted" =>
              /\ canceller[d].marked \in BOOLEAN /\ canceller[d].tasks \subseteq Tasks
              /\ canceller[d].verdict \in {"completed", "failed"}
<1>1. canceller[d] \in Cancels
  BY DEF FanoutTypeOK
<1>2. QED
  BY <1>1 DEF Cancels, NoCancel

\* The cancellation of a task, by its phase.
LEMMA StopFields ==
  ASSUME FanoutTypeOK, NEW k \in Tasks
  PROVE  /\ stopper[k].phase \in {"none", "signalled"}
         /\ stopper[k] = NoCancel <=> stopper[k].phase = "none"
         /\ stopper[k].phase = "signalled" => stopper[k].first \in Jobs \cup {Nothing}
<1>1. stopper[k] \in Stops
  BY DEF FanoutTypeOK
<1>2. QED
  BY <1>1 DEF Stops, NoCancel

\* A request, by its fields.
LEMMA AskFields ==
  ASSUME FanoutTypeOK, NEW u \in Users
  PROVE  /\ request[u] \in Asks
         /\ request[u].kind \in {"none", "fanout", "flushed", "regenerate"}
         /\ request[u].queued \subseteq Jobs /\ request[u].refused \subseteq Designs
         /\ request[u].made \in Tasks \cup {Nothing}
         /\ request[u].target \in Designs \cup {Nothing}
         /\ request[u].wrote \in BOOLEAN
<1>1. request[u] \in Asks
  BY DEF FanoutTypeOK
<1>2. QED
  BY <1>1 DEF Asks

\* Whoever works on a design goes on working on it, as long as nobody lets go of it.
LEMMA StillWorkedOn ==
  ASSUME NEW d, WorkedOn(d), canceller'[d] = canceller[d],
         d \in abandoned => d \in abandoned',
         d \in Refused => d \in Refused' \/ d \in abandoned',
         \A k \in Tasks : Stopping(k, d) => Stopping(k, d)' \/ d \in abandoned',
         \A j \in Jobs : OnIt(j, d) => OnIt(j, d)' \/ d \in abandoned'
  PROVE  WorkedOn(d)'
<1>1. Marked(d)' = Marked(d)
  BY DEF Marked
<1>2. QED
  BY <1>1 DEF WorkedOn

\* A design is generating for somebody who will count, unless something was lost.
LEMMA GeneratingIsCounted ==
  ASSUME IInv, lost = {}, Refused = {}, NEW d \in In("generating"), ~ Marked(d), NEW k
  PROVE  \/ canceller[d].phase = "signalled"
         \/ \E l \in Tasks : stopper[l].phase = "signalled"
         \/ \E j \in Jobs : OnIt(j, d) /\ Settling(j, k)
<1>1. WorkedOn(d) /\ abandoned = {}
  BY DEF IInv, GeneratingIsWorkedOn, Shape
<1>2. QED
  BY <1>1 DEF WorkedOn, OnIt, Settling, Stopping

-----------------------------------------------------------------------------
(* The steps of a job.                                                          *)

\* What every step of a job leaves as it is.
JobFrame(j, step) ==
    /\ job[j] # "none" /\ step \in Steps \ {"none"} /\ job' = [job EXCEPT ![j] = step]
    /\ signalled' \subseteq signalled
    /\ found' \in [Jobs -> Tasks \cup {Nothing}] /\ \A i \in Jobs \ {j} : found'[i] = found[i]
    /\ UNCHANGED <<link, other, owner, subject, request, canceller, stopper, requests>>
    /\ task' \in [Tasks -> {"none", "running", "completed", "failed"}]
    /\ \A k \in Tasks : task[k] # "none" => task'[k] # "none"
    /\ Running' \subseteq Running
    /\ design' \in [Designs -> {"none", "generating", "ready", "failed"}]
    /\ lost \subseteq lost' /\ lost' \subseteq {"excused", "blind"}
    /\ abandoned \subseteq abandoned' /\ abandoned' \subseteq Designs
    /\ abandoned' # abandoned => lost' # {}

\* It keeps the types and the shape.
LEMMA JobKeepsShape ==
  ASSUME IInv, NEW j \in Jobs, NEW step, JobFrame(j, step)
  PROVE  FanoutTypeOK' /\ Shape'
<1>1. \A k, l \in Running' : k = l
  BY DEF JobFrame, IInv, Shape
<1>2. Cardinality(Running') <= 1
  BY <1>1, AtMostOne
<1>3. FanoutTypeOK'
  BY <1>2 DEF JobFrame, IInv, FanoutTypeOK, Running
<1>4. \A i \in Jobs : job'[i] = "none" <=> job[i] = "none"
  BY DEF JobFrame, IInv, FanoutTypeOK, Steps
<1>5. JobShape'
  <2>1. \A i, l \in Jobs : job'[i] = "none" /\ i <= l => job'[l] = "none"
    BY <1>4 DEF IInv, Shape, JobShape
  <2>2. \A i \in Jobs : job'[i] # "none" => subject'[i] \in Designs
    BY <1>4 DEF JobFrame, IInv, Shape, JobShape
  <2>3. \A d \in Designs : link'[d] # Nothing =>
          job'[link'[d]] # "none" /\ subject'[link'[d]] = d
    BY <1>4 DEF JobFrame, IInv, Shape, JobShape, FanoutTypeOK
  <2>4. \A k \in Tasks : owner'[k] # Nothing => job'[owner'[k]] # "none"
    BY <1>4 DEF JobFrame, IInv, Shape, JobShape, FanoutTypeOK
  <2>5. \A i \in signalled' : job'[i] # "none"
    BY <1>4 DEF JobFrame, IInv, Shape, JobShape, FanoutTypeOK
  <2>6. \A k \in Tasks : stopper'[k].phase = "signalled" /\ stopper'[k].first # Nothing =>
          job'[stopper'[k].first] # "none"
    BY <1>4, StopFields DEF JobFrame, IInv, Shape, JobShape
  <2>7. QED
    BY <2>1, <2>2, <2>3, <2>4, <2>5, <2>6 DEF JobShape
<1>6. ASSUME NEW u \in Users PROVE RequestShape(request[u])'
  <2>1. RequestShape(request[u]) /\ request[u].queued \subseteq Jobs /\ request'[u] = request[u]
    BY AskFields DEF JobFrame, IInv, Shape
  <2>2. QED
    BY <1>4, <2>1 DEF RequestShape, JobFrame
<1>7. QED
  BY <1>1, <1>3, <1>5, <1>6 DEF IInv, Shape, JobFrame

\* Others' designs stay in their hands, and its own if it goes on.
LEMMA JobKeepsWorked ==
  ASSUME IInv, NEW j \in Jobs, NEW step, JobFrame(j, step),
         \A d \in Designs : design'[d] = "generating" =>
            /\ design[d] = "generating"
            /\ OnIt(j, d) => OnIt(j, d)' \/ d \in abandoned'
  PROVE  GeneratingIsWorkedOn'
<1> SUFFICES ASSUME NEW d \in Designs, design'[d] = "generating" PROVE WorkedOn(d)'
  BY DEF GeneratingIsWorkedOn, In
<1>1. d \in In("generating") /\ WorkedOn(d)
  BY DEF In, IInv, GeneratingIsWorkedOn
<1>2. Refused' = Refused /\ \A k \in Tasks : Stopping(k, d)' = Stopping(k, d)
  BY DEF JobFrame, Refused, Stopping
<1>3. ASSUME NEW i \in Jobs, OnIt(i, d) PROVE OnIt(i, d)' \/ d \in abandoned'
  <2>1. CASE i = j
    BY <1>3, <2>1
  <2>2. CASE i # j
    BY <1>3, <2>2 DEF OnIt, JobFrame, IInv, FanoutTypeOK
  <2>3. QED
    BY <2>1, <2>2
<1>4. canceller'[d] = canceller[d] /\ (d \in abandoned => d \in abandoned')
  BY DEF JobFrame
<1>5. QED
  BY <1>1, <1>2, <1>3, <1>4, StillWorkedOn

\* Those who count stay, and it does if it goes on.
LEMMA JobKeepsRolledUp ==
  ASSUME IInv, NEW j \in Jobs, NEW step, JobFrame(j, step),
         \A k \in Running' \ other : lost' = {} /\ Settling(j, k) => Settling(j, k)'
  PROVE  TaskIsRolledUp'
<1> SUFFICES ASSUME lost' = {}, NEW k \in Running' \ other PROVE Counts(k)'
  BY DEF TaskIsRolledUp, JobFrame
<1>1. Counts(k)
  BY DEF IInv, TaskIsRolledUp, JobFrame
<1>2. CASE \E i \in Jobs : Settling(i, k)
  <2>1. PICK i \in Jobs : Settling(i, k)
    BY <1>2
  <2>2. Settling(i, k)'
    <3>1. CASE i = j
      BY <2>1, <3>1
    <3>2. CASE i # j
      BY <2>1, <3>2 DEF Settling, JobFrame, IInv, FanoutTypeOK
    <3>3. QED
      BY <3>1, <3>2
  <2>3. QED
    BY <2>2 DEF Counts
<1>3. CASE ~ \E i \in Jobs : Settling(i, k)
  BY <1>1, <1>3 DEF Counts, JobFrame
<1>4. QED
  BY <1>2, <1>3

\* The job starts, its agent ends, or it notes that the agent failed.
LEMMA JobWorksStep ==
  ASSUME IInv, NEW j \in Jobs, JobStarts(j) \/ AgentEnds(j) \/ JobFails(j)
  PROVE  IInv'
<1>1. PICK step \in {"agent", "failing", "counting"} : job' = [job EXCEPT ![j] = step]
  BY DEF JobStarts, AgentEnds, JobFails, Becomes
<1>2. /\ job[j] \in {"queued", "agent", "failing"} /\ signalled' = signalled
      /\ UNCHANGED <<link, taskVars, subject, found, request, canceller, stopper, requests,
                     history>>
  BY DEF JobStarts, AgentEnds, JobFails, Becomes, cancels
<1>3. subject[j] \in Designs
  BY <1>2 DEF IInv, Shape, JobShape
<1>4. /\ design' \in [Designs -> {"none", "generating", "ready", "failed"}]
      /\ \A d \in Designs : design'[d] = "generating" => design[d] = "generating"
      /\ step = "counting" => design'[subject[j]] # "generating"
  <2>1. CASE JobStarts(j)
    BY <1>1, <1>3, <2>1 DEF JobStarts, Becomes, IInv, FanoutTypeOK
  <2>2. CASE AgentEnds(j)
    BY <1>1, <1>3, <2>2 DEF AgentEnds, Becomes, IInv, FanoutTypeOK
  <2>3. CASE JobFails(j)
    BY <1>1, <1>3, <2>3 DEF JobFails, Becomes, IInv, FanoutTypeOK
  <2>4. QED
    BY <2>1, <2>2, <2>3
<1>5. JobFrame(j, step)
  BY <1>1, <1>2, <1>4 DEF JobFrame, Steps, taskVars, history, Running, IInv, FanoutTypeOK
<1>6. job'[j] = step
  BY <1>1 DEF IInv, FanoutTypeOK
<1>7. FanoutTypeOK' /\ Shape'
  BY <1>5, JobKeepsShape
<1>8. GeneratingIsWorkedOn'
  <2>1. \A d \in Designs : design'[d] = "generating" =>
          /\ design[d] = "generating"
          /\ OnIt(j, d) => OnIt(j, d)' \/ d \in abandoned'
    BY <1>2, <1>4, <1>6 DEF OnIt
  <2>2. QED
    BY <1>5, <2>1, JobKeepsWorked
<1>9. TaskIsRolledUp'
  <2>1. \A k \in Running' \ other : lost' = {} /\ Settling(j, k) => Settling(j, k)'
    BY <1>2, <1>6 DEF Settling
  <2>2. QED
    BY <1>5, <2>1, JobKeepsRolledUp
<1>10. QED
  BY <1>7, <1>8, <1>9 DEF IInv

\* It counts: it goes on to the task, or leaves a design to somebody who will count again.
LEMMA JobCountsStep ==
  ASSUME IInv, NEW j \in Jobs, JobCounts(j)
  PROVE  IInv'
<1> DEFINE step == IF In("generating") = {} THEN "reading" ELSE "ended"
<1>1. /\ job[j] = "counting" /\ job' = [job EXCEPT ![j] = step]
      /\ signalled' \subseteq signalled
      /\ step # "ended" => signalled' = signalled
      /\ lost' = lost \cup Misses(Nothing)
      /\ UNCHANGED <<design, link, taskVars, subject, found, request, canceller, stopper,
                     requests, abandoned>>
  BY DEF JobCounts, Becomes, cancels
<1>2. Misses(Nothing) \subseteq {"excused", "blind"}
  BY DEF Misses
<1>3. JobFrame(j, step)
  BY <1>1, <1>2 DEF JobFrame, Steps, taskVars, Running, IInv, FanoutTypeOK
<1>4. FanoutTypeOK' /\ Shape'
  BY <1>3, JobKeepsShape
<1>5. GeneratingIsWorkedOn'
  <2>1. \A d \in Designs : design'[d] = "generating" =>
          /\ design[d] = "generating"
          /\ OnIt(j, d) => OnIt(j, d)' \/ d \in abandoned'
    BY <1>1 DEF OnIt
  <2>2. QED
    BY <1>3, <2>1, JobKeepsWorked
<1>6. TaskIsRolledUp'
  <2>1. CASE In("generating") = {}
    <3>1. job'[j] = "reading" /\ signalled' = signalled
      BY <1>1, <2>1 DEF IInv, FanoutTypeOK
    <3>2. QED
      BY <1>3, <3>1, JobKeepsRolledUp DEF Settling
  <2>2. CASE In("generating") # {}
    <3> SUFFICES ASSUME lost' = {}, NEW k \in Running' \ other' PROVE Counts(k)'
      BY DEF TaskIsRolledUp
    <3>1. PICK d \in In("generating") : TRUE
      BY <2>2
    <3>2. lost = {} /\ Misses(Nothing) = {} /\ d \in Designs
      BY <1>1, <3>1 DEF In
    <3>3. Refused = {} /\ ~ Marked(d)
      BY <3>2, FanoutAssumption DEF Misses
    <3>4. CASE canceller[d].phase = "signalled"
      BY <1>1, <3>2, <3>4 DEF Counts
    <3>5. CASE \E l \in Tasks : stopper[l].phase = "signalled"
      BY <1>1, <3>5 DEF Counts
    <3>6. CASE \E i \in Jobs : OnIt(i, d) /\ Settling(i, k)
      <4>1. PICK i \in Jobs : OnIt(i, d) /\ Settling(i, k)
        BY <3>6
      <4>2. i # j
        BY <1>1, <4>1 DEF OnIt
      <4>3. Settling(i, k)'
        BY <1>1, <4>1, <4>2 DEF Settling, IInv, FanoutTypeOK
      <4>4. QED
        BY <4>3 DEF Counts
    <3>7. QED
      BY <3>1, <3>2, <3>3, <3>4, <3>5, <3>6, GeneratingIsCounted
  <2>3. QED
    BY <2>1, <2>2
<1>7. QED
  BY <1>4, <1>5, <1>6 DEF IInv

\* It reads the task, the only one that runs, or finds none of a design.
LEMMA JobReadsStep ==
  ASSUME IInv, NEW j \in Jobs, JobReads(j)
  PROVE  IInv'
<1>1. /\ job[j] = "reading"
      /\ UNCHANGED <<design, link, taskVars, subject, request, canceller, stopper, requests,
                     history>>
  BY DEF JobReads, cancels
<1>2. ASSUME NEW step, JobFrame(j, step),
             \A k \in Running' \ other : lost' = {} /\ Settling(j, k) => Settling(j, k)'
      PROVE  IInv'
  <2>1. FanoutTypeOK' /\ Shape'
    BY <1>2, JobKeepsShape
  <2>2. \A d \in Designs : design'[d] = "generating" =>
          /\ design[d] = "generating"
          /\ OnIt(j, d) => OnIt(j, d)' \/ d \in abandoned'
    BY <1>1 DEF OnIt
  <2>3. GeneratingIsWorkedOn'
    BY <1>2, <2>2, JobKeepsWorked
  <2>4. TaskIsRolledUp'
    BY <1>2, JobKeepsRolledUp
  <2>5. QED
    BY <2>1, <2>3, <2>4 DEF IInv
<1>3. CASE Running \subseteq other /\ Becomes(j, "ended") /\ UNCHANGED found
  <2>1. JobFrame(j, "ended")
    BY <1>1, <1>3 DEF JobFrame, Becomes, Steps, taskVars, history, Running, IInv, FanoutTypeOK
  <2>2. Running' \ other = {}
    BY <1>1, <1>3 DEF taskVars, Running
  <2>3. QED
    BY <1>2, <2>1, <2>2
<1>4. CASE \E k \in Running \ other : found' = [found EXCEPT ![j] = k] /\ Becomes(j, "deciding")
  <2>1. PICK k \in Running \ other : found' = [found EXCEPT ![j] = k] /\ Becomes(j, "deciding")
    BY <1>4
  <2>2. JobFrame(j, "deciding")
    BY <1>1, <2>1 DEF JobFrame, Becomes, Steps, taskVars, history, Running, IInv, FanoutTypeOK
  <2>3. job'[j] = "deciding" /\ found'[j] = k /\ signalled' = signalled /\ Running' = Running
    BY <1>1, <2>1 DEF Becomes, taskVars, Running, IInv, FanoutTypeOK
  <2>4. \A l \in Running' \ other : Settling(j, l) => Settling(j, l)'
    BY <2>1, <2>3 DEF Settling, IInv, Shape
  <2>5. QED
    BY <1>2, <2>2, <2>4
<1>5. QED
  BY <1>3, <1>4 DEF JobReads

\* It decides by the designs that are ready.
LEMMA JobDecidesStep ==
  ASSUME IInv, NEW j \in Jobs, JobDecides(j)
  PROVE  IInv'
<1> DEFINE step == IF In("ready") # {} THEN "completing" ELSE "giving_up"
<1>1. /\ job[j] = "deciding" /\ job' = [job EXCEPT ![j] = step] /\ signalled' = signalled
      /\ UNCHANGED <<design, link, taskVars, subject, found, request, canceller, stopper,
                     requests, history>>
  BY DEF JobDecides, Becomes, cancels
<1>2. step \in {"completing", "giving_up"}
  OBVIOUS
<1> HIDE DEF step
<1>3. JobFrame(j, step) /\ job'[j] = step
  BY <1>1, <1>2 DEF JobFrame, Steps, taskVars, history, Running, IInv, FanoutTypeOK
<1>4. FanoutTypeOK' /\ Shape'
  BY <1>3, JobKeepsShape
<1>5. GeneratingIsWorkedOn'
  <2>1. \A d \in Designs : design'[d] = "generating" =>
          /\ design[d] = "generating"
          /\ OnIt(j, d) => OnIt(j, d)' \/ d \in abandoned'
    BY <1>1 DEF OnIt
  <2>2. QED
    BY <1>3, <2>1, JobKeepsWorked
<1>6. TaskIsRolledUp'
  <2>1. \A k \in Running' \ other : lost' = {} /\ Settling(j, k) => Settling(j, k)'
    BY <1>1, <1>2, <1>3 DEF Settling
  <2>2. QED
    BY <1>3, <2>1, JobKeepsRolledUp
<1>7. QED
  BY <1>4, <1>5, <1>6 DEF IInv

\* It settles the task it has read, whatever became of it; another it never counted for.
LEMMA JobSettlesStep ==
  ASSUME IInv, NEW j \in Jobs, JobSettles(j)
  PROVE  IInv'
<1> DEFINE verdict == IF job[j] = "completing" THEN "completed" ELSE "failed"
<1>1. /\ job[j] \in {"completing", "giving_up"}
      /\ job' = [job EXCEPT ![j] = "ended"] /\ signalled' \subseteq signalled
      /\ task' = [task EXCEPT ![found[j]] = verdict]
      /\ UNCHANGED <<design, link, other, owner, subject, found, request, canceller, stopper,
                     requests, history>>
  BY DEF JobSettles, Becomes, cancels
<1>2. verdict \in {"completed", "failed"}
  OBVIOUS
<1> HIDE DEF verdict
<1>3. Running' \subseteq Running \ {found[j]}
  BY <1>1, <1>2 DEF Running, IInv, FanoutTypeOK
<1>4. JobFrame(j, "ended")
  BY <1>1, <1>2, <1>3 DEF JobFrame, Steps, history, IInv, FanoutTypeOK, Shape
<1>5. FanoutTypeOK' /\ Shape'
  BY <1>4, JobKeepsShape
<1>6. GeneratingIsWorkedOn'
  <2>1. \A d \in Designs : design'[d] = "generating" =>
          /\ design[d] = "generating"
          /\ OnIt(j, d) => OnIt(j, d)' \/ d \in abandoned'
    BY <1>1 DEF OnIt
  <2>2. QED
    BY <1>4, <2>1, JobKeepsWorked
<1>7. TaskIsRolledUp'
  <2>1. \A k \in Running' \ other : lost' = {} /\ Settling(j, k) => Settling(j, k)'
    BY <1>1, <1>3 DEF Settling
  <2>2. QED
    BY <1>4, <2>1, JobKeepsRolledUp
<1>8. QED
  BY <1>5, <1>6, <1>7 DEF IInv

\* It raises: its design is abandoned, and whatever it would have counted is lost.
LEMMA JobRaisesStep ==
  ASSUME IInv, NEW j \in Jobs, JobRaises(j)
  PROVE  IInv'
<1>1. /\ Busy(j) /\ job' = [job EXCEPT ![j] = "ended"] /\ signalled' \subseteq signalled
      /\ abandoned' = abandoned \cup {subject[j]} /\ lost' = lost \cup {"excused"}
      /\ UNCHANGED <<design, link, taskVars, subject, found, request, canceller, stopper,
                     requests>>
  BY DEF JobRaises, Becomes, cancels
<1>2. job[j] # "none" /\ subject[j] \in Designs
  BY <1>1 DEF Busy, IInv, Shape, JobShape
<1>3. JobFrame(j, "ended")
  BY <1>1, <1>2 DEF JobFrame, Steps, taskVars, Running, IInv, FanoutTypeOK
<1>4. FanoutTypeOK' /\ Shape'
  BY <1>3, JobKeepsShape
<1>5. GeneratingIsWorkedOn'
  <2>1. \A d \in Designs : design'[d] = "generating" =>
          /\ design[d] = "generating"
          /\ OnIt(j, d) => OnIt(j, d)' \/ d \in abandoned'
    BY <1>1 DEF OnIt
  <2>2. QED
    BY <1>3, <2>1, JobKeepsWorked
<1>6. TaskIsRolledUp'
  BY <1>1 DEF TaskIsRolledUp
<1>7. QED
  BY <1>4, <1>5, <1>6 DEF IInv

\* It is cancelled: nobody relied on it any more.
LEMMA JobAbortsStep ==
  ASSUME IInv, NEW j \in Jobs, JobAborts(j)
  PROVE  IInv'
<1>1. /\ j \in signalled /\ Busy(j) /\ job' = [job EXCEPT ![j] = "ended"]
      /\ signalled' \subseteq signalled
      /\ UNCHANGED <<design, link, taskVars, subject, found, request, canceller, stopper,
                     requests, history>>
  BY DEF JobAborts, Becomes, cancels
<1>2. JobFrame(j, "ended")
  BY <1>1 DEF JobFrame, Steps, Busy, taskVars, history, Running, IInv, FanoutTypeOK
<1>3. FanoutTypeOK' /\ Shape'
  BY <1>2, JobKeepsShape
<1>4. GeneratingIsWorkedOn'
  <2>1. \A d \in Designs : design'[d] = "generating" =>
          /\ design[d] = "generating"
          /\ OnIt(j, d) => OnIt(j, d)' \/ d \in abandoned'
    BY <1>1 DEF OnIt
  <2>2. QED
    BY <1>2, <2>1, JobKeepsWorked
<1>5. TaskIsRolledUp'
  <2>1. \A k \in Running' \ other : lost' = {} /\ Settling(j, k) => Settling(j, k)'
    BY <1>1 DEF Settling
  <2>2. QED
    BY <1>2, <2>1, JobKeepsRolledUp
<1>6. QED
  BY <1>3, <1>4, <1>5 DEF IInv

-----------------------------------------------------------------------------
(* Steps that leave the jobs and the requests alone.                            *)

\* The designs and tasks that such a step may change; no design starts to be generated,
\* and no design task to run.  Of the open cancellations of tasks some may end.
RowFrame ==
    /\ UNCHANGED <<link, owner, job, subject, found, signalled, request>>
    /\ design' \in [Designs -> {"none", "generating", "ready", "failed"}]
    /\ \A d \in Designs : design'[d] = "generating" => design[d] = "generating"
    /\ task' \in [Tasks -> {"none", "running", "completed", "failed"}]
    /\ other \subseteq other' /\ other' \subseteq {k \in Tasks : task'[k] # "none"}
    /\ \A k, l \in Running' : k = l
    /\ Running' \ other' \subseteq Running \ other
    /\ requests' \in 0 .. MaxRequests
    /\ lost \subseteq lost' /\ lost' \subseteq {"excused", "blind"}
    /\ abandoned \subseteq abandoned' /\ abandoned' \subseteq Designs
    /\ abandoned' # abandoned => lost' # {}
    /\ canceller' \in [Designs -> Cancels]
    /\ stopper' \in [Tasks -> Stops]
    /\ \A k \in Tasks : stopper'[k] \in {stopper[k], NoCancel}

\* Types and shape stay.
LEMMA RowsKeepShape ==
  ASSUME IInv, RowFrame
  PROVE  FanoutTypeOK' /\ Shape'
<1>1. Cardinality(Running') <= 1
  BY AtMostOne DEF RowFrame
<1>2. FanoutTypeOK'
  BY <1>1 DEF RowFrame, IInv, FanoutTypeOK, Running
<1>3. \A k \in Tasks : stopper'[k].phase = "signalled" => stopper'[k] = stopper[k]
  BY DEF RowFrame, NoCancel
<1>4. JobShape'
  BY <1>3 DEF RowFrame, IInv, Shape, JobShape
<1>5. \A u \in Users : RequestShape(request[u])'
  BY DEF RowFrame, IInv, Shape, RequestShape
<1>6. Shape'
  BY <1>4, <1>5 DEF RowFrame, IInv, Shape
<1>7. QED
  BY <1>2, <1>6

\* Whoever works on a design goes on, but for a cancellation that ends.
LEMMA RowsKeepWorked ==
  ASSUME IInv, RowFrame,
         \A d \in Designs : design'[d] = "generating" =>
            \/ WorkedOn(d)'
            \/ /\ canceller'[d] = canceller[d]
               /\ \A k \in Tasks : Stopping(k, d) => Stopping(k, d)' \/ d \in abandoned'
  PROVE  GeneratingIsWorkedOn'
<1> SUFFICES ASSUME NEW d \in Designs, design'[d] = "generating", ~ WorkedOn(d)'
             PROVE  FALSE
  BY DEF GeneratingIsWorkedOn, In
<1>1. WorkedOn(d)
  BY DEF RowFrame, In, IInv, GeneratingIsWorkedOn
<1>2. Refused' = Refused /\ \A j \in Jobs : OnIt(j, d)' = OnIt(j, d)
  BY DEF RowFrame, Refused, OnIt
<1>3. d \in abandoned => d \in abandoned'
  BY DEF RowFrame
<1>4. /\ canceller'[d] = canceller[d]
      /\ \A k \in Tasks : Stopping(k, d) => Stopping(k, d)' \/ d \in abandoned'
  OBVIOUS
<1>5. QED
  BY <1>1, <1>2, <1>3, <1>4, StillWorkedOn

\* An upload, another agent's task, or the agent's write.
LEMMA RowStep ==
  ASSUME IInv, RowFrame, UNCHANGED <<canceller, stopper, lost>>
  PROVE  IInv'
<1>1. FanoutTypeOK' /\ Shape'
  BY RowsKeepShape
<1>2. GeneratingIsWorkedOn'
  <2>1. \A d \in Designs : canceller'[d] = canceller[d]
           /\ \A k \in Tasks : Stopping(k, d) => Stopping(k, d)' \/ d \in abandoned'
    BY DEF Stopping, RowFrame
  <2>2. QED
    BY <2>1, RowsKeepWorked
<1>3. TaskIsRolledUp'
  <2> SUFFICES ASSUME lost = {}, NEW k \in Running \ other PROVE Counts(k)'
    BY DEF TaskIsRolledUp, RowFrame
  <2>1. Counts(k)
    BY DEF IInv, TaskIsRolledUp
  <2>2. QED
    BY <2>1 DEF Counts, Settling, RowFrame
<1>4. QED
  BY <1>1, <1>2, <1>3 DEF IInv

\* Uploads and writes of a wireframe.
LEMMA WriteStep ==
  ASSUME IInv, \/ \E d \in Designs : Upload(d)
               \/ \E j \in Jobs : AgentWrites(j)
  PROVE  IInv'
<1>1. PICK d \in Designs : design' = [design EXCEPT ![d] = "ready"]
  <2>1. CASE \E d \in Designs : Upload(d)
    BY <2>1 DEF Upload
  <2>2. CASE \E j \in Jobs : AgentWrites(j)
    BY <2>2 DEF AgentWrites, IInv, Shape, JobShape
  <2>3. QED
    BY <2>1, <2>2
<1>2. UNCHANGED <<link, task, other, owner, job, subject, found, signalled, request, canceller,
                  stopper, lost, abandoned>>
  BY DEF Upload, AgentWrites, taskVars, jobVars, cancels, history
<1>3. requests' \in 0 .. MaxRequests
  BY FanoutAssumption DEF Upload, AgentWrites, Asked, IInv, FanoutTypeOK
<1>4. RowFrame
  BY <1>1, <1>2, <1>3 DEF RowFrame, Running, IInv, FanoutTypeOK, Shape
<1>5. QED
  BY <1>2, <1>4, RowStep

\* Another stage's agent begins, or ends.
LEMMA OtherStep ==
  ASSUME IInv, OtherAgent \/ OtherEnds
  PROVE  IInv'
<1>1. CASE OtherAgent
  <2>1. PICK k \in NextTask : task' = [task EXCEPT ![k] = "running"] /\ other' = other \cup {k}
    BY <1>1 DEF OtherAgent
  <2>2. /\ UNCHANGED <<design, link, owner, job, subject, found, signalled, request, canceller,
                       stopper, lost, abandoned>>
        /\ requests' \in 0 .. MaxRequests /\ Running = {} /\ k \in Tasks
    BY <1>1, <2>1, FanoutAssumption
       DEF OtherAgent, Asked, NextTask, jobVars, cancels, history, IInv, FanoutTypeOK
  <2>3. Running' = {k}
    BY <2>1, <2>2 DEF Running, IInv, FanoutTypeOK
  <2>4. RowFrame
    BY <2>1, <2>2, <2>3 DEF RowFrame, IInv, FanoutTypeOK, Shape
  <2>5. QED
    BY <2>2, <2>4, RowStep
<1>2. CASE OtherEnds
  <2>1. PICK k \in Running \cap other, verdict \in {"completed", "failed"} :
          task' = [task EXCEPT ![k] = verdict]
    BY <1>2 DEF OtherEnds
  <2>2. UNCHANGED <<design, link, other, owner, job, subject, found, signalled, request,
                    canceller, stopper, requests, lost, abandoned>>
    BY <1>2 DEF OtherEnds, jobVars, cancels, history
  <2>3. Running' \subseteq Running
    BY <2>1 DEF Running, IInv, FanoutTypeOK
  <2>4. RowFrame
    BY <2>1, <2>2, <2>3 DEF RowFrame, Running, IInv, FanoutTypeOK, Shape
  <2>5. QED
    BY <2>2, <2>4, RowStep
<1>3. QED
  BY <1>1, <1>2

-----------------------------------------------------------------------------
(* Cancellations.                                                               *)

\* A cancellation looks again and counts: it has marked what is still generating, and
\* has settled the task, or leaves that to whoever it still sees at work.
LEMMA CancelCountsStep ==
  ASSUME IInv, NEW d \in Designs, CancelCounts(d)
  PROVE  IInv'
<1> DEFINE still == In("generating") \ {d}
           c == [phase |-> "counted", marked |-> design[d] = "generating",
                 tasks |-> IF still = {} THEN Running ELSE {}, verdict |-> Outcome]
<1>1. /\ canceller[d].phase = "signalled" /\ canceller' = [canceller EXCEPT ![d] = c]
      /\ lost' = lost \cup Misses(d)
      /\ UNCHANGED <<design, link, task, other, owner, job, subject, found, signalled, request,
                     stopper, requests, abandoned>>
  BY DEF CancelCounts, taskVars, jobVars
<1>2. c \in Cancels /\ Misses(d) \subseteq {"excused", "blind"}
  <2>1. Outcome \in {"completed", "failed"} /\ (design[d] = "generating") \in BOOLEAN
          /\ (IF still = {} THEN Running ELSE {}) \subseteq Tasks
    BY DEF Outcome, Running
  <2>2. c \in [phase : {"counted"}, marked : BOOLEAN, tasks : SUBSET Tasks,
               verdict : {"completed", "failed"}]
    BY <2>1
  <2>3. QED
    BY <2>2 DEF Cancels, Misses
<1>3. c.phase = "counted" /\ c.tasks = (IF still = {} THEN Running ELSE {})
        /\ c.marked = (design[d] = "generating")
  OBVIOUS
<1> HIDE DEF c
<1>4. canceller'[d] = c /\ \A e \in Designs \ {d} : canceller'[e] = canceller[e]
  BY <1>1 DEF IInv, FanoutTypeOK
<1>5. RowFrame
  <2>1. canceller' \in [Designs -> Cancels]
    BY <1>1, <1>2 DEF IInv, FanoutTypeOK
  <2>2. \A k, l \in Running' : k = l
    BY <1>1 DEF Running, IInv, Shape
  <2>3. lost' \subseteq {"excused", "blind"}
    BY <1>1, <1>2 DEF IInv, FanoutTypeOK
  <2>4. QED
    BY <1>1, <2>1, <2>2, <2>3 DEF RowFrame, Running, IInv, FanoutTypeOK
<1>6. FanoutTypeOK' /\ Shape'
  BY <1>5, RowsKeepShape
<1>7. GeneratingIsWorkedOn'
  <2>1. ASSUME NEW e \in Designs, design'[e] = "generating"
        PROVE  \/ WorkedOn(e)'
               \/ /\ canceller'[e] = canceller[e]
                  /\ \A k \in Tasks : Stopping(k, e) => Stopping(k, e)' \/ e \in abandoned'
    <3>1. CASE e = d
      BY <1>1, <1>3, <1>4, <2>1, <3>1 DEF Marked, WorkedOn
    <3>2. CASE e # d
      BY <1>1, <1>4, <3>2 DEF Stopping
    <3>3. QED
      BY <3>1, <3>2
  <2>2. QED
    BY <1>5, <2>1, RowsKeepWorked
<1>8. TaskIsRolledUp'
  <2> SUFFICES ASSUME lost' = {}, NEW k \in Running, k \in Running' \ other' PROVE Counts(k)'
    BY <1>1 DEF TaskIsRolledUp, Running
  <2>1. CASE still = {}
    BY <1>3, <1>4, <2>1 DEF Counts
  <2>2. CASE still # {}
    <3>1. PICK e \in In("generating") : e # d
      BY <2>2
    <3>2. lost = {} /\ Refused = {} /\ ~ Marked(e) /\ e \in Designs
      BY <1>1, <3>1 DEF Misses, In
    <3>3. CASE canceller[e].phase = "signalled"
      BY <1>4, <3>1, <3>2, <3>3 DEF Counts
    <3>4. CASE \E l \in Tasks : stopper[l].phase = "signalled"
      BY <1>1, <3>4 DEF Counts
    <3>5. CASE \E i \in Jobs : OnIt(i, e) /\ Settling(i, k)
      BY <1>1, <3>5 DEF Settling, Counts
    <3>6. QED
      BY <3>2, <3>3, <3>4, <3>5, GeneratingIsCounted
  <2>3. QED
    BY <2>1, <2>2
<1>9. QED
  BY <1>6, <1>7, <1>8 DEF IInv

\* Its commit.
LEMMA CancelCommitsStep ==
  ASSUME IInv, NEW d \in Designs, CancelCommits(d)
  PROVE  IInv'
<1> DEFINE c == canceller[d]
<1>1. /\ c.phase = "counted"
      /\ design' = [design EXCEPT ![d] = IF c.marked THEN "failed" ELSE @]
      /\ task' = [k \in Tasks |->
           IF k \in c.tasks /\ (c.verdict = "completed" \/ k \in Running)
           THEN c.verdict ELSE task[k]]
      /\ canceller' = [canceller EXCEPT ![d] = NoCancel]
      /\ UNCHANGED <<link, other, owner, job, subject, found, signalled, request, stopper,
                     requests, lost, abandoned>>
  BY DEF CancelCommits, jobVars, history
<1>2. c.verdict \in {"completed", "failed"} /\ c.tasks \subseteq Tasks
  BY <1>1, CancelFields DEF IInv
<1>3. /\ canceller'[d] = NoCancel /\ \A e \in Designs \ {d} : canceller'[e] = canceller[e]
      /\ canceller' \in [Designs -> Cancels]
  BY <1>1 DEF IInv, FanoutTypeOK, Cancels
<1> HIDE DEF c
<1>4. /\ Running' \subseteq Running \ c.tasks
      /\ task' \in [Tasks -> {"none", "running", "completed", "failed"}]
      /\ \A k \in Tasks : task[k] # "none" => task'[k] # "none"
  BY <1>1, <1>2 DEF Running, IInv, FanoutTypeOK
<1>5. /\ design' \in [Designs -> {"none", "generating", "ready", "failed"}]
      /\ \A e \in Designs : design'[e] = "generating" =>
            design[e] = "generating" /\ (e = d => ~ c.marked)
  BY <1>1 DEF IInv, FanoutTypeOK
<1>6. RowFrame
  BY <1>1, <1>3, <1>4, <1>5 DEF RowFrame, IInv, FanoutTypeOK, Shape
<1>7. FanoutTypeOK' /\ Shape'
  BY <1>6, RowsKeepShape
<1>8. GeneratingIsWorkedOn'
  <2>1. ASSUME NEW e \in Designs, design'[e] = "generating"
        PROVE  \/ WorkedOn(e)'
               \/ /\ canceller'[e] = canceller[e]
                  /\ \A k \in Tasks : Stopping(k, e) => Stopping(k, e)' \/ e \in abandoned'
    <3>1. \A k \in Tasks : Stopping(k, e)' = Stopping(k, e)
      BY <1>1 DEF Stopping
    <3>2. CASE e = d
      <4>1. ~ Marked(e) /\ canceller[e].phase # "signalled"
        BY <1>1, <1>5, <2>1, <3>2 DEF Marked, c
      <4>2. WorkedOn(e)
        BY <1>5, <2>1 DEF IInv, GeneratingIsWorkedOn, In
      <4>3. \/ e \in abandoned \cup Refused
            \/ \E k \in Tasks : Stopping(k, e)
            \/ \E j \in Jobs : OnIt(j, e)
        BY <4>1, <4>2 DEF WorkedOn
      <4>4. Refused' = Refused /\ \A j \in Jobs : OnIt(j, e)' = OnIt(j, e)
        BY <1>1 DEF Refused, OnIt
      <4>5. QED
        BY <1>1, <3>1, <4>3, <4>4 DEF WorkedOn
    <3>3. CASE e # d
      BY <1>3, <3>1, <3>3
    <3>4. QED
      BY <3>2, <3>3
  <2>2. QED
    BY <1>6, <2>1, RowsKeepWorked
<1>9. TaskIsRolledUp'
  <2> SUFFICES ASSUME lost = {}, NEW k \in Running \ other, k \notin c.tasks PROVE Counts(k)'
    BY <1>1, <1>4 DEF TaskIsRolledUp
  <2>1. Counts(k)
    BY DEF IInv, TaskIsRolledUp
  <2>2. CASE \E e \in Designs :
               \/ canceller[e].phase = "signalled"
               \/ canceller[e].phase = "counted" /\ k \in canceller[e].tasks
    <3>1. PICK e \in Designs : \/ canceller[e].phase = "signalled"
                               \/ canceller[e].phase = "counted" /\ k \in canceller[e].tasks
      BY <2>2
    <3>2. e # d
      BY <1>1, <3>1 DEF c
    <3>3. QED
      BY <1>3, <3>1, <3>2 DEF Counts
  <2>3. QED
    BY <1>1, <2>1, <2>2 DEF Counts, Settling
<1>10. QED
  BY <1>7, <1>8, <1>9 DEF IInv

\* It fails: its design is abandoned, and its count is lost.
LEMMA CancelFailsStep ==
  ASSUME IInv, NEW d \in Designs, CancelFails(d)
  PROVE  IInv'
<1>1. /\ canceller' = [canceller EXCEPT ![d] = NoCancel]
      /\ abandoned' = abandoned \cup ({d} \cap In("generating"))
      /\ lost' = lost \cup {"excused"}
      /\ UNCHANGED <<design, link, task, other, owner, job, subject, found, signalled, request,
                     stopper, requests>>
  BY DEF CancelFails, taskVars, jobVars
<1>2. /\ \A e \in Designs \ {d} : canceller'[e] = canceller[e]
      /\ canceller' \in [Designs -> Cancels]
  BY <1>1 DEF IInv, FanoutTypeOK, Cancels
<1>3. RowFrame
  BY <1>1, <1>2 DEF RowFrame, Running, IInv, FanoutTypeOK, Shape
<1>4. FanoutTypeOK' /\ Shape'
  BY <1>3, RowsKeepShape
<1>5. GeneratingIsWorkedOn'
  <2>1. ASSUME NEW e \in Designs, design'[e] = "generating"
        PROVE  \/ WorkedOn(e)'
               \/ /\ canceller'[e] = canceller[e]
                  /\ \A k \in Tasks : Stopping(k, e) => Stopping(k, e)' \/ e \in abandoned'
    <3>1. CASE e = d
      BY <1>1, <2>1, <3>1 DEF WorkedOn, In
    <3>2. CASE e # d
      BY <1>1, <1>2, <3>2 DEF Stopping
    <3>3. QED
      BY <3>1, <3>2
  <2>2. QED
    BY <1>3, <2>1, RowsKeepWorked
<1>6. TaskIsRolledUp'
  BY <1>1 DEF TaskIsRolledUp
<1>7. QED
  BY <1>4, <1>5, <1>6 DEF IInv

\* The commit of a task's cancellation: the design of its job fails with the task, or is
\* abandoned, should the row name another job.
LEMMA CancelTaskCommitsStep ==
  ASSUME IInv, NEW k \in Tasks, CancelTaskCommits(k)
  PROVE  IInv'
<1> DEFINE first == stopper[k].first
           missed == Subjects(first) \ Named(first)
<1>1. /\ stopper[k].phase = "signalled"
      /\ design' = [d \in Designs |-> IF d \in Named(first) THEN "failed" ELSE design[d]]
      /\ task' = IF k \in Running THEN [task EXCEPT ![k] = "failed"] ELSE task
      /\ abandoned' = abandoned \cup missed
      /\ lost' = lost \cup (IF k \notin Running \/ missed # {} THEN {"excused"} ELSE {})
      /\ stopper' = [stopper EXCEPT ![k] = NoCancel]
      /\ UNCHANGED <<link, other, owner, job, subject, found, signalled, request, canceller,
                     requests>>
  BY DEF CancelTaskCommits, jobVars
<1>2. missed \subseteq Designs
  BY DEF Subjects, In
<1>3. \A d \in Designs : design[d] = "generating" /\ first # Nothing /\ subject[first] = d =>
        d \in Named(first) \/ d \in missed
  BY DEF Subjects, In
<1> HIDE DEF first, missed
<1>4. /\ stopper'[k] = NoCancel /\ \A l \in Tasks \ {k} : stopper'[l] = stopper[l]
      /\ stopper' \in [Tasks -> Stops]
  BY <1>1 DEF IInv, FanoutTypeOK, Stops
<1>5. /\ Running' = Running \ {k}
      /\ task' \in [Tasks -> {"none", "running", "completed", "failed"}]
      /\ \A l \in Tasks : task[l] # "none" => task'[l] # "none"
  BY <1>1 DEF Running, IInv, FanoutTypeOK
<1>6. RowFrame
  <2>1. /\ design' \in [Designs -> {"none", "generating", "ready", "failed"}]
        /\ \A d \in Designs : design'[d] = "generating" =>
              design[d] = "generating" /\ d \notin Named(first)
    BY <1>1 DEF IInv, FanoutTypeOK
  <2>2. /\ lost \subseteq lost' /\ lost' \subseteq {"excused", "blind"}
        /\ abandoned \subseteq abandoned' /\ abandoned' \subseteq Designs
        /\ abandoned' # abandoned => lost' # {}
    BY <1>1, <1>2 DEF IInv, FanoutTypeOK
  <2>3. QED
    BY <1>1, <1>4, <1>5, <2>1, <2>2 DEF RowFrame, IInv, FanoutTypeOK, Shape
<1>7. FanoutTypeOK' /\ Shape'
  BY <1>6, RowsKeepShape
<1>8. GeneratingIsWorkedOn'
  <2>1. ASSUME NEW e \in Designs, design'[e] = "generating", NEW l \in Tasks, Stopping(l, e)
        PROVE  Stopping(l, e)' \/ e \in abandoned'
    <3>1. design[e] = "generating" /\ e \notin Named(first)
      BY <1>1, <2>1
    <3>2. CASE l = k
      BY <1>1, <1>3, <2>1, <3>1, <3>2 DEF Stopping, first
    <3>3. CASE l # k
      BY <1>1, <1>4, <2>1, <3>3 DEF Stopping
    <3>4. QED
      BY <3>2, <3>3
  <2>2. QED
    BY <1>1, <1>6, <2>1, RowsKeepWorked
<1>9. TaskIsRolledUp'
  <2> SUFFICES ASSUME lost' = {} PROVE Running' = {}
    BY DEF TaskIsRolledUp
  <2>1. k \in Running
    BY <1>1
  <2>2. QED
    BY <1>5, <2>1 DEF IInv, Shape, Running
<1>10. QED
  BY <1>7, <1>8, <1>9 DEF IInv

\* It fails: the design of its job is abandoned.
LEMMA CancelTaskFailsStep ==
  ASSUME IInv, NEW k \in Tasks, CancelTaskFails(k)
  PROVE  IInv'
<1> DEFINE first == stopper[k].first
<1>1. /\ stopper[k].phase = "signalled"
      /\ abandoned' = abandoned \cup Subjects(first) /\ lost' = lost \cup {"excused"}
      /\ stopper' = [stopper EXCEPT ![k] = NoCancel]
      /\ UNCHANGED <<design, link, task, other, owner, job, subject, found, signalled, request,
                     canceller, requests>>
  BY DEF CancelTaskFails, taskVars, jobVars
<1>2. Subjects(first) \subseteq Designs
  BY DEF Subjects, In
<1>3. \A d \in Designs : design[d] = "generating" /\ first # Nothing /\ subject[first] = d =>
        d \in Subjects(first)
  BY DEF Subjects, In
<1> HIDE DEF first
<1>4. /\ stopper'[k] = NoCancel /\ \A l \in Tasks \ {k} : stopper'[l] = stopper[l]
      /\ stopper' \in [Tasks -> Stops]
  BY <1>1 DEF IInv, FanoutTypeOK, Stops
<1>5. RowFrame
  BY <1>1, <1>2, <1>4 DEF RowFrame, Running, IInv, FanoutTypeOK, Shape
<1>6. FanoutTypeOK' /\ Shape'
  BY <1>5, RowsKeepShape
<1>7. GeneratingIsWorkedOn'
  <2>1. ASSUME NEW e \in Designs, design'[e] = "generating", NEW l \in Tasks, Stopping(l, e)
        PROVE  Stopping(l, e)' \/ e \in abandoned'
    <3>1. CASE l = k
      BY <1>1, <1>3, <2>1, <3>1 DEF Stopping, first
    <3>2. CASE l # k
      BY <1>1, <1>4, <2>1, <3>2 DEF Stopping
    <3>3. QED
      BY <3>1, <3>2
  <2>2. QED
    BY <1>1, <1>5, <2>1, RowsKeepWorked
<1>8. TaskIsRolledUp'
  BY <1>1 DEF TaskIsRolledUp
<1>9. QED
  BY <1>6, <1>7, <1>8 DEF IInv

\* Jobs are signalled: none that a request has yet to link.
LEMMA SignalsKeepShape ==
  ASSUME IInv, NEW J \in SUBSET Jobs, \A u \in Users : J \cap request[u].queued = {}, Signals(J),
         UNCHANGED <<design, link, task, other, owner, subject, found, request, lost, abandoned>>,
         requests' \in 0 .. MaxRequests,
         canceller' \in [Designs -> Cancels], stopper' \in [Tasks -> Stops],
         \A k \in Tasks : stopper'[k].phase = "signalled" /\ stopper'[k].first # Nothing =>
            stopper'[k].first \in Jobs /\ job[stopper'[k].first] # "none"
  PROVE  /\ FanoutTypeOK' /\ Shape'
         /\ \A j \in Jobs \ J : job'[j] = job[j] /\ (j \in signalled' <=> j \in signalled)
<1>1. /\ job' \in [Jobs -> Steps] /\ signalled' \subseteq Jobs
      /\ \A j \in Jobs : job'[j] = "none" <=> job[j] = "none"
      /\ \A j \in signalled' : j \in signalled \/ (j \in J /\ job[j] # "none")
  BY DEF Signals, Busy, Steps, IInv, FanoutTypeOK
<1>2. \A j \in Jobs \ J : job'[j] = job[j] /\ (j \in signalled' <=> j \in signalled)
  BY DEF Signals, IInv, FanoutTypeOK
<1>3. FanoutTypeOK'
  BY <1>1 DEF IInv, FanoutTypeOK
<1>4. JobShape'
  <2>1. \A i, l \in Jobs : job'[i] = "none" /\ i <= l => job'[l] = "none"
    BY <1>1 DEF IInv, Shape, JobShape
  <2>2. \A i \in Jobs : job'[i] # "none" => subject'[i] \in Designs
    BY <1>1 DEF IInv, Shape, JobShape
  <2>3. \A d \in Designs : link'[d] # Nothing =>
          job'[link'[d]] # "none" /\ subject'[link'[d]] = d
    BY <1>1 DEF IInv, Shape, JobShape, FanoutTypeOK
  <2>4. \A k \in Tasks : owner'[k] # Nothing => job'[owner'[k]] # "none"
    BY <1>1 DEF IInv, Shape, JobShape, FanoutTypeOK
  <2>5. \A i \in signalled' : job'[i] # "none"
    BY <1>1 DEF IInv, Shape, JobShape, FanoutTypeOK
  <2>6. \A k \in Tasks : stopper'[k].phase = "signalled" /\ stopper'[k].first # Nothing =>
          job'[stopper'[k].first] # "none"
    BY <1>1
  <2>7. QED
    BY <2>1, <2>2, <2>3, <2>4, <2>5, <2>6 DEF JobShape
<1>5. ASSUME NEW u \in Users PROVE RequestShape(request[u])'
  <2>1. RequestShape(request[u]) /\ request[u].queued \subseteq Jobs /\ request'[u] = request[u]
    BY AskFields DEF IInv, Shape
  <2>2. \A i \in request[u].queued : i \notin signalled'
    BY <1>1, <2>1 DEF RequestShape
  <2>3. QED
    BY <1>1, <2>1, <2>2 DEF RequestShape
<1>6. Shape'
  BY <1>4, <1>5 DEF IInv, Shape, Running
<1>7. QED
  BY <1>2, <1>3, <1>6

\* A cancellation signals the job of its design.
LEMMA CancelSignalsStep ==
  ASSUME IInv, NEW d \in Designs, CancelSignals(d)
  PROVE  IInv'
<1> DEFINE J == {link[d]} \ {Nothing}
<1>1. /\ requests' \in 0 .. MaxRequests /\ Signals(J)
      /\ canceller' = [canceller EXCEPT ![d] = [phase |-> "signalled"]]
      /\ UNCHANGED <<design, link, task, other, owner, subject, found, request, stopper, lost,
                     abandoned>>
  BY FanoutAssumption DEF CancelSignals, Asked, IInv, FanoutTypeOK, taskVars, history
<1>2. J \in SUBSET Jobs /\ \A u \in Users : J \cap request[u].queued = {}
  BY AskFields DEF IInv, FanoutTypeOK, Shape, RequestShape
<1>3. /\ canceller'[d].phase = "signalled"
      /\ \A e \in Designs \ {d} : canceller'[e] = canceller[e]
      /\ canceller' \in [Designs -> Cancels]
  BY <1>1 DEF IInv, FanoutTypeOK, Cancels
<1>4. \A j \in J : subject[j] = d
  BY DEF IInv, Shape, JobShape
<1> HIDE DEF J
<1>5. /\ FanoutTypeOK' /\ Shape'
      /\ \A j \in Jobs \ J : job'[j] = job[j] /\ (j \in signalled' <=> j \in signalled)
  <2>1. /\ stopper' \in [Tasks -> Stops]
        /\ \A k \in Tasks : stopper'[k].phase = "signalled" /\ stopper'[k].first # Nothing =>
              stopper'[k].first \in Jobs /\ job[stopper'[k].first] # "none"
    BY <1>1, StopFields DEF IInv, FanoutTypeOK, Shape, JobShape
  <2>2. QED
    BY <1>1, <1>2, <1>3, <2>1, SignalsKeepShape
<1>6. GeneratingIsWorkedOn'
  <2> SUFFICES ASSUME NEW e \in Designs, design[e] = "generating" PROVE WorkedOn(e)'
    BY <1>1 DEF GeneratingIsWorkedOn, In
  <2>1. CASE e = d
    BY <1>3, <2>1 DEF WorkedOn
  <2>2. CASE e # d
    <3>1. WorkedOn(e) /\ Refused' = Refused /\ \A k \in Tasks : Stopping(k, e)' = Stopping(k, e)
      BY <1>1 DEF IInv, GeneratingIsWorkedOn, In, Refused, Stopping
    <3>2. ASSUME NEW j \in Jobs, OnIt(j, e) PROVE OnIt(j, e)'
      <4>1. j \notin J
        BY <1>4, <2>2, <3>2 DEF OnIt
      <4>2. QED
        BY <1>1, <1>5, <3>2, <4>1 DEF OnIt
    <3>3. QED
      BY <1>1, <1>3, <2>2, <3>1, <3>2, StillWorkedOn
  <2>3. QED
    BY <2>1, <2>2
<1>7. TaskIsRolledUp'
  BY <1>3 DEF TaskIsRolledUp, Counts
<1>8. QED
  BY <1>5, <1>6, <1>7 DEF IInv

\* The cancellation of a task signals its first job, and will see to that job's design.
LEMMA CancelTaskSignalsStep ==
  ASSUME IInv, NEW k \in Tasks, CancelTaskSignals(k)
  PROVE  IInv'
<1> DEFINE J == {owner[k]} \ {Nothing}
           s == [phase |-> "signalled", first |-> owner[k]]
<1>1. /\ requests' \in 0 .. MaxRequests /\ Signals(J)
      /\ stopper' = [stopper EXCEPT ![k] = s] /\ stopper[k] = NoCancel
      /\ UNCHANGED <<design, link, task, other, owner, subject, found, request, canceller, lost,
                     abandoned>>
  BY FanoutAssumption DEF CancelTaskSignals, Asked, IInv, FanoutTypeOK, taskVars, history
<1>2. J \in SUBSET Jobs /\ \A u \in Users : J \cap request[u].queued = {}
  BY AskFields DEF IInv, FanoutTypeOK, Shape, RequestShape
<1>3. /\ s \in Stops /\ s.phase = "signalled" /\ s.first = owner[k]
      /\ owner[k] \in Jobs \cup {Nothing} /\ (owner[k] # Nothing => job[owner[k]] # "none")
  BY DEF IInv, FanoutTypeOK, Shape, JobShape, Stops
<1>4. \A j \in J : j = owner[k] /\ j # Nothing
  OBVIOUS
<1> HIDE DEF J, s
<1>5. /\ stopper'[k] = s /\ stopper' \in [Tasks -> Stops]
      /\ \A l \in Tasks \ {k} : stopper'[l] = stopper[l]
  BY <1>1, <1>3 DEF IInv, FanoutTypeOK
<1>6. /\ FanoutTypeOK' /\ Shape'
      /\ \A j \in Jobs \ J : job'[j] = job[j] /\ (j \in signalled' <=> j \in signalled)
  <2>1. /\ canceller' \in [Designs -> Cancels]
        /\ \A l \in Tasks : stopper'[l].phase = "signalled" /\ stopper'[l].first # Nothing =>
              stopper'[l].first \in Jobs /\ job[stopper'[l].first] # "none"
    BY <1>1, <1>3, <1>5, StopFields DEF IInv, FanoutTypeOK, Shape, JobShape
  <2>2. QED
    BY <1>1, <1>2, <1>5, <2>1, SignalsKeepShape
<1>7. GeneratingIsWorkedOn'
  <2> SUFFICES ASSUME NEW e \in Designs, design[e] = "generating" PROVE WorkedOn(e)'
    BY <1>1 DEF GeneratingIsWorkedOn, In
  <2>1. CASE \E j \in J : subject[j] = e
    BY <1>1, <1>3, <1>4, <1>5, <2>1 DEF WorkedOn, Stopping
  <2>2. CASE ~ \E j \in J : subject[j] = e
    <3>1. WorkedOn(e) /\ Refused' = Refused
      BY <1>1 DEF IInv, GeneratingIsWorkedOn, In, Refused
    <3>2. \A l \in Tasks : Stopping(l, e) => Stopping(l, e)'
      BY <1>1, <1>5 DEF Stopping, NoCancel
    <3>3. ASSUME NEW j \in Jobs, OnIt(j, e) PROVE OnIt(j, e)'
      <4>1. j \notin J
        BY <2>2, <3>3 DEF OnIt
      <4>2. QED
        BY <1>1, <1>6, <3>3, <4>1 DEF OnIt
    <3>4. QED
      BY <1>1, <3>1, <3>2, <3>3, StillWorkedOn
  <2>3. QED
    BY <2>1, <2>2
<1>8. TaskIsRolledUp'
  BY <1>3, <1>5 DEF TaskIsRolledUp, Counts
<1>9. QED
  BY <1>6, <1>7, <1>8 DEF IInv

-----------------------------------------------------------------------------
(* Requests.                                                                    *)

\* One request goes on, the others stay.
LEMMA OneRequest ==
  ASSUME FanoutTypeOK, NEW u \in Users, NEW r, request' = [request EXCEPT ![u] = r]
  PROVE  /\ request'[u] = r /\ \A v \in Users \ {u} : request'[v] = request[v]
         /\ \A d \in Refused : d \in Refused' \/ d \in request[u].refused
<1>1. request'[u] = r /\ \A v \in Users \ {u} : request'[v] = request[v]
  BY DEF FanoutTypeOK
<1>2. ASSUME NEW d \in Refused, d \notin request[u].refused PROVE d \in Refused'
  <2>1. PICK v \in Users : d \in request[v].refused
    BY DEF Refused
  <2>2. d \in request'[v].refused
    BY <1>1, <1>2, <2>1
  <2>3. QED
    BY <2>2 DEF Refused
<1>3. QED
  BY <1>1, <1>2

\* A request goes on without a job of its own, or ends; rows may be linked to the jobs it
\* has queued.
AskFrame(u, r) ==
    /\ request' = [request EXCEPT ![u] = r] /\ r \in Asks
    /\ r.queued = {} /\ r.refused = {} /\ r.kind \notin {"fanout", "regenerate"}
    /\ r.kind = "none" => r = NoRequest
    /\ r.kind = "flushed" => r.target \in Designs
    /\ UNCHANGED <<other, job, subject, found, signalled, canceller, stopper>>
    /\ requests' \in 0 .. MaxRequests
    /\ design' \in [Designs -> {"none", "generating", "ready", "failed"}]
    /\ link' \in [Designs -> Jobs \cup {Nothing}]
    /\ \A d \in Designs : \/ link'[d] = link[d]
                          \/ link'[d] \in request[u].queued /\ subject[link'[d]] = d
    /\ owner' \in [Tasks -> Jobs \cup {Nothing}]
    /\ \A k \in Tasks : owner'[k] = owner[k] \/ owner'[k] \in request[u].queued
    /\ task' \in [Tasks -> {"none", "running", "completed", "failed"}]
    /\ \A k \in Tasks : task[k] # "none" => task'[k] # "none"
    /\ Running' \subseteq Running
    /\ lost \subseteq lost' /\ lost' \subseteq {"excused", "blind"} /\ abandoned' \subseteq Designs
    /\ abandoned' # {} => lost' # {}

\* Types and shape stay.
LEMMA AskKeepsShape ==
  ASSUME IInv, NEW u \in Users, NEW r, AskFrame(u, r)
  PROVE  FanoutTypeOK' /\ Shape'
<1>1. request'[u] = r /\ \A v \in Users \ {u} : request'[v] = request[v]
  BY OneRequest DEF AskFrame, IInv
<1>2. \A k, l \in Running' : k = l
  BY DEF AskFrame, IInv, Shape
<1>3. FanoutTypeOK'
  <2>1. Cardinality(Running') <= 1
    BY <1>2, AtMostOne
  <2>2. request' \in [Users -> Asks]
    BY DEF AskFrame, IInv, FanoutTypeOK
  <2>3. QED
    BY <2>1, <2>2 DEF AskFrame, IInv, FanoutTypeOK, Running
<1>4. \A j \in request[u].queued : job[j] # "none"
  BY DEF IInv, Shape, RequestShape
<1>5. JobShape'
  <2>1. \A d \in Designs : link'[d] # Nothing => job'[link'[d]] # "none" /\ subject'[link'[d]] = d
    BY <1>4 DEF AskFrame, IInv, Shape, JobShape
  <2>2. \A k \in Tasks : owner'[k] # Nothing => job'[owner'[k]] # "none"
    BY <1>4 DEF AskFrame, IInv, Shape, JobShape
  <2>3. QED
    BY <2>1, <2>2 DEF AskFrame, IInv, Shape, JobShape
<1>6. ASSUME NEW v \in Users PROVE RequestShape(request[v])'
  <2>1. CASE v = u
    BY <1>1, <2>1 DEF AskFrame, RequestShape, NoRequest
  <2>2. CASE v # u
    <3>1. RequestShape(request[v]) /\ request'[v] = request[v]
      BY <1>1, <2>2 DEF IInv, Shape
    <3>2. \A j \in request[v].queued : j \notin request[u].queued
      BY <2>2 DEF IInv, Shape
    <3>3. QED
      BY <3>1, <3>2 DEF AskFrame, RequestShape
  <2>3. QED
    BY <2>1, <2>2
<1>7. \A v, w \in Users : \A j \in request'[v].queued : j \in request'[w].queued => v = w
  BY <1>1 DEF AskFrame, IInv, Shape
<1>8. QED
  BY <1>2, <1>3, <1>5, <1>6, <1>7 DEF AskFrame, IInv, Shape

\* A design stays worked on, unless the request had refused it or just begins it.
LEMMA AskKeepsWorked ==
  ASSUME IInv, NEW u \in Users, NEW r, AskFrame(u, r),
         \A d \in Designs : design'[d] = "generating" =>
            \/ WorkedOn(d)'
            \/ /\ design[d] = "generating"
               /\ d \in abandoned \cup request[u].refused => d \in abandoned'
  PROVE  GeneratingIsWorkedOn'
<1> SUFFICES ASSUME NEW d \in Designs, design'[d] = "generating", ~ WorkedOn(d)' PROVE FALSE
  BY DEF GeneratingIsWorkedOn, In
<1>1. design[d] = "generating" /\ (d \in abandoned \cup request[u].refused => d \in abandoned')
  OBVIOUS
<1>2. WorkedOn(d)
  BY <1>1 DEF IInv, GeneratingIsWorkedOn, In
<1>3. d \in Refused => d \in Refused' \/ d \in abandoned'
  BY <1>1, OneRequest DEF AskFrame, IInv
<1>4. /\ \A k \in Tasks : Stopping(k, d)' = Stopping(k, d)
      /\ \A j \in Jobs : OnIt(j, d)' = OnIt(j, d)
      /\ canceller'[d] = canceller[d]
  BY DEF AskFrame, Stopping, OnIt
<1>5. QED
  BY <1>1, <1>2, <1>3, <1>4, StillWorkedOn

\* A task stays counted, unless this request was to settle it.
LEMMA AskKeepsRolledUp ==
  ASSUME IInv, NEW u \in Users, NEW r, AskFrame(u, r),
         lost' = {} /\ request[u].kind = "fanout" /\ request[u].queued = {} =>
            request[u].made \notin Running'
  PROVE  TaskIsRolledUp'
<1> SUFFICES ASSUME lost' = {}, NEW k \in Running' \ other PROVE Counts(k)'
  BY DEF TaskIsRolledUp, AskFrame
<1>1. Counts(k)
  BY DEF AskFrame, IInv, TaskIsRolledUp
<1>2. \A v \in Users \ {u} : request'[v] = request[v]
  BY OneRequest DEF AskFrame, IInv
<1>3. CASE \E v \in Users :
             request[v].kind = "fanout" /\ request[v].queued = {} /\ request[v].made = k
  <2>1. PICK v \in Users :
          request[v].kind = "fanout" /\ request[v].queued = {} /\ request[v].made = k
    BY <1>3
  <2>2. v # u
    BY <2>1
  <2>3. QED
    BY <1>2, <2>1, <2>2 DEF Counts
<1>4. QED
  BY <1>1, <1>3 DEF Counts, Settling, AskFrame

\* A fan-out links its jobs, and what was refused is given up.
LEMMA LinksStep ==
  ASSUME IInv, NEW u \in Users, Links(u)
  PROVE  IInv'
<1> DEFINE r == request[u]
<1>1. /\ r.kind = "fanout" /\ request' = [request EXCEPT ![u] = NoRequest]
      /\ link' = [d \in Designs |-> LinkOf(u, d)]
      /\ design' = [d \in Designs |-> IF d \in r.refused THEN "failed" ELSE design[d]]
      /\ UNCHANGED <<other, job, subject, found, signalled, canceller, stopper, requests, lost,
                     abandoned>>
  BY DEF Links, Answered, jobVars, cancels, history
<1>2. /\ task' \in [Tasks -> {"none", "running", "completed", "failed"}]
      /\ \A k \in Tasks : task[k] # "none" => task'[k] # "none"
      /\ Running' \subseteq Running
      /\ r.queued = {} => r.made \notin Running'
  BY DEF Links, Running, IInv, FanoutTypeOK
<1>3. r.queued \subseteq Jobs /\ RequestShape(r)
  BY AskFields DEF IInv, Shape
<1>4. \A k \in Tasks : owner'[k] = owner[k] \/ owner'[k] \in r.queued
  <2>1. CASE r.queued = {}
    BY <2>1 DEF Links
  <2>2. CASE r.queued # {}
    <3> DEFINE first == CHOOSE j \in r.queued : \A i \in r.queued : j <= i
    <3>1. first \in r.queued
      BY <1>3, <2>2 DEF RequestShape
    <3>2. owner' = [k \in Tasks |-> IF k = r.made THEN first ELSE owner[k]]
      BY <2>2 DEF Links
    <3> HIDE DEF first
    <3>3. QED
      BY <3>1, <3>2
  <2>3. QED
    BY <2>1, <2>2
<1>5. owner' \in [Tasks -> Jobs \cup {Nothing}]
  <2>1. owner' = [k \in Tasks |-> owner'[k]]
    BY DEF Links, IInv, FanoutTypeOK
  <2>2. \A k \in Tasks : owner'[k] \in Jobs \cup {Nothing}
    BY <1>3, <1>4 DEF IInv, FanoutTypeOK
  <2>3. QED
    BY <2>1, <2>2
<1>6. ASSUME NEW d \in Designs
      PROVE  link'[d] = link[d] \/ (link'[d] \in r.queued /\ subject[link'[d]] = d)
  <2> DEFINE mine == {j \in r.queued : subject[j] = d}
  <2>1. link'[d] = IF mine = {} THEN link[d] ELSE CHOOSE j \in mine : TRUE
    BY <1>1 DEF LinkOf
  <2>2. CASE mine # {}
    <3>1. link'[d] \in mine
      BY <2>1, <2>2
    <3>2. QED
      BY <3>1
  <2>3. QED
    BY <2>1, <2>2
<1>7. link' \in [Designs -> Jobs \cup {Nothing}]
  BY <1>1, <1>3, <1>6 DEF IInv, FanoutTypeOK
<1>8. NoRequest \in Asks /\ NoRequest.kind = "none" /\ NoRequest.queued = {}
        /\ NoRequest.refused = {}
  BY DEF NoRequest, Asks
<1>9. design' \in [Designs -> {"none", "generating", "ready", "failed"}]
  BY <1>1 DEF IInv, FanoutTypeOK
<1>10. AskFrame(u, NoRequest)
  BY <1>1, <1>2, <1>4, <1>5, <1>6, <1>7, <1>8, <1>9 DEF AskFrame, IInv, FanoutTypeOK, Shape
<1>11. FanoutTypeOK' /\ Shape'
  BY <1>10, AskKeepsShape
<1>12. GeneratingIsWorkedOn'
  <2>1. \A d \in Designs : design'[d] = "generating" =>
          design[d] = "generating" /\ (d \in abandoned \cup r.refused => d \in abandoned')
    BY <1>1
  <2>2. QED
    BY <1>10, <2>1, AskKeepsWorked
<1>13. TaskIsRolledUp'
  BY <1>2, <1>10, AskKeepsRolledUp
<1>14. QED
  BY <1>11, <1>12, <1>13 DEF IInv

\* A step of a request that leaves designs, links and tasks alone.
LEMMA AskStep ==
  ASSUME IInv, NEW u \in Users, NEW r, AskFrame(u, r), UNCHANGED <<design, task>>,
         abandoned \cup request[u].refused \subseteq abandoned',
         request[u].kind = "fanout" /\ request[u].queued = {} => lost' # {}
  PROVE  IInv'
<1>1. FanoutTypeOK' /\ Shape'
  BY AskKeepsShape
<1>2. GeneratingIsWorkedOn'
  BY AskKeepsWorked
<1>3. TaskIsRolledUp'
  BY AskKeepsRolledUp
<1>4. QED
  BY <1>1, <1>2, <1>3 DEF IInv

\* The second commit of a fan-out fails: what was refused is abandoned.
LEMMA LinksFailStep ==
  ASSUME IInv, NEW u \in Users, LinksFail(u)
  PROVE  IInv'
<1>1. /\ request' = [request EXCEPT ![u] = NoRequest]
      /\ abandoned' = abandoned \cup request[u].refused
      /\ lost' = lost \cup (IF request[u].queued = {} \/ request[u].refused # {}
                            THEN {"excused"} ELSE {})
      /\ UNCHANGED <<design, link, task, other, owner, job, subject, found, signalled, canceller,
                     stopper, requests>>
  BY DEF LinksFail, Answered, taskVars, jobVars, cancels
<1>2. NoRequest \in Asks /\ NoRequest.kind = "none" /\ NoRequest.queued = {}
        /\ NoRequest.refused = {}
  BY DEF NoRequest, Asks
<1>3. request[u].refused \subseteq Designs
  BY AskFields DEF IInv
<1>4. /\ lost \subseteq lost' /\ lost' \subseteq {"excused", "blind"} /\ abandoned' \subseteq Designs
      /\ abandoned' # {} => lost' # {}
  BY <1>1, <1>3 DEF IInv, FanoutTypeOK, Shape
<1>5. AskFrame(u, NoRequest)
  BY <1>1, <1>2, <1>4 DEF AskFrame, Running, IInv, FanoutTypeOK
<1>6. request[u].kind = "fanout" /\ request[u].queued = {} => lost' # {}
  BY <1>1
<1>7. QED
  BY <1>1, <1>5, <1>6, AskStep

\* A regeneration flushes its row.
LEMMA RegenerateStep ==
  ASSUME IInv, NEW u \in Users, NEW d \in Designs, Regenerate(u, d)
  PROVE  IInv'
<1> DEFINE r == [NoRequest EXCEPT !.kind = "flushed", !.target = d,
                                  !.wrote = design[d] # "generating"]
<1>1. /\ request[u] = NoRequest /\ requests' \in 0 .. MaxRequests
      /\ request' = [request EXCEPT ![u] = r]
      /\ UNCHANGED <<design, link, task, other, owner, job, subject, found, signalled, canceller,
                     stopper, lost, abandoned>>
  BY FanoutAssumption
     DEF Regenerate, Idle, Asked, taskVars, jobVars, cancels, history, IInv, FanoutTypeOK
<1>2. r \in Asks /\ r.kind = "flushed" /\ r.queued = {} /\ r.refused = {} /\ r.target \in Designs
  BY DEF NoRequest, Asks
<1> HIDE DEF r
<1>3. AskFrame(u, r)
  BY <1>1, <1>2 DEF AskFrame, Running, IInv, FanoutTypeOK, Shape
<1>4. request[u].kind # "fanout" /\ request[u].refused = {}
  BY <1>1 DEF NoRequest
<1>5. QED
  BY <1>1, <1>3, <1>4, AskStep

\* A regeneration ends in vain.
LEMMA RegenerateFailsStep ==
  ASSUME IInv, NEW u \in Users, RegenerateFails(u)
  PROVE  IInv'
<1>1. /\ request[u].kind # "fanout"
      /\ request' = [request EXCEPT ![u] = NoRequest]
      /\ UNCHANGED <<design, link, task, other, owner, job, subject, found, signalled, canceller,
                     stopper, requests, lost, abandoned>>
  BY DEF RegenerateFails, Answered, taskVars, jobVars, cancels, history
<1>2. NoRequest \in Asks /\ NoRequest.kind = "none" /\ NoRequest.queued = {}
        /\ NoRequest.refused = {}
  BY DEF NoRequest, Asks
<1>3. AskFrame(u, NoRequest)
  BY <1>1, <1>2 DEF AskFrame, Running, IInv, FanoutTypeOK, Shape
<1>4. request[u].refused = {}
  BY <1>1 DEF IInv, Shape, RequestShape
<1>5. QED
  BY <1>1, <1>3, <1>4, AskStep

\* Its commit puts the design into the hands of its job, or finds that it was faster.
LEMMA RegenerateCommitsStep ==
  ASSUME IInv, NEW u \in Users, RegenerateCommits(u)
  PROVE  IInv'
<1> DEFINE r == request[u]
           d == r.target
<1>1. /\ r.kind = "regenerate" /\ request' = [request EXCEPT ![u] = NoRequest]
      /\ UNCHANGED <<task, other, owner, job, subject, found, signalled, canceller, stopper,
                     requests>>
  BY DEF RegenerateCommits, Answered, taskVars, jobVars, cancels
<1>2. PICK j \in r.queued :
        /\ design' = IF r.wrote THEN [design EXCEPT ![d] = "generating"] ELSE design
        /\ link' = [link EXCEPT ![d] = j]
        /\ IF ~ r.wrote
           THEN UNCHANGED history
           ELSE IF job[j] \in {"queued", "agent", "failing"}
           THEN abandoned' = abandoned \ {d} /\ UNCHANGED lost
           ELSE abandoned' = abandoned \cup {d} /\ lost' = lost \cup {"excused"}
  BY DEF RegenerateCommits
<1>3. /\ j \in Jobs /\ d \in Designs /\ subject[j] = d /\ j \notin signalled /\ r.refused = {}
  BY <1>1, AskFields DEF IInv, Shape, RequestShape
<1>4. NoRequest \in Asks /\ NoRequest.kind = "none" /\ NoRequest.queued = {}
        /\ NoRequest.refused = {}
  BY DEF NoRequest, Asks
<1>5. /\ design' \in [Designs -> {"none", "generating", "ready", "failed"}]
      /\ link' \in [Designs -> Jobs \cup {Nothing}] /\ link'[d] = j
      /\ \A e \in Designs \ {d} : design'[e] = design[e] /\ link'[e] = link[e]
      /\ ~ r.wrote => design' = design
  BY <1>2, <1>3 DEF IInv, FanoutTypeOK
<1>6. /\ lost \subseteq lost' /\ lost' \subseteq {"excused", "blind"} /\ abandoned' \subseteq Designs
      /\ abandoned' # {} => lost' # {}
      /\ \A e \in Designs \ {d} : e \in abandoned => e \in abandoned'
      /\ ~ r.wrote => abandoned' = abandoned
      /\ r.wrote => d \in abandoned' \/ job[j] \in {"queued", "agent", "failing"}
  <2>1. CASE ~ r.wrote
    BY <1>2, <2>1 DEF history, IInv, FanoutTypeOK, Shape
  <2>2. CASE r.wrote /\ job[j] \in {"queued", "agent", "failing"}
    BY <1>2, <2>2 DEF IInv, FanoutTypeOK, Shape
  <2>3. CASE r.wrote /\ job[j] \notin {"queued", "agent", "failing"}
    <3>1. abandoned' = abandoned \cup {d} /\ lost' = lost \cup {"excused"}
      BY <1>2, <2>3
    <3>2. lost \subseteq {"excused", "blind"} /\ abandoned \subseteq Designs
      BY DEF IInv, FanoutTypeOK
    <3> HIDE DEF d, r
    <3>3. QED
      BY <1>3, <2>3, <3>1, <3>2
  <2>4. QED
    BY <2>1, <2>2, <2>3, AskFields
<1>7. AskFrame(u, NoRequest)
  BY <1>1, <1>2, <1>3, <1>4, <1>5, <1>6 DEF AskFrame, Running, IInv, FanoutTypeOK
<1>8. FanoutTypeOK' /\ Shape'
  BY <1>7, AskKeepsShape
<1>9. GeneratingIsWorkedOn'
  <2>1. ASSUME NEW e \in Designs, design'[e] = "generating"
        PROVE  \/ WorkedOn(e)'
               \/ /\ design[e] = "generating"
                  /\ e \in abandoned \cup request[u].refused => e \in abandoned'
    <3>1. CASE e # d \/ ~ r.wrote
      BY <1>3, <1>5, <1>6, <2>1, <3>1
    <3>2. CASE e = d /\ r.wrote
      <4>1. subject[j] = e /\ (e \in abandoned' \/ job[j] \in {"queued", "agent", "failing"})
        BY <1>3, <1>6, <3>2
      <4>2. job[j] \in {"queued", "agent", "failing"} => OnIt(j, e)'
        BY <1>1, <1>3, <4>1 DEF OnIt
      <4>3. QED
        BY <1>3, <4>1, <4>2 DEF WorkedOn
    <3>3. QED
      BY <3>1, <3>2, AskFields
  <2>2. QED
    BY <1>7, <2>1, AskKeepsWorked
<1>10. TaskIsRolledUp'
  BY <1>1, <1>7, AskKeepsRolledUp
<1>11. QED
  BY <1>8, <1>9, <1>10 DEF IInv

-----------------------------------------------------------------------------
(* Jobs that are made, and restarts.                                            *)

\* A request makes jobs: J, that nobody has named, of the least numbers.
MakesFrame(u, r, J) ==
    /\ request' = [request EXCEPT ![u] = r] /\ r \in Asks /\ r.queued = J /\ r.kind # "none"
    /\ request[u].queued = {} /\ request[u].refused = {} /\ request[u].kind # "fanout"
    /\ r.kind # "fanout" => r.refused = {}
    /\ r.kind \in {"flushed", "regenerate"} => r.target \in Designs
    /\ r.kind = "flushed" => J = {}
    /\ r.kind = "regenerate" => \A j \in J : subject'[j] = r.target
    /\ J \subseteq Jobs
    /\ J # {} => \E j \in J : \A i \in J : j <= i
    /\ \A j \in J : job[j] = "none" /\ job'[j] = "queued" /\ subject'[j] \in Designs
    /\ \A i \in Jobs, j \in J : i \notin J /\ job[i] = "none" => j <= i
    /\ \A i \in Jobs \ J : job'[i] = job[i] /\ subject'[i] = subject[i]
    /\ job' \in [Jobs -> Steps] /\ subject' \in [Jobs -> Designs \cup {Nothing}]
    /\ UNCHANGED <<link, other, owner, found, signalled, canceller, stopper, lost>>
    /\ requests' \in 0 .. MaxRequests
    /\ design' \in [Designs -> {"none", "generating", "ready", "failed"}]
    /\ task' \in [Tasks -> {"none", "running", "completed", "failed"}]
    /\ \A k \in Tasks : task[k] # "none" => task'[k] # "none"
    /\ \A k, l \in Running' : k = l
    /\ abandoned' \subseteq abandoned

\* Types and shape stay, and nobody had these jobs in hand.
LEMMA MakesKeepsShape ==
  ASSUME IInv, NEW u \in Users, NEW r, NEW J, MakesFrame(u, r, J)
  PROVE  /\ FanoutTypeOK' /\ Shape'
         /\ \A d, j : OnIt(j, d) /\ j \in Jobs => OnIt(j, d)'
         /\ \A k \in Tasks : \A d : Stopping(k, d) => Stopping(k, d)'
         /\ \A j \in Jobs : \A k : Settling(j, k) => Settling(j, k)'
<1>1. request'[u] = r /\ \A v \in Users \ {u} : request'[v] = request[v]
  BY OneRequest DEF MakesFrame, IInv
<1>2. FanoutTypeOK'
  <2>1. Cardinality(Running') <= 1
    BY AtMostOne DEF MakesFrame
  <2>2. request' \in [Users -> Asks]
    BY DEF MakesFrame, IInv, FanoutTypeOK
  <2>3. QED
    BY <2>1, <2>2 DEF MakesFrame, IInv, FanoutTypeOK, Running
<1>3. /\ \A i \in Jobs : job[i] # "none" => i \notin J /\ job'[i] = job[i] /\ subject'[i] = subject[i]
      /\ \A i \in Jobs : job[i] # "none" => job'[i] # "none"
  BY DEF MakesFrame
<1>4. JobShape'
  <2>1. \A i, l \in Jobs : job'[i] = "none" /\ i <= l => job'[l] = "none"
    <3> SUFFICES ASSUME NEW i \in Jobs, NEW l \in Jobs, job'[i] = "none", i <= l
                 PROVE  job'[l] = "none"
      OBVIOUS
    <3>1. i \notin J /\ job[i] = "none"
      BY DEF MakesFrame
    <3>2. job[l] = "none"
      BY <3>1 DEF IInv, Shape, JobShape
    <3>3. CASE l \in J
      <4>1. l <= i
        BY <3>1, <3>3 DEF MakesFrame
      <4>2. l = i
        BY <4>1, Numbers
      <4>3. QED
        BY <3>1, <3>3, <4>2
    <3>4. CASE l \notin J
      BY <3>2, <3>4 DEF MakesFrame
    <3>5. QED
      BY <3>3, <3>4
  <2>2. \A i \in Jobs : job'[i] # "none" => subject'[i] \in Designs
    BY DEF MakesFrame, IInv, Shape, JobShape
  <2>3. \A d \in Designs : link[d] # Nothing => job'[link[d]] # "none" /\ subject'[link[d]] = d
    BY <1>3 DEF IInv, FanoutTypeOK, Shape, JobShape
  <2>4. \A k \in Tasks : owner[k] # Nothing => job'[owner[k]] # "none"
    BY <1>3 DEF IInv, FanoutTypeOK, Shape, JobShape
  <2>5. \A i \in signalled : job'[i] # "none"
    BY <1>3 DEF IInv, FanoutTypeOK, Shape, JobShape
  <2>6. \A k \in Tasks : stopper[k].phase = "signalled" /\ stopper[k].first # Nothing =>
          job'[stopper[k].first] # "none"
    BY <1>3, StopFields DEF IInv, Shape, JobShape
  <2>7. QED
    BY <2>1, <2>2, <2>3, <2>4, <2>5, <2>6 DEF JobShape, MakesFrame
<1>5. \A j \in J : /\ j \notin signalled
                   /\ \A d \in Designs : link[d] # j
                   /\ \A k \in Tasks : owner[k] # j
                   /\ \A v \in Users : j \notin request[v].queued
  <2> SUFFICES ASSUME NEW j \in J
               PROVE  /\ j \notin signalled
                      /\ \A d \in Designs : link[d] # j
                      /\ \A k \in Tasks : owner[k] # j
                      /\ \A v \in Users : j \notin request[v].queued
    OBVIOUS
  <2>1. job[j] = "none" /\ j # Nothing
    BY Numbers DEF MakesFrame
  <2>2. QED
    BY <2>1 DEF IInv, Shape, JobShape, RequestShape
<1>6. ASSUME NEW v \in Users PROVE RequestShape(request[v])'
  <2>1. CASE v = u
    <3>1. \A j \in r.queued : /\ job'[j] # "none" /\ j \notin signalled'
                              /\ \A d \in Designs : link'[d] # j
                              /\ \A k \in Tasks : owner'[k] # j
      BY <1>5 DEF MakesFrame
    <3>2. QED
      BY <1>1, <2>1, <3>1 DEF MakesFrame, RequestShape
  <2>2. CASE v # u
    <3>1. RequestShape(request[v]) /\ request'[v] = request[v] /\ request[v].queued \subseteq Jobs
      BY <1>1, <2>2, AskFields DEF IInv, Shape
    <3>2. \A j \in request[v].queued : job'[j] # "none" /\ subject'[j] = subject[j]
      BY <1>3, <3>1 DEF RequestShape
    <3>3. QED
      BY <3>1, <3>2 DEF MakesFrame, RequestShape
  <2>3. QED
    BY <2>1, <2>2
<1>7. \A v, w \in Users : \A j \in request'[v].queued : j \in request'[w].queued => v = w
  BY <1>1, <1>5 DEF MakesFrame, IInv, Shape
<1>8. abandoned' # {} => lost' # {}
  BY DEF MakesFrame, IInv, Shape
<1>9. Shape'
  BY <1>4, <1>6, <1>7, <1>8 DEF MakesFrame, Shape
<1>10. \A d, j : OnIt(j, d) /\ j \in Jobs => OnIt(j, d)'
  BY <1>3 DEF OnIt, MakesFrame
<1>11. ASSUME NEW k \in Tasks, NEW d, Stopping(k, d) PROVE Stopping(k, d)'
  <2>1. stopper[k].first \in Jobs /\ job[stopper[k].first] # "none"
    BY <1>11, StopFields DEF Stopping, IInv, Shape, JobShape
  <2>2. QED
    BY <1>3, <1>11, <2>1 DEF Stopping, MakesFrame
<1>12. \A j \in Jobs : \A k : Settling(j, k) => Settling(j, k)'
  BY <1>3 DEF Settling, MakesFrame
<1>13. QED
  BY <1>2, <1>9, <1>10, <1>11, <1>12

\* A design stays worked on, unless the request just begins it.
LEMMA MakesKeepsWorked ==
  ASSUME IInv, NEW u \in Users, NEW r, NEW J, MakesFrame(u, r, J),
         \A d \in Designs : design'[d] = "generating" =>
            \/ WorkedOn(d)'
            \/ design[d] = "generating" /\ (d \in abandoned => d \in abandoned')
  PROVE  GeneratingIsWorkedOn'
<1> SUFFICES ASSUME NEW d \in Designs, design'[d] = "generating", ~ WorkedOn(d)' PROVE FALSE
  BY DEF GeneratingIsWorkedOn, In
<1>1. design[d] = "generating" /\ (d \in abandoned => d \in abandoned')
  OBVIOUS
<1>2. WorkedOn(d)
  BY <1>1 DEF IInv, GeneratingIsWorkedOn, In
<1>3. d \in Refused => d \in Refused'
  BY OneRequest DEF MakesFrame, IInv
<1>4. /\ \A k \in Tasks : Stopping(k, d) => Stopping(k, d)'
      /\ \A j \in Jobs : OnIt(j, d) => OnIt(j, d)'
  BY MakesKeepsShape
<1>5. canceller'[d] = canceller[d]
  BY DEF MakesFrame
<1>6. QED
  BY <1>1, <1>2, <1>3, <1>4, <1>5, StillWorkedOn

\* A task that was counted is counted still.
LEMMA MakesKeepsCounts ==
  ASSUME IInv, NEW u \in Users, NEW r, NEW J, MakesFrame(u, r, J), NEW k, Counts(k)
  PROVE  Counts(k)'
<1>1. \A v \in Users \ {u} : request'[v] = request[v]
  BY OneRequest DEF MakesFrame, IInv
<1>2. CASE \E j \in Jobs : Settling(j, k)
  <2>1. \E j \in Jobs : Settling(j, k)'
    BY <1>2, MakesKeepsShape
  <2>2. QED
    BY <2>1 DEF Counts
<1>3. CASE \E v \in Users :
             request[v].kind = "fanout" /\ request[v].queued = {} /\ request[v].made = k
  <2>1. PICK v \in Users :
          request[v].kind = "fanout" /\ request[v].queued = {} /\ request[v].made = k
    BY <1>3
  <2>2. v # u
    BY <2>1 DEF MakesFrame
  <2>3. QED
    BY <1>1, <2>1, <2>2 DEF Counts
<1>4. QED
  BY <1>2, <1>3 DEF Counts, MakesFrame

\* A regeneration queues a job that is not linked yet.
LEMMA RegenerateQueuesStep ==
  ASSUME IInv, NEW u \in Users, RegenerateQueues(u)
  PROVE  IInv'
<1> DEFINE q == request[u]
<1>1. /\ q.kind = "flushed"
      /\ UNCHANGED <<design, link, task, other, owner, found, signalled, canceller, stopper,
                     requests, lost, abandoned>>
  BY DEF RegenerateQueues, taskVars, cancels, history
<1>2. PICK j \in Fresh :
        /\ \A i \in Fresh : i >= j
        /\ job' = [job EXCEPT ![j] = "queued"]
        /\ subject' = [subject EXCEPT ![j] = q.target]
        /\ request' = [request EXCEPT ![u].kind = "regenerate", ![u].queued = {j}]
  BY DEF RegenerateQueues
<1>3. j \in Jobs /\ job[j] = "none" /\ \A i \in Jobs : job[i] = "none" => j <= i
  BY <1>2, Numbers DEF Fresh
<1>4. q \in Asks /\ q.refused = {} /\ q.queued = {} /\ q.target \in Designs
  BY <1>1, AskFields DEF IInv, Shape, RequestShape
<1> DEFINE r == [q EXCEPT !.kind = "regenerate", !.queued = {j}]
<1>5. request' = [request EXCEPT ![u] = r]
  <2>1. request \in [Users -> Asks]
    BY DEF IInv, FanoutTypeOK
  <2>2. QED
    BY <1>2, <1>4, <2>1 DEF Asks
<1>6. /\ r \in Asks /\ r.queued = {j} /\ r.refused = {} /\ r.kind = "regenerate"
      /\ r.target = q.target
  BY <1>3, <1>4 DEF Asks
<1>7. PICK a : a = r
  OBVIOUS
<1>8. /\ request' = [request EXCEPT ![u] = a] /\ a \in Asks /\ a.queued = {j} /\ a.refused = {}
      /\ a.kind = "regenerate" /\ a.target \in Designs /\ subject'[j] = a.target
      /\ job'[j] = "queued" /\ \A i \in Jobs \ {j} : job'[i] = job[i] /\ subject'[i] = subject[i]
      /\ job' \in [Jobs -> Steps] /\ subject' \in [Jobs -> Designs \cup {Nothing}]
  <2>1. /\ request' = [request EXCEPT ![u] = a] /\ a \in Asks /\ a.queued = {j}
        /\ a.refused = {} /\ a.kind = "regenerate" /\ a.target = q.target
    BY <1>5, <1>6, <1>7
  <2>2. "queued" \in Steps
    BY DEF Steps
  <2>3. job \in [Jobs -> Steps] /\ subject \in [Jobs -> Designs \cup {Nothing}]
    BY DEF IInv, FanoutTypeOK
  <2> HIDE DEF q, r
  <2>4. QED
    BY <1>2, <1>3, <1>4, <2>1, <2>2, <2>3
<1> HIDE DEF r
<1>9. MakesFrame(u, a, {j})
  <2>1. \A i \in {j} : i = j
    OBVIOUS
  <2>2. /\ \E i \in {j} : \A l \in {j} : i <= l
        /\ \A k, l \in Running' : k = l
    BY <1>1, <1>3, Numbers DEF Running, IInv, Shape
  <2>3. QED
    BY <1>1, <1>3, <1>4, <1>8, <2>1, <2>2 DEF MakesFrame, IInv, FanoutTypeOK
<1>10. FanoutTypeOK' /\ Shape'
  BY <1>9, MakesKeepsShape
<1>11. GeneratingIsWorkedOn'
  BY <1>1, <1>9, MakesKeepsWorked
<1>12. TaskIsRolledUp'
  <2> SUFFICES ASSUME lost = {}, NEW k \in Running \ other PROVE Counts(k)'
    BY <1>1 DEF TaskIsRolledUp, Running
  <2>1. Counts(k)
    BY DEF IInv, TaskIsRolledUp
  <2>2. QED
    BY <1>9, <2>1, MakesKeepsCounts
<1>13. QED
  BY <1>10, <1>11, <1>12 DEF IInv

\* After a restart nothing generates and no task runs, or the recovery failed.
LEMMA RebootStep ==
  ASSUME IInv, Reboot
  PROVE  IInv'
<1>1. /\ job' = [j \in Jobs |-> IF job[j] = "none" THEN "none" ELSE "ended"]
      /\ found' = [j \in Jobs |-> Nothing]
      /\ signalled' = {} /\ request' = [u \in Users |-> NoRequest]
      /\ canceller' = [d \in Designs |-> NoCancel]
      /\ stopper' = [k \in Tasks |-> NoCancel]
      /\ UNCHANGED <<link, other, owner, subject>> /\ requests' \in 0 .. MaxRequests
  BY FanoutAssumption DEF Reboot, Asked, IInv, FanoutTypeOK
<1>2. /\ task' \in [Tasks -> {"none", "running", "completed", "failed"}]
      /\ \A k \in Tasks : task[k] # "none" => task'[k] # "none"
      /\ Running' \subseteq Running
      /\ design' \in [Designs -> {"none", "generating", "ready", "failed"}]
      /\ lost' \subseteq {"excused", "blind"} /\ abandoned' \subseteq Designs
      /\ abandoned' # {} => lost' # {}
      /\ In("generating")' \subseteq abandoned'
      /\ Running' = {} \/ lost' # {}
  <2>1. CASE /\ task' = [k \in Tasks |-> IF k \in Running THEN "failed" ELSE task[k]]
             /\ design' = [d \in Designs |->
                  IF design[d] = "generating" THEN "failed" ELSE design[d]]
             /\ UNCHANGED history
    BY <2>1 DEF Running, In, history, IInv, FanoutTypeOK, Shape
  <2>2. CASE /\ UNCHANGED <<task, design>>
             /\ abandoned' = abandoned \cup In("generating")
             /\ lost' = lost \cup {"excused"}
    <3>1. In("generating") \subseteq Designs /\ In("generating")' = In("generating")
      BY <2>2 DEF In
    <3>2. QED
      BY <2>2, <3>1 DEF Running, IInv, FanoutTypeOK
  <2>3. QED
    BY <2>1, <2>2 DEF Reboot
<1>3. \A k, l \in Running' : k = l
  BY <1>2 DEF IInv, Shape
<1>4. NoRequest \in Asks /\ NoRequest.queued = {} /\ NoRequest.kind = "none" /\ NoRequest.refused = {}
  BY DEF NoRequest, Asks
<1>5. NoCancel \in Cancels /\ NoCancel \in Stops /\ NoCancel.phase = "none"
  BY DEF NoCancel, Cancels, Stops
<1>6. FanoutTypeOK'
  <2>1. Cardinality(Running') <= 1
    BY <1>3, AtMostOne
  <2>2. job' \in [Jobs -> Steps] /\ found' \in [Jobs -> Tasks \cup {Nothing}]
    BY <1>1 DEF Steps
  <2>3. other' \subseteq {k \in Tasks : task'[k] # "none"}
    BY <1>1, <1>2 DEF IInv, FanoutTypeOK
  <2>4. QED
    BY <1>1, <1>2, <1>4, <1>5, <2>1, <2>2, <2>3 DEF IInv, FanoutTypeOK, Running
<1>7. Shape'
  <2>1. \A j \in Jobs : job'[j] = "none" <=> job[j] = "none"
    BY <1>1
  <2>2. \A d \in Designs : link[d] # Nothing => job'[link[d]] # "none" /\ subject[link[d]] = d
    BY <2>1 DEF IInv, FanoutTypeOK, Shape, JobShape
  <2>3. \A k \in Tasks : owner[k] # Nothing => job'[owner[k]] # "none"
    BY <2>1 DEF IInv, FanoutTypeOK, Shape, JobShape
  <2>4. /\ \A i, j \in Jobs : job'[i] = "none" /\ i <= j => job'[j] = "none"
        /\ \A j \in Jobs : job'[j] # "none" => subject'[j] \in Designs
    BY <1>1, <2>1 DEF IInv, Shape, JobShape
  <2>5. JobShape'
    BY <1>1, <1>5, <2>2, <2>3, <2>4 DEF JobShape
  <2>6. \A u \in Users : RequestShape(request[u])'
    BY <1>1, <1>4 DEF RequestShape
  <2>7. QED
    BY <1>1, <1>2, <1>3, <1>4, <2>5, <2>6 DEF Shape
<1>8. GeneratingIsWorkedOn' /\ TaskIsRolledUp'
  BY <1>2 DEF GeneratingIsWorkedOn, WorkedOn, TaskIsRolledUp
<1>9. QED
  BY <1>6, <1>7, <1>8 DEF IInv


\* The numbers a fan-out gives to the queued ones of its jobs.
Numbered(first, Q) == first .. (first + Cardinality(Q) - 1)

\* All of these numbers are free, and one of them, if there are any, is the least.
LEMMA FreshNumbers ==
  ASSUME IInv, NEW Q \in SUBSET Designs, NEW first \in Fresh, \A j \in Fresh : j >= first,
         Numbered(first, Q) \subseteq Jobs
  PROVE  /\ \A j \in Numbered(first, Q) : job[j] = "none"
         /\ \A i \in Jobs, j \in Numbered(first, Q) :
               i \notin Numbered(first, Q) /\ job[i] = "none" => j <= i
         /\ Numbered(first, Q) # {} => first \in Numbered(first, Q)
         /\ \A i \in Numbered(first, Q) : first <= i
<1> DEFINE ids == Numbered(first, Q)
<1>1. Cardinality(Q) \in Nat
  BY FanoutAssumption, FS_Subset, FS_CardinalityType
<1>2. first \in Jobs /\ first \in Nat /\ job[first] = "none" /\ \A i \in Jobs : i \in Nat
  BY Numbers DEF Fresh
<1> DEFINE n == Cardinality(Q)
<1> HIDE DEF n
<1>3. n \in Nat /\ ids = first .. (first + n - 1) /\ ids \subseteq Jobs
  BY <1>1 DEF n, Numbered
<1> HIDE DEF ids
<1>4. \A i : i \in ids <=> i \in Int /\ first <= i /\ i <= first + n - 1
  <2> DEFINE last == first + n - 1
  <2>1. first \in Int /\ last \in Int /\ ids = first .. last
    BY <1>2, <1>3
  <2> HIDE DEF last
  <2>2. \A i : i \in ids <=> i \in Int /\ first <= i /\ i <= last
    BY ONLY <2>1
  <2>3. QED
    BY <2>2 DEF last
<1>5. \A j \in ids : job[j] = "none"
  BY <1>2, <1>3, <1>4 DEF IInv, Shape, JobShape
<1>6. ASSUME NEW i \in Jobs, i \notin ids, job[i] = "none", NEW j \in ids PROVE j <= i
  <2>1. i \in Nat /\ i >= first /\ j \in Int
    BY <1>2, <1>4, <1>6 DEF Fresh
  <2>2. i > first + n - 1
    BY <1>2, <1>3, <1>4, <1>6, <2>1
  <2>3. j <= first + n - 1
    BY <1>4
  <2>4. QED
    BY <1>2, <1>3, <2>1, <2>2, <2>3
<1>7. (ids # {} => first \in ids) /\ \A i \in ids : first <= i
  BY <1>2, <1>3, <1>4
<1>8. QED
  BY <1>5, <1>6, <1>7 DEF ids

\* A fan-out hands each design to a job of its own, or refuses it; its task is counted by
\* those jobs, or will be given up with them.
LEMMA FanoutStep ==
  ASSUME IInv, NEW u \in Users, NEW D \in SUBSET Designs, NEW new \in Tasks \cup {Nothing},
         new # Nothing => Running = {} /\ task[new] = "none",
         Fanout(u, D, new)
  PROVE  IInv'
<1>1. /\ request[u] = NoRequest /\ requests' \in 0 .. MaxRequests
      /\ design' = [d \in Designs |-> IF d \in D THEN "generating" ELSE design[d]]
      /\ task' = IF new = Nothing THEN task ELSE [task EXCEPT ![new] = "running"]
      /\ abandoned' = abandoned \ D
      /\ UNCHANGED <<link, other, owner, found, signalled, canceller, stopper, lost>>
  BY FanoutAssumption DEF Fanout, Asked, Idle, cancels, IInv, FanoutTypeOK
<1>2. PICK Q \in SUBSET D, first \in Fresh :
        LET ids == first .. (first + Cardinality(Q) - 1)
        IN /\ \A j \in Fresh : j >= first
           /\ ids \subseteq Jobs
           /\ \E of \in [ids -> Q] :
                 /\ \A d \in Q : \E j \in ids : of[j] = d
                 /\ subject' = [j \in Jobs |-> IF j \in ids THEN of[j] ELSE subject[j]]
           /\ job' = [j \in Jobs |-> IF j \in ids THEN "queued" ELSE job[j]]
           /\ request' = [request EXCEPT ![u] =
                 [NoRequest EXCEPT !.kind = "fanout", !.queued = ids,
                                   !.refused = D \ Q, !.made = new]]
  BY DEF Fanout, Enqueued
<1> DEFINE ids == first .. (first + Cardinality(Q) - 1)
           left == D \ Q
           ask == [NoRequest EXCEPT !.kind = "fanout", !.queued = ids,
                                    !.refused = left, !.made = new]
<1>3. /\ ids \subseteq Jobs
      /\ job' = [j \in Jobs |-> IF j \in ids THEN "queued" ELSE job[j]]
      /\ request' = [request EXCEPT ![u] = ask]
  BY <1>2
<1>4. PICK of \in [ids -> Q] :
        /\ \A d \in Q : \E j \in ids : of[j] = d
        /\ subject' = [j \in Jobs |-> IF j \in ids THEN of[j] ELSE subject[j]]
  BY <1>2
<1>5. /\ \A j \in ids : job[j] = "none"
      /\ \A i \in Jobs, j \in ids : i \notin ids /\ job[i] = "none" => j <= i
      /\ ids # {} => \E j \in ids : \A i \in ids : j <= i
  <2>1. first \in Fresh /\ Q \in SUBSET Designs /\ \A j \in Fresh : j >= first
    BY <1>2
  <2>2. ids = first .. (first + Cardinality(Q) - 1) /\ ids \subseteq Jobs
    BY <1>3
  <2> HIDE DEF ids
  <2>3. Numbered(first, Q) = ids
    BY DEF Numbered, ids
  <2>4. QED
    BY ONLY <2>1, <2>2, <2>3, IInv, FreshNumbers
<1> HIDE DEF ids
<1>6. /\ \A j \in ids : job'[j] = "queued" /\ subject'[j] \in Q
      /\ \A j \in Jobs \ ids : job'[j] = job[j] /\ subject'[j] = subject[j]
      /\ job' \in [Jobs -> Steps] /\ subject' \in [Jobs -> Designs \cup {Nothing}]
  BY <1>3, <1>4 DEF Steps, IInv, FanoutTypeOK
<1> HIDE DEF left
<1>7. /\ ask \in Asks /\ ask.kind = "fanout" /\ ask.queued = ids
      /\ ask.refused = left /\ ask.made = new
  <2>1. left \in SUBSET Designs /\ ids \in SUBSET Jobs
    BY <1>3 DEF left
  <2>2. QED
    BY <2>1 DEF NoRequest, Asks
<1>8. PICK r : r = ask
  OBVIOUS
<1>9. /\ request' = [request EXCEPT ![u] = r] /\ r \in Asks /\ r.kind = "fanout"
      /\ r.queued = ids /\ r.refused = left /\ r.made = new
  BY <1>3, <1>7, <1>8
<1> HIDE DEF ask
<1>10. /\ task' \in [Tasks -> {"none", "running", "completed", "failed"}]
       /\ \A k \in Tasks : task[k] # "none" => task'[k] # "none"
       /\ Running' \subseteq Running \cup {new}
       /\ \A k, l \in Running' : k = l
  <2>1. CASE new = Nothing
    BY <1>1, <2>1 DEF Running, IInv, FanoutTypeOK, Shape
  <2>2. CASE new # Nothing
    BY <1>1, <2>2 DEF Running, IInv, FanoutTypeOK
  <2>3. QED
    BY <2>1, <2>2
<1>11. MakesFrame(u, r, ids)
  <2>1. design' \in [Designs -> {"none", "generating", "ready", "failed"}]
    BY <1>1 DEF IInv, FanoutTypeOK
  <2>2. request[u].queued = {} /\ request[u].refused = {} /\ request[u].kind = "none"
    BY <1>1 DEF NoRequest
  <2>3. \A j \in ids : job[j] = "none" /\ job'[j] = "queued" /\ subject'[j] \in Designs
    BY <1>5, <1>6
  <2>4. QED
    BY <1>1, <1>3, <1>5, <1>6, <1>9, <1>10, <2>1, <2>2, <2>3 DEF MakesFrame
<1>12. FanoutTypeOK' /\ Shape'
  BY <1>11, MakesKeepsShape
<1>13. \A j \in ids : j \notin signalled'
  BY <1>1, <1>5 DEF IInv, Shape, JobShape
<1>14. GeneratingIsWorkedOn'
  <2>1. ASSUME NEW d \in Designs, design'[d] = "generating"
        PROVE  \/ WorkedOn(d)'
               \/ design[d] = "generating" /\ (d \in abandoned => d \in abandoned')
    <3>1. CASE d \in Q
      <4>1. PICK j \in ids : of[j] = d
        BY <1>4, <3>1
      <4>2. j \in Jobs /\ OnIt(j, d)'
        BY <1>3, <1>4, <1>6, <1>13, <4>1 DEF OnIt
      <4>3. QED
        BY <4>2 DEF WorkedOn
    <3>2. CASE d \in left
      <4>1. request'[u] = r
        BY <1>9, OneRequest DEF IInv
      <4>2. d \in Refused'
        BY <1>9, <3>2, <4>1 DEF Refused
      <4>3. QED
        BY <4>2 DEF WorkedOn
    <3>3. CASE d \notin D
      BY <1>1, <2>1, <3>3
    <3>4. QED
      BY <3>1, <3>2, <3>3 DEF left
  <2>2. QED
    BY <1>11, <2>1, MakesKeepsWorked
<1>15. TaskIsRolledUp'
  <2> SUFFICES ASSUME lost = {}, NEW k \in Running' \ other PROVE Counts(k)'
    BY <1>1 DEF TaskIsRolledUp
  <2>1. CASE k \in Running
    <3>1. Counts(k)
      BY <2>1 DEF IInv, TaskIsRolledUp
    <3>2. QED
      BY <1>11, <3>1, MakesKeepsCounts
  <2>2. CASE k = new /\ ids = {}
    <3>1. request'[u] = r
      BY <1>9, OneRequest DEF IInv
    <3>2. QED
      BY <1>9, <2>2, <3>1 DEF Counts
  <2>3. CASE k = new /\ ids # {}
    <3>1. PICK j \in ids : TRUE
      BY <2>3
    <3>2. j \in Jobs /\ Settling(j, k)'
      BY <1>3, <1>6, <1>13, <3>1 DEF Settling
    <3>3. QED
      BY <3>2 DEF Counts
  <2>4. QED
    BY <1>10, <2>1, <2>2, <2>3
<1>16. QED
  BY <1>12, <1>14, <1>15 DEF IInv

-----------------------------------------------------------------------------
(* The invariant, and what follows for the system.                              *)

\* At first there is nothing.
LEMMA InitIInv ==
  ASSUME Init
  PROVE  IInv
<1>1. Running = {}
  BY DEF Init, Running
<1>2. NoRequest \in Asks /\ NoCancel \in Cancels /\ NoCancel \in Stops
  BY DEF NoRequest, NoCancel, Asks, Cancels, Stops
<1>3. FanoutTypeOK
  <2>1. Cardinality(Running) = 0
    BY <1>1, FS_EmptySet
  <2>2. QED
    BY <1>2, <2>1, FanoutAssumption DEF Init, FanoutTypeOK, Running, Steps
<1>4. Shape
  <2>1. JobShape
    BY DEF Init, JobShape, NoCancel
  <2>2. \A u \in Users : request[u] = NoRequest
    BY DEF Init
  <2>3. /\ NoRequest.queued = {} /\ NoRequest.refused = {}
        /\ NoRequest.kind = "none"
    BY DEF NoRequest
  <2>4. \A u \in Users : RequestShape(request[u]) /\ request[u].queued = {}
    BY <2>2, <2>3 DEF RequestShape
  <2>5. QED
    BY <1>1, <2>1, <2>4 DEF Init, Shape
<1>5. GeneratingIsWorkedOn /\ TaskIsRolledUp
  BY <1>1 DEF Init, GeneratingIsWorkedOn, TaskIsRolledUp, In
<1>6. QED
  BY <1>3, <1>4, <1>5 DEF IInv

\* A step of nobody's.
LEMMA StutterStep ==
  ASSUME IInv, UNCHANGED vars
  PROVE  IInv'
<1>1. UNCHANGED <<design, link, task, other, owner, job, subject, found, signalled, request,
                  canceller, stopper, requests, lost, abandoned>>
  BY DEF vars, taskVars, jobVars, cancels, history
<1>2. FanoutTypeOK'
  BY <1>1 DEF IInv, FanoutTypeOK
<1>3. Shape'
  <2>1. JobShape'
    BY <1>1 DEF IInv, Shape, JobShape
  <2>2. ASSUME NEW u \in Users PROVE RequestShape(request[u])'
    <3>1. RequestShape(request[u])
      BY DEF IInv, Shape
    <3>2. QED
      BY <1>1, <3>1 DEF RequestShape
  <2>3. QED
    BY <1>1, <2>1, <2>2 DEF IInv, Shape, Running
<1>4. GeneratingIsWorkedOn'
  BY <1>1 DEF IInv, GeneratingIsWorkedOn, WorkedOn, In, Refused, Marked, Stopping, OnIt
<1>5. TaskIsRolledUp'
  BY <1>1 DEF IInv, TaskIsRolledUp, Counts, Settling, Running
<1>6. QED
  BY <1>2, <1>3, <1>4, <1>5 DEF IInv

\* A request for the designs of some repositories, or for those that are to be retried.
LEMMA GenerateStep ==
  ASSUME IInv, NEW u \in Users, Generate(u) \/ Retry(u)
  PROVE  IInv'
<1>1. CASE Generate(u)
  <2>1. PICK D \in Wanted :
          \/ (\E k \in Tasks : task[k] # "none") /\ Fanout(u, D, Nothing)
          \/ Running = {} /\ \E k \in NextTask : Fanout(u, D, k)
    BY <1>1 DEF Generate
  <2>2. D \in SUBSET Designs
    BY <2>1 DEF Wanted
  <2>3. CASE Fanout(u, D, Nothing)
    BY <2>2, <2>3, FanoutStep
  <2>4. CASE Running = {} /\ \E k \in NextTask : Fanout(u, D, k)
    BY <2>2, <2>4, FanoutStep DEF NextTask
  <2>5. QED
    BY <2>1, <2>3, <2>4
<1>2. CASE Retry(u)
  <2> DEFINE D == In("failed") \cup In("generating")
  <2>1. D \in SUBSET Designs
    BY DEF In
  <2>2. PICK k \in NextTask : Fanout(u, D, k)
    BY <1>2 DEF Retry
  <2>3. Running = {} /\ k \in Tasks /\ task[k] = "none"
    BY <1>2 DEF Retry, NextTask
  <2> HIDE DEF D
  <2>4. QED
    BY <2>1, <2>2, <2>3, FanoutStep
<1>3. QED
  BY <1>1, <1>2

\* Every step keeps it.
LEMMA StepIInv ==
  ASSUME IInv, [Next]_vars
  PROVE  IInv'
<1>1. CASE UNCHANGED vars
  BY <1>1, StutterStep
<1>2. ASSUME NEW u \in Users, Requester(u) PROVE IInv'
  BY <1>2, GenerateStep, LinksStep, LinksFailStep, RegenerateStep, RegenerateQueuesStep,
     RegenerateCommitsStep, RegenerateFailsStep DEF Requester
<1>3. CASE OtherAgent \/ OtherEnds \/ Reboot
  BY <1>3, OtherStep, RebootStep
<1>4. ASSUME NEW d \in Designs, Upload(d) \/ Canceller(d) PROVE IInv'
  BY <1>4, WriteStep, CancelSignalsStep, CancelCountsStep, CancelCommitsStep, CancelFailsStep
     DEF Canceller
<1>5. ASSUME NEW k \in Tasks, Stopper(k) PROVE IInv'
  BY <1>5, CancelTaskSignalsStep, CancelTaskCommitsStep, CancelTaskFailsStep DEF Stopper
<1>6. ASSUME NEW j \in Jobs, Handler(j) \/ AgentWrites(j) \/ JobRaises(j) PROVE IInv'
  <2>1. CASE JobStarts(j) \/ AgentEnds(j) \/ JobFails(j)
    BY <2>1, JobWorksStep
  <2>2. CASE AgentWrites(j)
    BY <2>2, WriteStep
  <2>3. QED
    BY <1>6, <2>1, <2>2, JobCountsStep, JobReadsStep, JobDecidesStep, JobSettlesStep,
       JobRaisesStep, JobAbortsStep DEF Handler
<1>7. QED
  BY <1>1, <1>2, <1>3, <1>4, <1>5, <1>6 DEF Next

\* So it always holds.
THEOREM IInvAlways == Spec => []IInv
<1>1. Init => IInv
  BY InitIInv
<1>2. IInv /\ [Next]_vars => IInv'
  BY StepIInv
<1>3. QED
  BY <1>1, <1>2, PTL DEF Spec

\* FanoutTypeOK: the committed rows, the jobs and the requests keep their types, and of
\* one BUD's agent tasks at most one is active, whichever stage it is of.
THEOREM FanoutTypeCorrect == Spec => []FanoutTypeOK
<1>1. IInv => FanoutTypeOK
  BY DEF IInv
<1>2. QED
  BY <1>1, IInvAlways, PTL

\* GeneratingIsWorkedOn: every design that is GENERATING is in the hands of a request that
\* could not queue its job, of a cancellation, or of a job that nobody has stopped, unless
\* a handler raised, a request or a cancellation failed at its commit, or a job was faster
\* than the regeneration that queued it.
THEOREM GeneratingIsOwned == Spec => []GeneratingIsWorkedOn
<1>1. IInv => GeneratingIsWorkedOn
  BY DEF IInv
<1>2. QED
  BY <1>1, IInvAlways, PTL

\* TaskIsRolledUp: as long as a design task is RUNNING, somebody has its count still
\* before him, unless a count missed an outcome that was not committed, or a handler,
\* a request or a cancellation failed.
THEOREM TasksAreRolledUp == Spec => []TaskIsRolledUp
<1>1. IInv => TaskIsRolledUp
  BY DEF IInv
<1>2. QED
  BY <1>1, IInvAlways, PTL
===============================================================================
