----------------------------- MODULE ChatClaim ------------------------------
(***************************************************************************)
(* The claim of the BUD AI Editor on a section: bud_section_sessions.       *)
(* active_job_id says which chat job is in flight for a (BUD, section,      *)
(* design) thread.  POST /chat stakes it in the request's transaction before *)
(* it enqueues the job, handle_chat_job clears it in its finally block, and  *)
(* the cancel and active-job endpoints and the boot sweep clear what is      *)
(* stale.  The jobs run on the queue of module JobQueue.                    *)
(***************************************************************************)
EXTENDS JobQueue

CONSTANTS
    Sections,      \* the threads a chat can be about
    SectionOf,     \* the section each job id is minted for
    DbMayFail,     \* whether best-effort writes and commits may fail
    BareCancels    \* the jobs that POST /jobs/{id}/cancel is called for

ASSUME ChatAssumption ==
    /\ SectionOf \in [Jobs -> Sections]
    /\ DbMayFail \in BOOLEAN
    /\ BareCancels \subseteq Jobs

VARIABLES
    row,           \* the sections whose row exists, as committed
    claim,         \* the committed active_job_id of each section
    posting,       \* the POST whose open transaction holds the claim
    request,       \* an endpoint between its read of the pointer and its write
    chat,          \* where each handle_chat_job is
    pending,       \* the handlers whose CancelledError is still to be thrown
    lock           \* section_locks: who holds each section's asyncio.Lock

chatVars == <<row, claim, posting, request, chat, pending, lock>>
vars == <<queueVars, chatVars>>

Idle == [step |-> "idle", job |-> NoJob]
Requests == {Idle} \cup [step : {"cancel", "active", "clear"}, job : Jobs]

ChatTypeOK ==
    /\ QueueTypeOK
    /\ row \subseteq Sections
    /\ claim \in [Sections -> Jobs \cup {NoJob}]
    /\ posting \in [Sections -> Jobs \cup {NoJob}]
    /\ request \in [Sections -> Requests]
    /\ chat \in [Jobs -> {"none", "marking", "waiting", "chatting", "tombstone",
                          "clearing", "failing", "ended"}]
    /\ pending \subseteq Jobs
    /\ lock \in [Sections -> Jobs \cup {NoJob}]

ChatInit ==
    /\ QueueInit
    /\ row = {}
    /\ claim = [s \in Sections |-> NoJob]
    /\ posting = [s \in Sections |-> NoJob]
    /\ request = [s \in Sections |-> Idle]
    /\ chat = [j \in Jobs |-> "none"]
    /\ pending = {}
    /\ lock = [s \in Sections |-> NoJob]

-----------------------------------------------------------------------------
\* POST /chat.  try_claim_active_job is one statement that only writes over a
\* free pointer; a second POST waits for the first one's transaction and then
\* gets 409.  The pointer is visible to others when the request commits, after
\* the job has been enqueued.
PostClaims(j) ==
    LET s == SectionOf[j] IN
    /\ j \notin minted
    /\ claim[s] = NoJob
    /\ posting[s] = NoJob
    /\ posting' = [posting EXCEPT ![s] = j]
    /\ UNCHANGED <<queueVars, row, claim, request, chat, pending, lock>>

PostEnqueues(j) ==
    /\ posting[SectionOf[j]] = j
    /\ CreateJob(j)
    /\ UNCHANGED chatVars

RollBack(j) ==
    /\ posting' = [posting EXCEPT ![SectionOf[j]] = NoJob]
    /\ UNCHANGED <<row, claim, request, chat, pending, lock>>

\* Mutant: QueueFull is answered 503 without undoing the claim.
PostQueueFullKeepsClaim(j) ==
    /\ posting[SectionOf[j]] = j
    /\ CreateJobQueueFull(j)
    /\ UNCHANGED chatVars

\* create_job_with_id raises QueueFull.
PostQueueFull(j) ==
    /\ posting[SectionOf[j]] = j
    /\ CreateJobQueueFull(j)
    /\ RollBack(j)

\* Anything else that raises before the job is enqueued, the queue's refusal
\* while it shuts down included.
PostFails(j) ==
    /\ posting[SectionOf[j]] = j
    /\ j \notin minted
    /\ RollBack(j)
    /\ UNCHANGED queueVars

PostCommits(j) ==
    LET s == SectionOf[j] IN
    /\ posting[s] = j
    /\ j \in minted
    /\ claim' = [claim EXCEPT ![s] = j]
    /\ row' = row \cup {s}
    /\ posting' = [posting EXCEPT ![s] = NoJob]
    /\ UNCHANGED <<queueVars, request, chat, pending, lock>>

PostCommitFails(j) ==
    /\ DbMayFail
    /\ posting[SectionOf[j]] = j
    /\ j \in minted
    /\ RollBack(j)
    /\ UNCHANGED queueVars

-----------------------------------------------------------------------------
\* clear_active_job names the section and not the job: it releases whatever
\* claim the section has.
Cleared(s) == [claim EXCEPT ![s] = NoJob]

\* Mutant: the endpoints go on when there is no pointer.
ReadPointerUnchecked(s, step) ==
    /\ request[s] = Idle
    /\ request' = [request EXCEPT ![s] = [step |-> step, job |-> claim[s]]]
    /\ UNCHANGED <<queueVars, row, claim, posting, chat, pending, lock>>

\* Both endpoints read the pointer, and decide when the query has answered.
ReadPointer(s, step) ==
    /\ request[s] = Idle
    /\ claim[s] # NoJob
    /\ request' = [request EXCEPT ![s] = [step |-> step, job |-> claim[s]]]
    /\ UNCHANGED <<queueVars, row, claim, posting, chat, pending, lock>>

\* cancel_job, which throws into the handler when there is a live one.
Signals(j) ==
    /\ CancelJob(j)
    /\ pending' = IF task[j] \in Live THEN pending \cup {j} ELSE pending

\* Mutant: the endpoint writes CANCELLED itself, also for a live handler.
CancelChatDirect(s) ==
    LET j == request[s].job IN
    /\ request[s].step = "cancel"
    /\ store' = Updated(j, "cancelled")
    /\ request' = [request EXCEPT ![s] = [step |-> "clear", job |-> j]]
    /\ UNCHANGED <<aged, poolVars, history, row, claim, posting, chat, pending, lock>>

\* cancel_chat: signal the job, then clear the pointer when no handler is live.
CancelChat(s) ==
    LET j == request[s].job IN
    /\ request[s].step = "cancel"
    /\ \/ Signals(j)
       \/ store[j] \notin Active /\ UNCHANGED <<queueVars, pending>>
    /\ request' = [request EXCEPT ![s] = IF task[j] \in Live THEN Idle
                                         ELSE [step |-> "clear", job |-> j]]
    /\ UNCHANGED <<row, claim, posting, chat, lock>>

\* POST /jobs/{id}/cancel: the signal alone.
BareCancel(j) ==
    /\ j \in BareCancels
    /\ Signals(j)
    /\ UNCHANGED <<row, claim, posting, request, chat, lock>>

\* get_active_chat_job: clear the pointer of a job that is not queued or running.
CheckActive(s) ==
    LET j == request[s].job IN
    /\ request[s].step = "active"
    /\ request' = [request EXCEPT ![s] = IF store[j] \in Active THEN Idle
                                         ELSE [step |-> "clear", job |-> j]]
    /\ UNCHANGED <<queueVars, row, claim, posting, chat, pending, lock>>

\* The endpoint's UPDATE, which waits for a POST that holds the row.
ClearPointer(s) ==
    /\ request[s].step = "clear"
    /\ posting[s] = NoJob
    /\ claim' = Cleared(s)
    /\ request' = [request EXCEPT ![s] = Idle]
    /\ UNCHANGED <<queueVars, row, posting, chat, pending, lock>>

-----------------------------------------------------------------------------
\* handle_chat_job.  An UPDATE waits while a POST holds the row, and finds no
\* row while the first POST of the section has not committed its INSERT.
RowFree(s) == s \notin row \/ posting[s] = NoJob

ChatStarts(w) ==
    /\ WorkerStarts(w)
    /\ chat' = [chat EXCEPT ![Head(queue)] = "marking"]
    /\ UNCHANGED <<row, claim, posting, request, pending, lock>>

\* _mark_active_job_running has answered (the status it writes is informational).
Marked(j) ==
    /\ chat[j] = "marking" /\ j \notin pending
    /\ RowFree(SectionOf[j])
    /\ chat' = [chat EXCEPT ![j] = "waiting"]
    /\ UNCHANGED <<queueVars, row, claim, posting, request, pending, lock>>

Acquires(j) ==
    LET s == SectionOf[j] IN
    /\ chat[j] = "waiting" /\ j \notin pending
    /\ lock[s] = NoJob
    /\ lock' = [lock EXCEPT ![s] = j]
    /\ chat' = [chat EXCEPT ![j] = "chatting"]
    /\ UNCHANGED <<queueVars, row, claim, posting, request, pending>>

Reports(j, state) ==
    /\ chat[j] = "chatting" /\ j \notin pending
    /\ HandlerReports(j, state)
    /\ UNCHANGED chatVars

\* Mutant: the lock is taken and given back without a with block.
LeaveLocked(j, next) ==
    /\ chat' = [chat EXCEPT ![j] = next]
    /\ UNCHANGED lock

Leave(j, next) ==
    /\ chat' = [chat EXCEPT ![j] = next]
    /\ lock' = [s \in Sections |-> IF lock[s] = j THEN NoJob ELSE lock[s]]

\* _run_chat_job returns after it reported, or raises at any point.
LeavesLock(j) ==
    /\ chat[j] = "chatting" /\ j \notin pending
    /\ \/ store[j] \notin Active /\ Leave(j, "clearing")
       \/ Leave(j, "failing")
    /\ UNCHANGED <<queueVars, row, claim, posting, request, pending>>

\* _persist_cancel_marker has answered.
TombstoneWritten(j) ==
    /\ chat[j] = "tombstone" /\ j \notin pending
    /\ chat' = [chat EXCEPT ![j] = "clearing"]
    /\ UNCHANGED <<queueVars, row, claim, posting, request, pending, lock>>

Ends(j, outcome) ==
    /\ HandlerEnds(j, task[j], outcome)
    /\ chat' = [chat EXCEPT ![j] = "ended"]

\* _clear_active_chat_claim, and the end of the handler: it re-raises what
\* brought it into the finally block.
ClearsClaim(j) ==
    LET s == SectionOf[j] IN
    /\ chat[j] \in {"clearing", "failing"} /\ j \notin pending
    /\ RowFree(s)
    /\ \/ claim' = Cleared(s)
       \/ DbMayFail /\ UNCHANGED claim
    /\ Ends(j, CASE task[j] = "cancelling" -> "cancelled"
                 [] chat[j] = "failing"    -> "raised"
                 [] OTHER                  -> "returned")
    /\ UNCHANGED <<row, posting, request, pending, lock>>

\* CancelledError is thrown at the await the handler is in.  The marking is
\* outside the try; a cancellation inside the clean-up cuts it short, and may
\* or may not find the UPDATE committed.
Interrupted(j) ==
    /\ j \in pending
    /\ pending' = pending \ {j}
    /\ \/ /\ chat[j] = "marking"
          /\ Ends(j, "cancelled")
          /\ UNCHANGED <<claim, lock>>
       \/ /\ chat[j] \in {"waiting", "chatting"}
          /\ Leave(j, "tombstone")
          /\ UNCHANGED <<queueVars, claim>>
       \/ /\ chat[j] = "tombstone"
          /\ Leave(j, "clearing")
          /\ UNCHANGED <<queueVars, claim>>
       \/ /\ chat[j] \in {"clearing", "failing"}
          /\ Ends(j, "cancelled")
          /\ claim' \in {claim, Cleared(SectionOf[j])}
          /\ RowFree(SectionOf[j]) \/ claim' = claim
          /\ UNCHANGED lock
    /\ UNCHANGED <<row, posting, request>>

\* The worker forgets the handler once it has resumed.
ChatResumes(w) ==
    /\ WorkerResumes(w)
    /\ chat' = [chat EXCEPT ![worker[w]] = "none"]
    /\ UNCHANGED <<row, claim, posting, request, pending, lock>>

ChatSkips(w) == WorkerSkips(w) /\ UNCHANGED chatVars

-----------------------------------------------------------------------------
\* stop_workers, and the next boot: the claims are swept before a request is
\* served, unless the sweep fails, which is logged.
StopChats ==
    /\ StopWorkers
    /\ pending' = pending \cup {j \in Jobs : task[j] \in Live}
    /\ UNCHANGED <<row, claim, posting, request, chat, lock>>

\* Mutant: nothing is swept at boot.
recover_no_chats == UNCHANGED claim

recover_stuck_chats ==
    \/ claim' = [s \in Sections |-> NoJob]
    \/ DbMayFail /\ UNCHANGED claim

Reboot ==
    /\ Restart
    /\ recover_stuck_chats
    /\ posting' = [s \in Sections |-> NoJob]
    /\ request' = [s \in Sections |-> Idle]
    /\ chat' = [j \in Jobs |-> "none"]
    /\ pending' = {}
    /\ lock' = [s \in Sections |-> NoJob]
    /\ UNCHANGED row

-----------------------------------------------------------------------------
Post(j) ==
    \/ PostClaims(j)
    \/ PostEnqueues(j)
    \/ PostQueueFull(j)
    \/ PostFails(j)
    \/ PostCommits(j)
    \/ PostCommitFails(j)

\* What a request does once it has begun.
PostEnds(j) == PostEnqueues(j) \/ PostQueueFull(j) \/ PostFails(j) \/ PostCommits(j)
RequestEnds(s) == CancelChat(s) \/ CheckActive(s) \/ ClearPointer(s)

ChatHandler(j) ==
    \/ Marked(j)
    \/ Acquires(j)
    \/ \E state \in {"completed", "failed"} : Reports(j, state)
    \/ LeavesLock(j)
    \/ TombstoneWritten(j)
    \/ ClearsClaim(j)
    \/ Interrupted(j)

ChatWorker(w) == ChatSkips(w) \/ ChatStarts(w) \/ ChatResumes(w)

ChatNext ==
    \/ \E j \in Jobs : Post(j)
    \/ \E s \in Sections : \E step \in {"cancel", "active"} : ReadPointer(s, step)
    \/ \E s \in Sections : RequestEnds(s)
    \/ \E j \in Jobs : BareCancel(j)
    \/ \E w \in Workers : ChatWorker(w)
    \/ \E j \in Jobs : ChatHandler(j)
    \/ Clock /\ UNCHANGED chatVars
    \/ StopChats
    \/ Reboot

ChatSafety == ChatInit /\ [][ChatNext]_vars

\* The event loop and the database answer; the queue is served.  Users, the
\* clock and the process's death are not fair.
ChatSpec ==
    /\ ChatSafety
    /\ \A j \in Jobs : WF_vars(PostEnds(j)) /\ WF_vars(ChatHandler(j))
    /\ \A s \in Sections : WF_vars(RequestEnds(s))
    /\ \A w \in Workers : WF_vars(ChatWorker(w))

-----------------------------------------------------------------------------
\* The composition only does to the queue what the queue's specification allows.
ImplementsQueue == [][QueueNext]_queueVars

\* A section's lock is held by a handler that is live and inside the lock: no
\* cancellation, exception or restart leaks it, which would block every later
\* chat of the section until the next restart.
LockHasLiveHolder ==
    \A s \in Sections : lock[s] # NoJob =>
        task[lock[s]] \in Live /\ chat[lock[s]] = "chatting" /\ SectionOf[lock[s]] = s

\* A claim that nothing will clear any more is one that the active-job endpoint
\* recognises as stale: the store never calls it queued or running while no
\* worker and no queue knows of it.
StuckClaimIsRecognised ==
    accepting => \A s \in Sections : \A j \in Jobs :
        claim[s] = j /\ task[j] = "none" /\ ~Queued(j) => store[j] \notin Active

\* A chat whose claim was committed before its handler started releases the
\* section, if nobody cancels it and the queue does not stop.
UncancelledChatReleases ==
    \A j \in Jobs : (claim[SectionOf[j]] = j /\ Queued(j))
        ~> (claim[SectionOf[j]] # j \/ j \in acked \/ ~accepting)

-----------------------------------------------------------------------------
\* Promises of the comments that the code does not keep, and that have no run of
\* their own: TLC refutes each on a small instance, and the README tells the trace.

\* "The claim is the source of truth for 'is a chat already running on this
\* section?'": while a chat that has not settled runs, the section's pointer
\* names it.
ClaimCoversChat ==
    \A j \in Jobs : chat[j] = "chatting" /\ store[j] \in Active =>
        j \in {claim[SectionOf[j]], posting[SectionOf[j]]}

\* "On a live cancel the worker's terminal CancelledError branch publishes the
\* final WS frame and handle_chat_job's finally hook clears the pointer": a
\* handler that the cancel endpoint stopped has released the section.
CancelledChatReleases ==
    accepting => \A j \in acked : task[j] = "cancelled" => claim[SectionOf[j]] # j
=============================================================================
