# A TLA+ model of Bodhiorchard

Bodhiorchard is a FastAPI backend (`src/backend/app`), a Vue frontend, a CLI and a
Colyseus game server (`src/multiplayer`).  The backend turns a "BUD" (a unit of
work) into requirements, designs, code and reviews by running AI agents, and
follows GitHub, Slack and Jira while it does.  What is hard about it is not an
algorithm: it is that long agent runs, users who cancel them, requests that make a
row and a job in separate steps, deliveries that arrive twice, and a process that
may be restarted at any moment all write the same few state columns.  The same is
true of the transactions of several people on one person's leave or on one BUD's
owner, and of the handlers, timers and hooks of a race room.  That is what these
modules model.

All line numbers below are of the repository this directory stands beside, and
`PROJECT.json` ("map") gives the lines of every single definition.

## 1. Inventory

| Component | Where | State it keeps | Operations | What is hard | What makes it correct |
|---|---|---|---|---|---|
| Job queue | `services/job_queue.py` | `_job_store`, one bounded `asyncio.Queue` and a list of workers per job type, `_running_tasks`, all in memory | create, cancel, update, clean-up, worker loop, start/stop | a cancel falls on any await of the handler or between handler and worker; clean-up forgets what others still need; shutdown is itself a cancel | one owner per job, at most one run, nobody left RUNNING, no COMPLETED after a cancel, everything queued is settled |
| BUD chat | `services/job_chat.py`, `bud_chat_cancel.py`, `repositories/bud_section_session.py`, `api/v1/bud_chat.py` | `bud_section_sessions.active_job_id` (durable), `section_locks` (memory) | POST chat, cancel, active-job, the chat job, the boot sweep | the claim is durable and its job is not; it is cleared by section, not by job; the job may run before the request commits | at most one chat per section, no leaked lock, no claim that blocks the section for good |
| BUD agent tasks | `services/bud_agent_trigger.py`, `bud_agent_handler.py`, `agent_task_cancel.py`, `repositories/bud_agent_task.py`, `api/v1/bud.py` | `bud_agent_tasks.status`, `job_id`, one active row per BUD | trigger, re-run, retry, the agent job, cancel, the boot sweep | row, job and link are made in three steps; three writers of the final status | row and job agree, no active row without somebody to settle it |
| PR-merge deliveries | `api/v1/github_webhook.py`, `services/pr_merge_worker.py`, `services/scan/pr_merge_update.py`, `repositories/webhook_log.py` | `webhook_logs.status`, a Redis stream and group per repository, a registry set, `tracked_repositories.head_sha` | receive, publish, supervise, consume, recover orphans at boot | two stores without a common transaction, either may fail; restarts; order | no delivery is lost, DONE means handled, no more attempts than starts of the backend, head_sha moves forward |
| Design fan-out | `services/job_design.py`, `api/v1/bud_designs.py`, `agent_task_cancel.py` | `bud_designs.status` and `job_id` per repository, the parent task | generate, retry, regenerate, upload, one job per repository, cancel a design or the task, roll-up, the boot sweep | the last sibling, a cancel and the boot sweep decide the parent together; each counts what the others have committed | no design is left GENERATING without somebody at it, the parent is settled by whoever is last |
| Yield offers | `services/yield_offer_service.py`, `yield_offer_lock.py`, `bud_assignment.py`, `bud_assignment_actions.py` | `yield_offers.status`, `bud_documents.assignee_id`, the parked phase event | auto-assign, raise, accept, reject, expire, supersede, reassign, assign, unassign | check and write are two statements at READ COMMITTED; some paths lock the BUD's row before they read it, some after | a BUD has one open offer at most, and nobody owns it; an answer stands; the lock is released by every way an offer ends |
| Leave requests | `services/leave/`, `repositories/leave_*.py`, `api/v1/leave_holidays.py` | requests, holidays, balance adjustments; row locks on the policy and on members | submit, approve, reject, cancel, withdraw, reschedule, adjust, change of the calendar | approvals race with each other, with the balance and with the calendar; two kinds of locks | no day booked twice, paid days are what the balance covers, days follow the calendar, no deadlock |
| Daily posts | `services/leave/digest_scheduler.py` and the other schedulers | a claim row per (org, day) | tick, claim, post, finish | crash between post and record, abandoned claims, slow posts | at most one post a day, a failed one is retried |
| Scan runs | `services/scan/`, `services/scan_kickoff.py` | scans, phases, per-repository results | kick off, phases, fan-out, orphan reconciliation | fan-out and barrier, restart in the middle | every scan ends, phases in order |
| Race rooms | `src/multiplayer/src/rooms/RaceRoom.ts`, `OrgRaceHandler.ts`, `bridge/RaceRegistry.ts` | phase, invitees, racers and their lanes, physics entries, clock, the garden's banner | create, join, leave, invite, decline, start, cancel, tick, finish, expire, dispose | two tabs, a decline through the backend, a post that is awaited while the room closes | every racer is simulated once, the banner follows, results before the finish, rooms end |
| Other rooms | `src/multiplayer/src/rooms` | slots, gardens, the backlash game | create, auth, join, leave, dispose | seats reserved and never taken, timers | caps hold, nothing leaks |
| Others | BUD status table, estimation, Jira import, AI runner, MCP server, event bus, presence, XP, frontend, CLI | | | mostly single transactions, conversions and I/O | covered by unit tests |

How they interact: request handlers and other jobs create jobs; a handler of the
queue reports through `update_job` and is stopped by `cancel_job`, which throws
`CancelledError` into it; rows in Postgres outlive the process, jobs do not, and
`main.py:168-198` reconciles the two at boot; the PR-merge pool has its own
consumers and does not use the job queue.  Leave and yield offers are requests on
Postgres alone and meet in its row locks, or in what those leave open.  The
multiplayer server is a process of its own that the backend and it call over HTTP.

## 2. Modules

| Module | Models | Rests on |
|---|---|---|
| `JobQueue` | the queue of one job type | - |
| `JobQueueProofs` | its theorems | `JobQueue` |
| `ChatClaim` | the chat claim, the section lock, endpoints, chat handler, boot sweep | extends `JobQueue` and composes with its actions |
| `ChatClaimProofs` | its theorems | `ChatClaim`, `JobQueueProofs` |
| `AgentTask` | agent task rows, their requests, the agent handler, cancel, boot sweep | extends `JobQueue` and composes with its actions |
| `AgentTaskProofs` | its theorems | `AgentTask`, `JobQueueProofs` |
| `PrMergeDelivery` | webhook row, stream, consumers, recovery, head_sha | - |
| `PrMergeDeliveryProofs` | its theorems | `PrMergeDelivery` |
| `LeaveRules` | what each leave operation makes of the book of rows, holidays and adjustments, as a function | - |
| `LeaveBook` | the abstract specification: each operation is one step | extends `LeaveRules` |
| `LeaveBooking` | the operations as transactions with their locks | extends `LeaveRules`, implements `LeaveBook` |
| `LeaveBookingProofs` | its theorems | `LeaveBooking` |
| `DesignFanout` | designs, design jobs and the task they are rolled up into | takes the queue as `JobQueue` gives it |
| `DesignFanoutProofs` | its theorems | `DesignFanout` |
| `YieldOffer` | owners of BUDs, yield offers, the parked event | - |
| `YieldOfferProofs` | its theorems | `YieldOffer` |
| `RaceRoom` | a race room from its lobby to its disposal, with the banner | - |
| `RaceRoomProofs` | its theorems | `RaceRoom` |
| `MC*` | the constants of the TLC instances | the module of that name |

`ChatClaim` and `AgentTask` are the queue plus a concrete handler: each of their
actions either is an action of `JobQueue` together with what the component does in
the same step, or leaves the queue alone.  `ImplementsQueue` checks exactly that:
`JobQueue` is the abstract specification, which lets a handler report, return,
raise or abort whenever it likes, and the composition must be one of its
behaviours.  The queue's theorems therefore hold of the compositions as well.

`LeaveBooking` implements `LeaveBook` in the same sense (`ImplementsBook`, with the
committed book as the refinement mapping): transactions that read, wait for each
other and commit leave nothing behind that the operations, one at a time, could not
have left.

### Grain of atomicity

The backend is one asyncio process.  A step is what one coroutine does between two
awaits, so whatever code has no await between its read and its write is one
action (`WorkerStarts`: dequeue, look at the store, create the task), and code
that awaits is split there (`CancelReads`, `CancelSignals`, `CancelMarks`).  A SQL
transaction with a single statement is one action; a longer one is split at the
commit that makes it visible, and at the locks it waits for.  Postgres runs at READ
COMMITTED: a statement sees what has been committed when it begins, and an UPDATE
asks its condition of the row as it is then.  A Colyseus room is one event loop too:
a message handler, a timer or a hook is a step, and an `await` ends it.

### JobQueue: state and code

| Variable | Code |
|---|---|
| `store` | `_job_store[j].status.state`, "absent" when there is no entry |
| `aged` | `created_mono + _COMPLETED_TTL < now` (the TTL is 300 seconds) |
| `queue` | the `asyncio.Queue`; `QueueMax` is its maxsize |
| `worker` | what `_worker` awaits: `queue.get`, or the handler of a job; "stopped" when the coroutine has ended |
| `interrupt` | `task.cancel()` from `stop_workers`: "pending" is still to be thrown at the worker, "forwarded" was passed on to the handler it awaits |
| `task` | `_running_tasks[j]`: live, being cancelled, or done and not yet resumed from |
| `accepting` | `not _shutting_down` |
| `minted`, `ran`, `acked` | history: ids used, handlers started, cancels answered True |

The interesting state is a task in `Ended`: the handler is done, the worker has not
run yet.  `cancel_job` sees `task.done()` and writes CANCELLED itself; then the
worker resumes and may write FAILED.  `update_job` has no guard on the old state.
A restart (`Restart`) wipes everything; ids are UUIDs and are not used twice.

A handler may report COMPLETED or FAILED only while the entry is not terminal:
every registered handler reports once, and none reports from its `CancelledError`
branch.  That is an assumption of `JobQueue` about handlers; `ChatClaim` and
`AgentTask` check it of the two that are modelled in full.

### ChatClaim

`claim` is the committed `active_job_id`.  A POST claims inside its transaction
(`posting`), enqueues, and commits when the request ends, so the job can run before
its own claim is visible.  An UPDATE of the row waits for such a transaction
(`RowFree`), except that while the row itself is still uncommitted it finds
nothing.  `request` is an endpoint between reading the pointer and acting on it.
`pending` is a `CancelledError` on its way: it is thrown at the await the handler
is in, whichever that is, also inside its own clean-up.

### AgentTask

A task is named by its job's id, because each has one job.  `creating` follows the
request through "row committed", "job queued", "link committed"; `linked` is
`job_id IS NOT NULL`; `cancel` is the cancel endpoint between its read and its
writes.  `SlotFree` is the partial unique index on (bud_id) of active rows.  The
agent's own work is a choice between success, failure and an exception.  The
`bud_designs` rows a cancel also fails are in `DesignFanout`.

### PrMergeDelivery

A delivery is its place in the order of the merges.  The group reads each message
once (`Reads` removes it from `stream`); the pending entries list is never read by
this program, so an acknowledgement changes nothing and is not modelled.
`dropped` is a history variable: the open rows that a *named* fault (Redis down at
publish, a lost reply, lost data, a failed status write, a boot that looks at only
`BatchLimit` rows) left to the next boot.  A database that fails ends the recovery where
it is: before the first row, or at an orphan whose repository is gone and which cannot
be marked FAILED, so that the sooner orphans are published and the later ones are not
(`Tried`, `Sooner`).  `runs` is a history variable: how often the handler was started on
each delivery.  An operator's flip of a row back to
PENDING is done in SQL by hand and is not modelled.  `Exits` stands for both a
crash and `WorkerPool.stop`, which waits ten seconds and then cancels: what it can
leave behind is a subset of what a crash leaves.

### LeaveRules, LeaveBook, LeaveBooking

A book is what the tables hold: a row per request (status, first and last day,
`days`, `lop_days`), the policy's holidays, and what HR's adjustments of each member
add up to.  `LeaveRules` gives for each operation the set of books it may leave,
empty when it is refused (which rolls its transaction back); one leave type whose
year's allowance is released at once, whole days.  `lop` is the unpaid part: every
operation that frees or takes days ends in `reprice` or `rebalance`, which release
the paid days of a member and price them again, the earliest leave first.

In `LeaveBooking` a transaction goes through `phase`: it waits for the policy's row
("policy": shared for what counts days, exclusive for a change of the calendar),
looks for the requests a calendar touches ("find"), waits for the members' rows
("member"), reads the book again and writes ("commit"), and commits the rows of the
members it has locked.  Who owns a lock follows from the phases (`SharesPolicy`,
`OwnsPolicy`, `OwnsMember`).  A holiday that is added also references its policy, so
its INSERT takes `FOR KEY SHARE` before the request asks for the lock
(`ReferencesPolicy`): two such changes wait for each other and Postgres breaks one
off.  `OnlyCalendarsDeadlock` shows that nothing else can.  `RollBack` is any failure.

`LeaveBook` grants two liberties that the code takes: a transaction may have read
the date before midnight, and a cancellation, which does not lock the policy, may
have counted the days already taken under an older calendar.

### DesignFanout

`design` and `task` are the committed statuses; `job` is what the handler of a design job
does next.  `Users` are those whose generate, retry and regenerate requests overlap:
nothing in the code keeps two of them apart.  A fan-out commits its rows, queues a job
for each and commits their ids (`Links`), failing the rows whose job was refused; the
second commit may fail with the jobs on their way (`LinksFail`).  A regeneration
flushes GENERATING, queues, and commits last (`Regenerate`, `RegenerateQueues`,
`RegenerateCommits`, `RegenerateFails`).  A cancellation of a design signals its job,
then marks the row and counts (`CancelCounts`), then commits; that of a task signals the
task's job and then commits (`CancelTaskSignals`, `CancelTaskCommits`).  Either may fail
after the signal, which nothing takes back (`CancelFails`, `CancelTaskFails`).  What a
request has flushed holds up the row's other writers (`Locked`) and is invisible to
their counts.  `JobCounts`, `JobReads`, `JobDecides` and `JobSettles` are the four
statements of `_maybe_complete_design_task`, the last of which writes what was decided
without asking again.

`other` are the tasks of the BUD's other stages, which share the slot of one active
task.  `lost` and `abandoned` are history variables: they name what the code itself
accepts and nothing repairs before a restart (a handler that raised, a commit that
failed after the jobs were queued or signalled, a recovery that failed, a count that ran
while the designs of refused jobs were uncommitted: "excused") and the one thing it does
not know of, a count that missed another cancellation ("blind").  A regeneration whose job
is over before its commit, which then writes GENERATING over the job's outcome, is in
`abandoned` too: nothing moves that row before the next restart, and no property here
catches it.

### YieldOffer

A request reads and decides (`Patches`, `Reads`, `Answers`, ...) and later writes and
commits (`Commit`), with others in between; `tx` keeps what it has read.  Whoever runs an
assignment holds the row of its BUD from before it looks for open offers until it commits
(`RowFree`): a PATCH because `lock_for_edit` comes first, an approval and the bug
threshold because they write the BUD's status before they call the assignment.  The
PATCH reads the BUD under that lock; the other two have read it before (`Reads`, then
`Locks`), and go on with what they saw.  `stale` is a history variable: the offers that
such an outdated reading raised.  A PATCH of the assignee, of the status or of both is one
request, whose automatic run (`Runs`) follows the assignment by hand.  An attribute
that is set to the value it was loaded with is not written (`Written`), which is what
SQLAlchemy does.  `parked` is the offer whose `skill_invoked` is the newest
phase_assigner event of the BUD, the one that locks its menu; a restart closes it, unless
the event of that BUD cannot be written.  How a candidate is picked is any developer
under the cap; the picker may also raise, and then the BUD keeps the assignee it had.

### RaceRoom

`racers` maps a member to its lane and whether it is connected; `physics` counts its
entries in `physicsRacers`.  `timers` are the delayed calls of the room's clock, `door`
is whether the room still admits clients, has called `disconnect()`, or is disposed
of, `post` is the `postRaceResults` that `finishRound` awaits.  `banner` is the race's
summary in `RaceRegistry`, written through the hooks until `onDispose` unregisters
them.  Speed and physics are left out: on any tick any racer may cross the line.
`ProcessExits` ends the process with all its rooms.  It also is what becomes of a
`finishRound` that throws before its `await`: the tick calls it with `void`, nobody
handles the rejection, and Node exits.

## 3. Runs

Bounds are in the `.cfg` files.

| Run | Instance | Shows |
|---|---|---|
| `job_queue` | 2 jobs, 2 workers, queue of 1 | the safety invariants and both liveness properties of the queue |
| `chat_claim` | 2 chats on one section, 2 workers, faults on | lock, claim and the implementation of the queue |
| `chat_claim_live` | 2 chats, 1 worker, database up | an uncancelled chat gives the section back |
| `agent_task` | 2 tasks of a BUD, 1 worker, faults on | row and job agree; implements the queue |
| `agent_task_live` | 2 tasks of a BUD, 1 worker, database up | active rows are attended and settle |
| `pr_merge` | 1 repository, 3 deliveries, 2 boots, recovery of 2 rows, faults on | nothing is lost, no more handler runs than boots (920,000 states) |
| `pr_merge_live` | 2 repositories, 3 deliveries, 2 boots, no faults | every recorded delivery is settled |
| `leave_booking` | 1 member, 2 requests, 3 days of which 2 may be holidays, allowance 1, adjustments of -2 or 0, 2 dates, 2 open transactions, 4 in all (260,000 states) | operations are atomic, no double booking, paid is what the balance covers, days follow the calendar, only calendars deadlock |
| `design_fanout` | 2 repositories, 2 users, 2 tasks, 2 jobs, 3 requests or restarts (1.6 million states) | a generating design is worked on, a running task has its count before it |
| `design_rollup` | the same | **violation** of `RollUpIsNeverLost` |
| `yield_offer` | 2 developers with a cap of 1, 3 BUDs of 3 priorities, 2 offers, 2 open requests, 4 in all, any owners at first (720,000 states) | the lock belongs to an open offer, one open offer per BUD, for a BUD without an owner unless it was raised on an outdated reading, answers stand |
| `race_room` | host, 2 guests, 1 bot, 2 tabs each, 2 to 3 racers (280,000 states) | one simulation per racer, results before the finish, every room ends |

Why the bounds are enough.  The queue's conflicts are between one job's caller,
handler, worker and the clock; a second job and worker bring contention for the
queue, the full queue and the second owner that `OneOwner` excludes.  What the run
cannot show for more jobs and a longer queue is what the theorems say for all.  A
third chat is needed only to refute `ClaimCoversChat`, where a third claim comes in.  Two
tasks of one BUD compete for the index; a second worker adds only interleavings that
`job_queue` has.  Three deliveries exceed the recovery's batch of
two, and two boots make every boot but the first a recovery with work to do.

Two requests of one person are what an overlap, a freed balance and the order of
`rebalance` need, and a member's lock keeps other members out of it.  Three days
hold leave that is over, under way and ahead on the second date; an allowance of one
with an adjustment of minus two makes balances that cover everything, a part and
nothing.  Four transactions are a book with two requests and two more that meet on
it.  Two designs are a sibling and the last one, and two users let two fan-outs, or a
fan-out and a regeneration, overlap.  Three requests let a fan-out meet two
cancellations, another fan-out and a cancellation, or a cancellation and a restart.  A
third job, with two requests, also passes; what the run does not show for more jobs the
theorems say for all.  Two developers at their cap, one of them with a BUD of
lower priority, are what an offer needs, and a second offer what its supersession or
a retarget needs; four requests raise an offer, change what it was about, answer it
and write over it.  A room of three with a bot can be full, fall below two by a
decline, and hold an invitee with two tabs.

Deadlock is not checked (`CHECK_DEADLOCK FALSE`) because all these systems may
stop: ids, deliveries, boots and requests are bounded, a stopped pool waits, and a
room that is gone stays gone.

Symmetry is used in `chat_claim`, `leave_booking`, `design_fanout`, `design_rollup`
and `yield_offer`, where nothing temporal but step properties is checked.

What a property of section 2 leaves to others.  `ChatClaim`'s `ImplementsQueue` is about the
job side of a cancel and not about the pointer (`ClaimCoversChat` is, and is refuted below).
`CompletedJobHasCompletedRow` does not see RUNNING written over a cancelled row
(`FailedRowStaysFailed` does, and is refuted below).  `QueuedTaskSettles` holds of a database that
is up, and says nothing of a commit that fails in the handler's `except`.
`TaskIsRolledUp` excuses a count that was blind, and only `design_rollup` shows what
becomes of it.  That DONE means handled (`DoneWasHandled`) and that the banner shows the phase
(`BannerFollowsRace`) follow from the order of one consumer and of one setter; they are
proved, and no run is spent on them.

### Fairness

The event loop runs every ready coroutine, so workers, handlers, consumers and
requests that have begun are weakly fair.  A handler is bounded by the time limit
of the agent it runs (`timeout_seconds`).  Nothing is assumed of users, of GitHub,
of the clock and of the process: no caller has to call, no cancel has to come,
the backend need neither stop nor start.  Liveness is therefore stated "or the
queue stops".  Faults of the database and of Redis are off in the liveness runs of
`ChatClaim`, `AgentTask` and `PrMergeDelivery`: the code survives them by leaving
work to the next boot, and nothing makes a boot happen.

In `RaceRoom` the fair actions are the clock's (`LobbyExpires`, `GraceEnds`,
`BeginRunning`, and the tick that times the race out), the answer of a post (its
`fetch` has an `AbortSignal.timeout`), what the Colyseus library does (it disposes of
an empty room whose `autoDispose` is on, and sockets that were closed leave).  Nobody
has to join, start, race or leave.

### A divergence that has a run

**A design task that nobody settles** (`design_rollup`).  Two designs of a BUD are
cancelled at once.  Each request marks its own row, and counts the rows that are
still generating before either has committed; each sees the other's, and leaves the
task to it.  The task stays RUNNING and holds the BUD's slot until the next restart.
`TaskIsRolledUp`, which the passing run checks, is the same property where no count
was blind in this way.

### Divergences that have no run

These properties are at the end of their modules, under a heading that says so.
To see the trace of one, give it as the INVARIANT or PROPERTY of the `.cfg` named
(without its SYMMETRY).

| Property | Module, `.cfg` | Trace |
|---|---|---|
| `CancelledBeforeStartNeverRuns` | `MCJobQueue`, `JobQueue.cfg` | a job is cancelled in the queue; five minutes after its creation clean-up drops the entry; the worker finds no entry, does not see that it was cancelled, and runs it ("running it now would undo the cancel", job_queue.py:380) |
| `StopCompletes` | `MCJobQueue`, `JobQueue.cfg` with one worker | `stop_workers` cancels a worker, asyncio hands that to the handler, whose clean-up raises something else; the worker's `except Exception` takes it, and the worker goes on to `queue.get` |
| `CancelledIsFinal` | `MCJobQueue`, `JobQueue.cfg` | the handler raises; before the worker resumes, `cancel_job` finds the task done and writes CANCELLED ("no worker will touch the row after this point", job_queue.py:301); the worker writes FAILED |
| `QueuedEntryIsInQueue` (invariant) | `MCJobQueue`, `JobQueue.cfg` | `create_job_with_id` stores the entry at 179 and `put_nowait` raises `QueueFull` at 185: the entry stays QUEUED, `find_active_job` returns it, clean-up never drops it |
| `ClaimCoversChat` (invariant) | `MCChatClaim`, `ChatClaim.cfg` with three jobs | the pointer is cleared while its chat is still leaving, another chat claims the section, and the first one's `finally` clears the second one's claim |
| `CancelledChatReleases` (invariant) | `MCChatClaim`, `ChatClaim.cfg` | the cancel arrives while `handle_chat_job` awaits `_mark_active_job_running` (job_chat.py:116), before the `try`: the claim stays until the active-job endpoint looks at it |
| `FailedRowStaysFailed` | `MCAgentTask`, `AgentTask.cfg` | a cancel between `create_job` and the commit that links the row fails the row and signals nobody; the handler then writes RUNNING over it |
| `PendingRowIsPickedUp` (invariant) | `MCAgentTask`, `AgentTaskLive.cfg` with `Buds = {b1, b2}` and `BudOf <- OwnBud` | `create_agent_task_for_stage` does not catch `QueueFull` (bud_agent_trigger.py:158); the row stays PENDING and holds the BUD's slot |
| `CancelledJobSettlesRow` (invariant) | `MCAgentTask`, `AgentTask.cfg` | POST /jobs/{id}/cancel on a queued job; the worker skips it, nobody fails its row |
| `SettledIsFinal` | `MCPrMergeDelivery`, `PrMergeDelivery.cfg` | a PENDING row whose message is unread is published again at boot; the second message takes the row from DONE to RUNNING ("Either way the row gets exactly one fresh attempt under the new process", pr_merge_worker.py:62-63: here it gets two; what holds is `RunsWithinBoots`, as many as there were starts of the backend) |
| `OrphansInArrivalOrder` | `MCPrMergeDelivery`, `PrMergeDelivery.cfg` | RUNNING rows are published before older PENDING ones (pr_merge_worker.py:324) |
| `HeadNeverRegresses` | `MCPrMergeDelivery`, `PrMergeDelivery.cfg` | two requests publish in another order than they recorded, and `advance_head_sha` writes whatever differs |
| `AcceptedMoveIsStored` (invariant) | `MCLeaveBooking`, `LeaveBooking.cfg` | approved leave of three days with two of them unpaid is shortened to one day; the UPDATE sets `days = 1` beside `lop_days = 2`, which `ck_leave_requests_lop_within_days` refuses, before the reprice that would have lowered it: the caller gets a 500 |
| `OtherAgentsAreLeftAlone` | `MCDesignFanout`, `DesignFanoutRollUp.cfg` | a design is regenerated after its task has ended, and another stage's agent becomes the active task; cancelling the design settles that task, because `_advance_design_task_state` takes the active one (agent_task_cancel.py:210) where `_maybe_complete_design_task` asks for `task_type == "design"` (job_design.py:351) |
| `SettledLast` | `MCDesignFanout`, `DesignFanoutRollUp.cfg` | the one design that is generating is cancelled, and the cancellation counts none that is left; before its commit another user generates, and joins the task that is still active (bud_designs.py:205); the commit settles the task under the new design ("Until then the task stays running so other repos in the same batch can finish", agent_task_cancel.py:200-202).  The roll-up of a job has the same gap between its count and its write (job_design.py:361) |
| `OffersAreForTheUnassigned` (invariant) | `MCYieldOffer`, `YieldOffer.cfg` | an approval reads a BUD that nobody owns (bud_workflows.py:182); a PATCH gives it to a developer and commits; the approval takes the row, runs the assignment with what it had read, finds everybody at the cap and no open offer, and raises one for a BUD that has an owner ("A yield offer exists to find somebody for a BUD that has nobody", yield_offer_lock.py:132-134) |
| `DeadOffersStayDead` | `MCYieldOffer`, `YieldOffer.cfg` | an Accept reads an offer and finds it PENDING; it expires or is superseded; the Accept writes by primary key, makes it ACCEPTED and takes the incoming BUD from who has it now ("an Accept on that dead offer would unassign their current BUD and take the incoming one back off whoever now owns it", yield_offer_lock.py:136-138) |
| `AcceptReleasesOwnBud` | `MCYieldOffer`, `YieldOffer.cfg` | an offer asks A to give up a BUD; the BUD is assigned to B; A accepts, and it is taken off B |
| `LanesFit` (invariant) | `MCRaceRoom`, `RaceRoom.cfg` | a guest takes lane 1, the host lane 2, the guest declines: two racers, of which one has a lane beyond the last ("0-based lane index within racerCount", RaceScene.ts:65), where the scene throws (RaceScene.ts:237); or the next racer is given lane 2 again |
| `InviteesFit` (invariant) | `MCRaceRoom`, `RaceRoom.cfg` | the host, who has no lane before its `race_join`, is not counted when invitees are added, so one more is invited than has a place |

Beside two of these stands what does hold.  `AskedForTheUnassigned` excuses exactly the
offers that were raised on an outdated reading, and `AnswersOutliveSweeps` is the order of
an answer and a sweep that is safe, since a sweep asks for PENDING in its UPDATE.  And one
promise is kept where the statements alone do not keep it: "duplicate offers for the
same BUD across concurrent assignment attempts" (repositories/yield_offer.py:139-141) do not
occur, thanks to the lock on the BUD's row that every path into the check already holds
(`AskedOnce`, without an excuse).

One more, of wording: when the smart picker raises, `bud_assignment.py:339-340` says
that the run falls through "to round-robin so assignment still has a chance"; the
code returns the BUD's present assignee (the "fail" run of `Runs`).

## 4. Proofs

Every safety invariant, action property and refinement that a run checks is also a
theorem, proved for every value of the constants from the assumptions of the
modules alone.  What each theorem says in words is in `PROJECT.json`; the table
gives the property it states and, in brief, what it rests on.

| Module | Theorem | States | Argument |
|---|---|---|---|
| `JobQueueProofs` | `TypeCorrect` | `[]QueueTypeOK` | inductive |
| | `OneOwnerHolds` | `[]OneOwner` | `IInv` = types, `OneOwner`, `Bookkeeping` |
| | `RunsOnce` | `RunsAtMostOnce` | `IInv`: a job in the queue has not run |
| | `CancelWins` | `[]CancelledNeverCompletes` | `CancelInv` beside `IInv` |
| | `RunningIsAlwaysHeld` | `[]RunningIsHeld` | inductive with `IInv` |
| | `NoHandlerIsLeftBehind` | `[]NoHandlerOutlivesPool` | `OneOwner`: who has a handler has a worker |
| `ChatClaimProofs` | `ChatTypeCorrect` | `[]ChatTypeOK` | `ChatIInv` |
| | `ChatsAreQueueJobs` | `QueueSafety /\ ImplementsQueue` | step by step, from `InStep` |
| | `LocksAreReleased` | `[]LockHasLiveHolder` | `ChatIInv` |
| | `StuckClaimsAreRecognised` | `[]StuckClaimIsRecognised` | `Tracked`, and `RunningIsAlwaysHeld` of the queue |
| `AgentTaskProofs` | `AgentTypeCorrect` | `[]AgentTypeOK` | `AgentIInv` |
| | `AgentsAreQueueJobs` | `QueueSafety /\ ImplementsQueue` | step by step, from `InStep` |
| | `CompletedMeansCompleted` | `[]CompletedJobHasCompletedRow` | `Progress` |
| | `LinkedRowsAreAttended` | `[]LinkedRowIsAttended` | `LookedAfter`, assuming `Dependable` |
| `PrMergeDeliveryProofs` | `DeliveryTypeCorrect` | `[]TypeOK` | `IInv` |
| | `DeliveriesAreAccounted` | `[]Accounted` | `InPlace`, and what a boot republishes |
| | `DoneIsTrue` | `[]DoneWasHandled` | `InPlace` |
| | `RunsAreBounded` | `[]RunsWithinBoots` | `Paid`, beside `IInv` |
| `LeaveBookingProofs` | `LeaveTypeCorrect` | `[]LeaveTypeOK` | `IInv` = `BookInv`, `TxInv` |
| | `TransactionsAreAtomic` | `ImplementsBook`, that is `Atomic!Spec` | what is written still fits the book at the commit |
| | `NoDayBookedTwice` | `[]NoDoubleBooking` | the members' locks |
| | `DaysAreCounted` | `[]DaysFollowCalendar` | the policy's lock |
| | `LocksAreOrdered` | `[]OnlyCalendarsDeadlock` | the phases |
| | `BalanceIsKept` | `[]PaidIsWhatBalanceCovers` | laws of sums over finite sets |
| `DesignFanoutProofs` | `FanoutTypeCorrect` | `[]FanoutTypeOK` | `IInv` = types, `Shape`, the next two |
| | `GeneratingIsOwned` | `[]GeneratingIsWorkedOn` | `Shape` |
| | `TasksAreRolledUp` | `[]TaskIsRolledUp` | `GeneratingIsWorkedOn`: who is at a design has its count before him |
| `YieldOfferProofs` | `YieldTypeCorrect` | `[]YieldTypeOK` | `IInv` |
| | `LocksAreReleased` | `[]LockedMeansPending` | `Shape` |
| | `NobodyIsAskedTwice` | `[]AskedOnce` | `OneHolder`, `NothingOpen` |
| | `OffersHaveAReason` | `[]AskedForTheUnassigned` | `WhatWasRead`, `NothingOpen` |
| | `AnswersStand` | `AnswersOutliveSweeps` (action property) | `WhatWasRead` |
| `RaceRoomProofs` | `RaceTypeCorrect` | `[]RaceTypeOK` | `IInv` |
| | `LanesMatchSimulation` | `[]EachRacesOnce` | `Shape`, `ClockFollowsPhase` |
| | `BannerIsTrue` | `[]BannerFollowsRace` | `ClockFollowsPhase` |
| | `ResultsAreAnsweredFirst` | `[]ResultsBeforeFinish` | `ClockFollowsPhase` |

Where a specification states fairness the theorem is about its safety part, or does
not use the fairness.

### The inductive invariants, and why they are needed

**Queue.**  `OneOwner` is almost inductive.  `Bookkeeping` adds what it lacks: a job that has been
started or successfully cancelled was minted, a job not yet minted has no entry in the
store, no worker is being cancelled while the queue accepts jobs, and a handler that
has returned has left its entry in a terminal status or expired.
`IInv == QueueTypeOK /\ OneOwner /\ Bookkeeping`.  The step is proved actor by actor
(callers, workers, handlers); `TakeHead` isolates the one fact about sequences it
needs.  `CancelWins` needs a strengthening of its own, `CancelInv`: the entry of a
cancelled job that was never started is CANCELLED or has expired, and that of one
whose handler still runs has expired, so that no handler is left that could report
COMPLETED.  `RunningIsAlwaysHeld` is inductive with `IInv`: a worker lets go of a job
either by writing a terminal status or after a return, when the entry is no longer
RUNNING.  A last section has lemmas for the compositions: what a step of the queue
keeps (`TailKeepsRest`, `StaysFindable`, `SettledStays`, `WaitingIsCancelledByCallers`).

**Compositions.**  A chat or an agent handler takes a step of its own *and* one of the
queue, and is a behaviour of the queue only if the two agree on where the handler
is.  `InStep` says that they do: no handler exactly where no task is, an ended
one exactly where the task has ended, a `CancelledError` still to be thrown only at a
task being cancelled, and so on.  From it follows that every step is one of
`QueueNext` or leaves the queue alone, hence `QueueSafety /\ ImplementsQueue`; all
theorems of `JobQueueProofs` then hold of chats and of agent tasks.
`StuckClaimsAreRecognised` uses one of them, and `Tracked`: the job that a claim names
was not refused by a full queue.  `CompletedMeansCompleted` needs `Progress`, the order
in which row, job, link and report can come about.  `LinkedRowsAreAttended` assumes
`Dependable`: no status write fails, and no job is cancelled through POST
/jobs/{id}/cancel.  That is the setting of the run `agent_task_live`; without either
TLC finds rows that nobody attends, and the section on divergences tells how.

**Deliveries.**  `Accounted` and `DoneWasHandled` need `InPlace`: a consumer has a
delivery in hand exactly between reading and settling it, the delivery is of the
consumer's repository and so are those on its stream, and what is about to be recorded
has been handled.  The boot needs that `Republished` loses nothing.  `Ascending` is a
CHOOSE, so it must first be shown that an ascending enumeration exists: the rank of an
element is how many are not above it, which is an injection of the set into as many
numbers and therefore onto them (`AscendingExists`); then, in the same way, that any such
enumeration lists every element (`AscendingListsAll`).  `RunsWithinBoots` needs `Paid`: the
runs of a delivery, its copies on the stream, the one in a consumer's hands and the one
still to be published are together no more than the starts of the backend.  A boot adds
one to either side, since what it publishes lists a delivery once (`RepublishedOnce`).

**Leave.**  The book's part of the invariant: rows are sound (no more days than the span
has, no more unpaid than there are), requests of a member are disjoint, the days are the
calendar's.  The transactions' part: `Compatible`, that no two of them hold one lock, and
`Fits`, what a transaction may rely on.  The core of `Fits` is `CanWrite`: what a
transaction has computed is still what its operation makes of the book.  That is stable
under the commits of others because an operation on a member reads and writes only the rows
of that member (the `...IsLocal` lemmas) and because what counts days excludes a change of
the calendar.  Then a commit is a step of `LeaveBook`, which is `TransactionsAreAtomic`, and
what every operation keeps every transaction keeps.  For `BalanceIsKept` the rows are
priced in order of their start against what is left, and the invariant is about sums over
finite sets, which the library defines by a recursive function.  Their laws (`SumExists`,
`SumTakes`, `SumGrows`, `PayInTurn`) are proved without an induction theorem, from a least
counterexample among the subsets of a finite set (`LeastSubset`).

**Designs.**  The two properties are nearly inductive together.  A roll-up that counts no
design as generating leaves the task to nobody else, and one that counts another leaves
it to whoever is at that design; that somebody is, and so has a count before him, is
`GeneratingIsWorkedOn` (`GeneratingIsCounted`).  `Shape` adds the order of jobs and links:
what a request has queued is not linked yet, so that no cancellation can signal it; a row
names a job that was made for it; one task is active at a time; and whatever is abandoned
is also excused.  `lost` and `abandoned` are as in the model: the theorem does not say that
a blind count settles the task, which the run `design_rollup` refutes.

**Yield offers.**  `WhatWasRead`: between a request's read and its write, the offer it
answers is still of the BUD it has in mind, and was not free.  `OneHolder`: the row of a BUD
is held by one assignment at a time.  `NothingOpen`: what a run that raises an offer found
closed is still closed, but for what it closes itself; it is kept because only a holder of
the row opens an offer.  Then the offer it raises is the only one, and if its reading of
the owner was not outdated, the BUD has nobody.

**Races.**  `ClockFollowsPhase` ties the room's delayed calls to its phase and the results'
post to placed results; `Shape` keeps the lanes within the room's size.

### Assumptions

They are the ASSUMEs of the modules, and TLC evaluates them on every run.
`QueueAssumption`; `DeliveryAssumption` (each delivery is of one repository, and the
batch limit and the number of boots are positive); `LeaveAssumption` (requests are finitely
many rows, each of one member; the limits are numbers; an adjustment of zero exists) and
`BookingAssumption`; `FanoutAssumption` (repositories are finitely many; `Nothing`, which
stands for NULL, is not one of them); `YieldAssumption` (`Nobody`, which stands for NULL, is no user, BUD or
offer); `RaceAssumption` (people and bots are finite and distinct, and fewer bots than
lanes, which `resolveBotCount` ensures).  `Dependable` is a hypothesis of one theorem and
nothing else's.

### Only model-checked

What is temporal beyond step properties: `QueuedIsSettled`, `CancelSettles`,
`UncancelledChatReleases`, `QueuedTaskSettles`, `RecordedIsSettled` and
`RoomsComeToAnEnd`.  They rest on fairness, and so on `ENABLED`, which the prover does not
handle.  And the counterexamples: `RollUpIsNeverLost`,
which the run `design_rollup` finds, and the traces of the table in section 3.

## 5. Not modelled

Daily posts, scan runs, the other multiplayer rooms and "Others" of section 1.  The
daily post's claim is one conditional upsert; what could go wrong lies between
Slack's answer and its record, and a second post is what the code accepts then.  The
BUD's status table, the estimation, imports and exports are conversions and tables
that unit tests reach.  The AI runner and its guards are subprocess I/O and patterns:
to the models an agent run succeeds, fails, raises or is cancelled.  The MCP server's
handlers are single transactions; its rate limits and synthesis queue are not modelled
yet.

Of leave: half days, the monthly limit, monthly accrual and carry-over, optional
holidays, work from home, and members who change their policy.  Of assignment: how a
candidate is ranked.  Of designs: the design system's extraction job, and a fan-out in
an organisation without a designer skill.  Of rooms: physics, and the bridge except
for the decline.  Everywhere: the wording of messages and events, progress
percentages, permissions, and the content that agents produce.  One job type stands for all: they share only `_job_store`, whose
entries are per job.  One process stands for the deployment: the queue, the locks
and the consumers are all in-process, and the code is written for one.

## 6. Plan

Proofs:

1. The steps of the liveness arguments that are safety: for `RecordedIsSettled` that in a
   run without faults `dropped` stays what the last boot left; for `QueuedIsSettled` that
   the place of a job in the queue never grows.
2. The order of a recovery: that what a boot adds to a stream is ascending within a
   status, beside the refuted `OrphansInArrivalOrder`; `AscendingExists` already gives it.
3. A consequence of `PaidIsWhatBalanceCovers`, for every booking: that paid days never
   exceed the allowance with its adjustments where those are not negative.

Models that could follow: `DailyClaim` (the claim row of the leave digest with its
retries and abandoned claims), `MinigameSlots`, and `ScanRun` (phases, fan-out and
barrier).
