# A verification project for mikuswarm

mikuswarm is a chat agent written in TypeScript. It listens to Matrix, Discord and
IRC rooms, keeps a timeline of each room in SQLite, and runs LLM sessions that
answer in them. It is one Node process: every handler runs to its next `await`
without interruption, and everything hard about it lies between two awaits. Many
sessions and worker pools share a few LLM budgets; a room fills the gap in its
history while live messages arrive; several replies to one message are in
different stages of being answered at once; and a crash may fall anywhere.

The TLA+ modules here model those schedules. Paths below are relative to the
root of the source tree (`src/agent/...`), except in `PROJECT.json`, where that
tree is the directory `src/`.

Contents: [1 Inventory](#1-inventory) ·
[2 The models](#2-the-models-and-the-code) ·
[3 Checks](#3-what-is-checked) ·
[4 Fairness](#4-fairness) ·
[5 Proofs](#5-what-is-proved) ·
[6 Findings](#6-where-the-code-and-its-documentation-disagree) ·
[7 Limits](#7-limits) · [8 Plan](#8-plan)

To check a run: `tlc -config LlmScheduler_pump.cfg MCLlmScheduler`. To check the
proofs of a module: `tlapm LlmSchedulerProofs.tla`, and the same for the other modules
named `...Proofs`. The two large runs, `sessions_runs` and `components`, take between
two and four minutes; `ComponentsProofs` takes about twenty, the other proofs ten at most.

## 1 Inventory

### 1.1 The path of a message

A provider (`src/matrix`, `src/discord`, `src/irc`) delivers an event to
`handleInbound` (`src/app.ts`). If the gap backfetch holds the room frozen, the
event is buffered. Otherwise it is appended to the timeline table through the
single-writer queue of `src/storage/database.ts`, evaluated for a trigger, and, if
it is one, either steered into a session that is already running, parked on one
that is about to run, accepted into one of the timeline's slots, queued behind
them, or dropped on a full queue. `launchSession` then attaches a session to it:
a fresh one, or a completed one resumed from the database. The session runs an
agent loop (`src/agent/runner.ts`) whose LLM requests pass the retry layer, the
model chain and the scheduler, in that order, and whose tools act on the rooms.
When the session ends its listeners release its claim, dispatch again what was
parked on it or steered but never read, and give its slot to the next queued
trigger. Beside all this, worker pools enrich, caption, summarize and embed what
is stored, and draw on the same scheduler at lower priority.

### 1.2 Components with concurrency of their own

| component | state | operations | what is hard | what makes it correct |
|---|---|---|---|---|
| **LLM scheduler** `agent/scheduler.ts` | per group: priority queue, active entries, backoff, two timers; per model: health, failure streak, probe slot, probe window and timer; pinned escalations | acquire, abort, note outcome, release, escalate, background probe, stop | a slot, a probe and a wakeup are owned by different parties and handed on by callbacks | slots are counted exactly; no waiter is left without anything that will admit it; a model is never gated by a probe nobody runs; priority order |
| **Startup gap backfetch** `backfill/coordinator.ts`, `backfill/paginate.ts` | per room: phase, floor, paging cursor, backfill and live buffers, recorded hole; parked deletions; the timeline table | prepare, launch, page, cap, release, fail, commit, unfreeze and replay, drain | a crash between two appends; live traffic and deletions while a room is frozen | the high-water never passes a gap; buffered messages are handled once, in order; deletions stick |
| **Sessions** `app.ts`, `timeline/trigger.ts`, `agent/session-claims.ts`, `agent/session-manager.ts` | slots and queue per timeline, claims, sessions and their status, parked co-replies, steering queues, resume claims, revival windows | inbound, coalesce, steer, launch, resume, attach, settle, interrupt, revive, expire | some twenty awaits at which another handler may change all of it | a slot belongs to one trigger; a claim never leaks; one run per session; a message is not answered twice; every trigger comes to rest |
| **Timeline activation** `timeline/activation.ts` | timeline status row, in-memory guard, held triggers, the writer's queue | activate, hold, flip, promote, reset, replay | a crash or a rejected write between the flip and the promotion; triggers during both, and triggers that read the status before they act on it | no event stranded, each trigger accepted once, no room left activating |
| **Late input** `agent/late-input.ts` | the filed step, the rebuild mark, redo count, recorded effects, the window after the end | arrive, hold, redo, cancel, fall back, interject, revive | a correction arrives between the end of the hold and an irreversible call, or after the runner's last look | no rollout that delivered a message is thrown away; no correction is forgotten; redos are bounded |
| **Folded messages** `app.ts`, `agent/follow-up-watch.ts` | `steeredEventIds`, `pendingSteers`, `readReplySteersAwaitingTwin`, parked follow-ups | deliver twice, park, download, steer, redeliver, revive | a session settles, is resumed or revived between the two deliveries of one message or during its download | a message is answered once, and no trigger is lost |
| **Request retry** `agent/request-retry.ts`, **model fallback** `agent/model-fallback.ts` | attempt phase, wait budget, abort cause; members used, refused, excluded, groups failed, notes | choose, admit, stream, stall, sleep, retry, fall over, end | health changes between two attempts; a budget expires while the first token is under way; notes taken at dispatch are read when the attempt ends | a usable member is asked before another is asked again; a working generation is never aborted; an abort ends the request |
| **Session runner, redo and fork** `agent/runner.ts`, `redo-signal.ts`, `fork.ts` | transcript, steering queue, nudges spent, redo request, refusal walk, late-input step | prompt, continue, nudge, fork, redo, rebuild, apply a step, stop | a refusal, a correction, a steer and a Stop meet at any await of the loop, and each resets what bounds the others | a fork keeps what was delivered and steered; a refused output is never the answer; a Stop is heeded; the run ends |
| **Records and recovery** `agent/session-capture.ts`, `session-records.ts`, `recovery.ts` | record turn chains, status rows | capture, settle, resume | two writers of one session's row | compare-and-set on the status row |
| **Deep message backfetch** `backfill/message-backfetch.ts` | job row with cursor and count, the room's floor, pause and cancel flags | start, page, pause, resume, cancel, drain | killed between storing a page and saving the cursor; ordered to stop in the middle of a page | one job per room; no page skipped or counted twice; the floor stays |
| **Enrichment**, **captioning** `*/worker-pool.ts` | rows pending / processing / complete / failed, attempts, one timer field, busy workers | poll, claim, sleep, notify, work, retry, stop, restart | several callbacks share the timer field; a row is edited under its worker | at most `worker_count` workers; no row stays in processing; attempts bounded; the pool never falls silent |
| **Summarization** `summarization/worker-pool.ts` | job rows, draft, escalation, sticky escalation of the scheduler | claim, run, judge, insert, salvage, give up, escalate | each of a dozen writes may reject; a drain aborts the run; a session waits without a clock | never stranded, one summary, drafts salvaged, escalations cleared |
| **Edits and the re-decryption sweeper** `timeline/store.ts`, `redecryption/index.ts` | message row, shown version, parked edit, attempts, backoff | arrive, edit, sweep, probe, give up | edits before their message, out of order, decrypted late, a restart between two writes | the newest edit is shown or parked; a placeholder outlives its edit; a row is given up in the end |
| **Worker processes of retrieval** `retrieval/onnx/worker-rpc.ts` | requests, deadlines, graces, the pipe, the child's chain | call, abort, close, time out, answer, die | an aborted request queues behind others in a child that works on one at a time | a request settles; a child is killed only when it is stuck |
| **Resident window** `retrieval/late/*.ts` | record of the window, version, the worker's blocks | index, refresh, page, load, query, die | the worker dies or is respawned between two steps of an update | a query never leaves out what no worker holds; no refresh is forgotten |
| **Paced limiter** `net/paced-limiter.ts` | slots, waiters, next start | acquire, hand over, release | a slot handed to a waiter that has not resumed yet | never more than the limit; starts are paced |
| **Proactive posting** `proactive/scheduler.ts` | per-channel timers, daily counts | tick, launch | the count lags behind the launch | a post takes a slot like any other run |
| **Diary and memory files** `diary/worker-pool.ts`, `storage/memory-writer.ts` | job rows, the day's file, the writer's FIFO | claim, run, append, settle, retry; ensure, append, edit | the entry and the end of its job are two writes; sessions edit the file a worker appends to | no entry overwritten, none written twice but by a failure, no job done without it or stranded |
| **Budget, user limits** `budget/engine.ts`, `budget/user-limits.ts` | rolling totals per rule | record, tick, admit | model calls in flight are not counted yet | a total never forgets spend for longer than a tick |
| **Output gate** `checks/*.ts` | verdicts, holds, revisions | check, hold, revise | model verdicts decide | a held message is sent at most once |
| **Storage** `storage/database.ts` | SQLite, one write queue | transactions | | serial, atomic writes (assumed by the models) |

### 1.3 Components without it

Agent factory and tool plumbing, timeline routing and edits, context building,
decisions and refusals, retrieval and search, tools, sandbox, browser, MCP
clients, chat providers, media and link clients, workspace and bootstrap,
configuration, observability, audit and behaviour statistics, application wiring,
the native Matrix core, the console, packaging. They render, parse, call external
services or compute on model output. `PROJECT.json` lists each with its reason;
where one changes the state of a modelled component (a cross-channel send, an
operator's interrupt, a skipped room) that change is an action of the component's
module.

### 1.4 Hazards

`PROJECT.json` lists 40 places where this code can go wrong in a way a unit test
would hardly reach, each with the properties that watch it or the reason none
does. They lie where two handlers meet: the drifting slot counter
(`scheduler.ts:1097`), the straggler's outcome taken for the probe's
(`scheduler.ts:690`), the crash between two appends of a commit
(`coordinator.ts:824`), two replies arriving together (`app.ts:3636`), a session
revived while another handler waits to resume it (`app.ts:8360`), the message
steered after the agent's last look at its queue (`app.ts:5373`), the reply that is
delivered twice (`app.ts:5349`), the correction between a hold and a call
(`late-input.ts:589`), the timer field several callbacks share
(`enrichment/worker-pool.ts:163`), the escalation told after its job has ended
(`escalation.ts:36`), the entry and the edit of one file (`memory-writer.ts:42`), the page whose cursor is not saved yet
(`message-backfetch.ts:406`), the grace that starts too early (`worker-rpc.ts:290`), the Stop that finds nothing to
abort (`runner.ts:235`), the fork before a delivery (`fork.ts:121`).
One is watched by no property, for a stated reason: two gap messages that share a
millisecond (`coordinator.ts:695`).

## 2 The models and the code

Each component is a module with no dependency on the others; what one does to
another is an action of the other (a session's LLM request is a caller of the
scheduler; the trigger that `Write` of GapBackfetch evaluates is an unseen trigger
of Sessions; a fallback of `LateInput` is a trigger dispatched again; health in
`RequestChain` flips as `LlmScheduler` allows). `MCSessionRuns` and `MCComponents`
instantiate several components and run one per behaviour: the components beside
each other share no variable, so their product would only multiply states, while
one initial choice adds them. A definition `X_Something` next to `X`, marked
*Mutant*, is a wrong version of `X` kept to show that a property can fail; nothing
else uses it.

### 2.1 `LlmScheduler`

One action is one run-to-completion turn of the event loop, with every pump it
calls.

| variable | code |
|---|---|
| `req[c]` | the `QueueEntry` or `ActiveEntry` of caller `c`: status, effective class, who was queued before it, whether it is the probe, whether its outcome is noted |
| `group[g]` | `GroupState`: active count, "backoff has not elapsed", backoff timer armed, probe timer armed |
| `health[m]` | `ModelHealthState`, with "the probe window is open" for `nextProbeAt`, the background timer, and the prober calls in flight |
| `sticky[k]` | `stickyEscalations` |
| `probers`, `stopped` | the registered background probers, `stopped` |

`pump` is a loop that admits the first admissible waiter again and again. The
model does not repeat the loop: `Fits(S)` says that the set `S` it admitted obeys
every limit, `PassedOver(c, S)` that each waiter left out was refused because of
those admitted before it. One set satisfies both. Time is two facts, "the
backoff has not elapsed" and "the window is open", which two actions change;
delays matter only by their order, so `delay` is kept in units between
`BaseDelay` and `MaxDelay`. The failure streak saturates at the threshold it is
compared with.

| actions | code |
|---|---|
| `Acquire`, `AbortWait` | `acquire` and its abort listener |
| `Throttled`, `Finish` | what `withSchedulerAdmission` reports: a throttle response at once, the terminal outcome at the end; with `noteOutcome`, `noteModelOutcome`, `failProbe`, `rescheduleProbe` |
| `Release` | `release`, `settleStaleProbe` |
| `Escalate`, `ClearEscalation` | `escalate`, `clearEscalation` |
| `BackoffElapses`, `BackoffTimerFires`, `WindowOpens`, `ProbeTimerFires` | time and the timers of `armBackoffTimer`, `armProbeTimer` |
| `RegisterProber`, `BackgroundProbeStarts`, `BackgroundProbeSettles` | `registerProber`, `runBackgroundProbe` before and after its await |
| `Stop` | `stop` |

### 2.2 `GapBackfetch` and `RoomHistory`

A message is its position in its room. `posted`, `erased` and `own` are the
server; `stored`, `deleted` and `waived` are the timeline table, the only thing
that survives `Exit`; everything else is the process. `handled` and `retracted`
are history variables, and `waived` records losses the bot acknowledged (the hole
recorded by a cap, the gap of a released room), which become permanent once
something newer is stored. `parked` is `PendingDeletions`, which is bounded in time
and in size; `lapsed` is the history of what it dropped for that.

| actions | code |
|---|---|
| `Post`, `EraseUnseen`, `Erase`, `Send` | the room; `Erase` is also the live deletion path (`deletions.ts`, `pending-deletions.ts`, `markBufferedDeleted`), `Send` a cross-channel send |
| `Lapse` | a parked deletion expires, or is evicted by newer ones (`PendingDeletions`) |
| `Deliver`, `Write` | `handleInbound` up to its first await, and after it |
| `Prepare`, `StartProviders`, `Launch` | `prepare`, provider start, the workers of `run` |
| `ReadPage`, `GiveUp`, `Fail`, `Release` | the descent: a page, a cap, an error, a room that cannot be read |
| `AppendNext`, `Unfreeze` | `commit`: one awaited append per message, then unfreeze and replay in one synchronous step |
| `Drain`, `Exit` | graceful shutdown; the process ends, at any point |

`RoomHistory` is the abstract specification: a room's history is only ever
extended at its newer end, and what it lacks is excused. `HistoryExtends` states
that each unit of `GapBackfetch` implements it, with `stored` for `kept` and
`erased \cup waived` for `excused`. `MCGapRuns` holds two instances, "restarts" and
"faults"; a behaviour is of one of them, chosen by its initial state, and
`HistoryKept` is `HistoryExtends` for it.

### 2.3 `Sessions`

One timeline. An action is what the code does between two awaits, over all the
modules that take part in it. A session is named by the trigger it was created
for; `serving` says which trigger it works for (another one, after a resume).

| variable | code |
|---|---|
| `slots`, `queue` | `TriggerCoordinator.activeByTimeline`, `queues` |
| `claims`, `older`, `by` | `SessionClaims`: the triggers claimed, for each those claimed before it, and its session |
| `stage`, `via`, `into` | where the handler of a trigger stands, on whose behalf, and what the trigger is parked on or steered into; "leaked" is a trigger whose slot and claim a launch that threw has left behind |
| `sess`, `serving` | the session record's status; `building` is "running, no agent attached yet", `ending` and `failing` the awaits between the end of the run and its settlement |
| `window` | sessions whose late-input entry still allows a revival |

| actions | code |
|---|---|
| `SteerReply`, `Coalesce`, `Spawn` | the synchronous part of `handleInbound`: `steerReplyToActiveSession`, `coalesceCoTargetReply`, `accept` and `addClaim` |
| `GroupResolved`, `Regrouped`, `Conditioned` | after `resolveTriggerGroup`, in `redispatchCoReply`, after the awaits of `steerCoReplyWithPixels` |
| `Register`, `ResumeAwaited`, `ResumeAccepted`, `ResumeDeclined`, `LaunchThrows` | `launchSession`, `tryReplyResume`, `acceptResumeGeneration` |
| `GoLive`, `BuildFails`, `ResumeThrows` | `attachAgent` with the parked co-replies; refusals and failed builds |
| `ReadSteers`, `SpinOff`, `RolloutEnds`, `Complete`, `RunFails`, `FailSettles`, `Close` | the run and its end; `Close` is the slot released after a failed run has settled |
| `Interrupt`, `InterruptedSettles` | an operator stops a run |
| `Expire`, `Revive` | the revival window; `revive` after its awaits |
| `Post` | a tick of the proactive scheduler that passes its gates and takes a slot |
| `Recover`, `RecoveryFails` | an operator resumes what failed or was stopped (`recovery.ts`) |

`Leave`, `Evict` and `Settled` are the settle listeners, which run in the step
that settles the session: claims released, parked co-replies dispatched again,
unread steers redelivered, the slot passed to the head of the queue.

### 2.4 `Activation`

A room's row (`state`) and the status of each stored message (`row`) are the
database; `buffer` is the guard with its held triggers; `writes` is the queue of
the single writer, `at[m]` the stage of the handler of `m`, and `calls` the
handlers called in the current turn. A write takes effect when it reaches the head
of the queue, so "what the handler read" and "what the table holds when it writes"
may differ, which is what the module is about.

| actions | code |
|---|---|
| `DeliverPlain`, `DeliverTrigger`, `Dispatch`, `Gate` | intake and the trigger hold, the branch on the state that was read |
| `StoreInactive`, `StoreHeld`, `StoreStranded`, `StoreActive`, `ResetStranded` | the ways a message is stored |
| `Activate` .. `Promote`, `Reset`, `Abandon` | the prelude, one action per await |
| `PreludeFails`, `WriteRejects`, `Drain`, `Crash`, `Restart` | faults |

### 2.5 `LateInput` and `FollowUps`

`LateInput` is one session and the corrections of its request. `pending`,
`rebuild` and `taken` are the step filed, the mark "build again" and the step
being applied; `call` is the irreversible call under way with its hold, `posts`
and `reacts` the effects recorded; `fate` is a history variable, one value per
correction. `Arrive` (`RequestRestart`, `RequestCancel`), `BuildStarts`,
`BuildDone`, `Call`, `HeldCallEnds`, `Execute`, `CallReturns`, `Check`, `Apply`,
`Rebuild`, `Cancel`, `FallBack`, `Interject`, `End`, `Expire`, `Revive` are the
handlers of `late-input.ts` and the runner's idle points.

`FollowUps` is one session and the messages folded into it. `got` says which of
its two deliveries a reply has had; `steered`, `place`, `awaited` and
`readReplies` are the four tables of `app.ts` that remember it; `read`, `own` and
`spun` record how it was answered. `RawReply`, `TwinReply`, `LateReply` and
`Fold`, `Fetched` are the deliveries, `Completed` is `redeliverUnreadSteers`, and
the rest is the life of the session as far as these tables see it.

### 2.6 `SessionRunner`

The loop of `agent/runner.ts` over one transcript. `msgs` is what follows the
kickoff, one entry for a message of the assistant together with its tool results
(`calls` with the messages it delivered and whether a sibling was refused, `text`,
`noreply`, `error`, `aborted`), for a nudge and for an interjection; `queue` is the
agent's steering queue. `run` names what the runner waits for. `control` is the
`SessionRedoControl`, `tries` the walk through a refusal rule, `late` the step that
`late-input.ts` has filed for this session, `step` and `from` the one being applied
and what is to follow it. `delivered` and `heard` say what really happened, `extra`
counts requests issued after a Stop, and `stale` excepts one case (section 7).

| actions | code |
|---|---|
| `Start`, `Nudge`, `ApplyRedo` with `Issue` | every place that asks for a request, through `issueOrApplyLateInput` |
| `Answer`, `Call`, `ToolsDone`, `Aborted` | the agent library's turn with `shouldStopAfterTurn`, the gate and `actOnRefusal` |
| `Settled`, `TakeRedo`, `Fail`, `Report` | what a settled turn is taken for, in the order of the code |
| `Refused`, `Ending`, `GiveUp` | the judgement of an ending (`onEnding`), the contract redo, the ends |
| `CancelRun`, `Rebuild`, `Rebuilt`, `RebuildEnds`, `Continue` | `lateInputNext`, `restartSession`, `continueAfterAbortedTurn` |
| `Steer`, `Correct`, `Stop` | messages and operators, between any two of the others |

`ForkKeeps` and `Forked` are `findForkPoint` and `forkSession`: the kept part ends at
the last delivery before the refused call, or at its message if a sibling delivered.

### 2.7 `RequestChain`

One request of a session: `request-retry.ts` repeats it and `model-fallback.ts`
chooses who serves each attempt. `used`, `refused`, `excluded` and `failedGroups`
are the pass over the chain, `notes` what the resolver wrote at dispatch, `clock`
the wall-clock budget, `cut` why the attempt was aborted. `health` is changed by
`Flip`, which stands for other requests and probers.

| actions | code |
|---|---|
| `Dispatch`, `Admitted`, `FirstToken`, `Done`, `Truncated` | an attempt that works |
| `Errs`, `Degenerates`, `Stalled`, `ContentError`, `Refusal` | one that does not, with `Fails`, `FallsOver` |
| `StallTimer`, `BudgetExpires`, `CallerAborts`, `AttemptAborted` | what cuts it short |
| `Wake`, `WakeAborted` | the sleep between two |

### 2.8 `WorkerPool`, `SummaryJobs` and `DiaryJobs`

`WorkerPool` is the loop of enrichment and captioning: `timer` is the one field in
which the next poll or the end of a sleep is kept, `waker` the resolver of a sleep,
perhaps of one long over. `CountsAtClaim` is the difference between the two pools.
`Claim`, `Sleep`, `SleepEnds`, `Notify`, `Succeeds`, `Fails`, `FailsForGood`,
`WriteRejects`, `ClaimRejects`, `Edit`, `Budget`, `Stop`, `Exit`, `Start` are its
turns. `SummaryJobs` follows a claimed job through the awaited writes of its
worker: `at[j]` names the write awaited, `AfterClosing` what follows the end of a run
(also a refused one keeps its draft, for a retry by hand), and the sets `Guarded` and
`Escaping` say what becomes of a rejection. `Escalate`, `EscalateThen` and `Tell` are the two
halves of `escalation.ts` around its await, with the scheduler's `sticky` set.

`DiaryJobs` does the same for the diary pool, with the file its entries go to.
`file` counts the texts of each writer: the workers, `write_memory` (`"editor"`) and
the general text editor (`"direct"`). An operation of `MemoryFileWriter` is several
calls of the file system (`op`: `Ensure`, then `AppendFile`, or `ReadFile` and
`WriteFile` in its two steps), and `MayRun` is the promise chain: only the head of
`tail` takes its next step. `write_memory` is two operations with a gap between
them. The direct editor reads and writes without asking.

### 2.9 `MessageEdits`, `BackfetchJob`, `PacedLimiter`

`MessageEdits` is one message (event 0), its edits in the order of their
timestamps, and the sweeper; the upsert of `pending_edits` and the comparison with
`last_edit_timestamp` are `Parking` and `IsStale`. `todo` is the set of rows that the
tick under way has yet to probe, `Oldest` the order and the limit of the query that
filled it, `IsNext` the row whose turn it is. `BackfetchJob` is one room and
its jobs; the history is a sequence of positions whose timestamps need not
fall with the position. `LookAt` is `onMessage`, `PageDone` and `Check` the two
halves of `onPage`. `WriteRejects` is a rejected write: within a page the run fails,
its own first or last write takes the run with it (`forsaken`). `PacedLimiter` keeps time relative: `ahead` is how far the
schedule reaches beyond the present, and `Tick` is punctual.

### 2.10 `WorkerRpc` and `LateWindow`

`WorkerRpc` is both sides of the pipe: `toChild` and `fromChild` are queues,
`chain` and `running` what the child has read, `deadlines` and `graces` the timers
set in the parent. `LateWindow` is the record `window` of what the worker should
hold, against what it holds (`loaded`), with an update whose pages and loads are
interleaved with queries, stores, deaths and respawns.

## 3 What is checked

| run | instance | properties | states |
|---|---|---|---|
| `scheduler_pump` | 1 group of 2 slots, 3 callers of classes 3, 1 and 0, a share of one slot, an escalation key, a model probed by live requests | `SlotAccounting`, `CapacityRespected`, `EscalationHeld`, `WorkConserving`, `InteractiveServed` | 99,475 |
| `scheduler_probers` | 2 groups of 1 slot share a model with a background prober, threshold 2, delay 1..2, up to 2 probes at once | `TypeOK`, `ProbeOwned`, `NoLostWakeup`, `NoQueueJump` | 354,556 |
| `scheduler_shared_model` | the same two groups, delays 1, prober calls at most 1 | `NoLostWakeup` is violated | |
| `gap_runs` | two instances of `GapBackfetch`, 1 room: "restarts" (4 messages, pages of 2; crash, drain, recorded cap, release, deletion) and "faults" (3 messages; also read and write errors, unrecorded caps, cross-channel sends, parked deletions that expire or are evicted) | `TypeOK`, `GapsStayOpen`, `DeletionSticks`, `HistoryKept`, `StepsSound`, `EverythingSettles` | 773,501 |
| `gap_failed_read` | 1 room, 3 messages, crash and read error | `NoBuriedGap` is violated | |
| `sessions_runs` | three instances of `Sessions`; `Activation`, `LateInput`, `RequestChain` | `TypesOK`, `SlotAccounting`, `QueueMoves`, `ClaimsOwned`, `ParkedHaveOwner`, `ActivationSafe`, `CorrectionsKept`, `MembersTried`, `NoTwinEver`, `OneRunPerSession`, `NoStepBack`, `EverythingSettles` | 835,004 |
| `sessions_revived` | as the replies of `sessions_runs` | `NoTwinOfRevived` is violated | |
| `sessions_launch` | a session, a reply to it, two other triggers, launches that throw | `NoClaimLeaks` is violated | |
| `request_aborted` | `RequestChain` with two members, a quota of 2, one trip | `AbortedByCaller` is violated | |
| `components` | `WorkerPool` twice, `SummaryJobs`, `DiaryJobs` twice, `PacedLimiter`, `MessageEdits`, `BackfetchJob`, `WorkerRpc`, `LateWindow`, `FollowUps`, `SessionRunner` twice | `TypeOK`, `PoolSafe`, `SummarySafe`, `DiarySafe`, `EditsKept`, `BackfetchSafe`, `PacingSafe`, `RetrievalSafe`, `FollowUpsSafe`, `RunSafe`, `StepsSound`, `EveryJobEnds`, `EveryCallerEnds` | 500,421 |
| `followups_twin` | `FollowUps` with one reply and one mention | `StillAnswered` is violated | |
| `runner_stopped` | `SessionRunner` with one message to send and a Stop | `NothingAfterStop` is violated | |

The properties of the composite runs are conjunctions: each is named for what
it promises, and its conjuncts are the properties of the component's module.

What they show:

- **Scheduler.** Through every path a request can leave by, the counter `pump`
  reads equals the slots held. A recovery, release, abort or backoff never
  forgets a waiter that could go: a healthy waiter is left beside a free slot
  only while the backoff timer is armed, and an outage of one model does not
  block another's waiters. An escalation is held whether it came before or after
  its entry. Entries overtake one another only past an unhealthy model or a full
  share. A top-class caller is admitted through any mixture of throttling,
  outages and full groups.
- **Gap backfetch.** Wherever the process dies, the next start finds a high-water
  below which nothing is missing except what was deleted or put on record as
  lost, and the sequence of all its lives is a history extended only at its end.
  Messages that arrive during the freeze are handled, in order, before those
  that come later. A deletion reaches the stored row whichever buffer the message
  was in; only while it is parked may it expire or be evicted, and in "restarts",
  where that does not happen, none is lost.
- **Sessions.** Each slot belongs to one trigger, post or recovery from `accept`
  to the end of its run, and is passed on in the step that frees it. Claims are
  exactly the triggers under way. A second reply to the same message is folded
  into the first one's session in whatever stage that is. No session is run twice
  at once, whether by a trigger, a revival, a reply that resumes it or an
  operator, and no chain of parking, re-dispatch, resume and revival loses a
  trigger.
- **Around a session.** An activation that crashes or whose writes reject strands
  no message and accepts no trigger twice. A correction never throws away a
  rollout that delivered a message, and it is read, redone, steered or answered on
  its own. A reply and its twin are answered once; a trigger is lost only to
  finding 6. A request ends without having asked a member that could have served
  all along only when the caller aborted or no time was left, and a token that has
  been produced is never followed by a timer's abort.
- **The run of a session.** Whatever is refused, and whichever of its siblings were
  delivered, the fork of a redo keeps every delivery and every interjection. Nothing
  that was judged a refusal is left as the answer of a run that ends on its own. A
  Stop in any state lets at most the request through that was about to be issued.
  Nudges, redos and corrections reset one another's budgets, and every run ends all
  the same; no request is issued that a pending correction has made stale, except a
  nudge after a step that came to nothing.
- **Pools and jobs.** Four callbacks share the pool's timer field and none of
  their orders silences the pool. A summarization job survives rejected writes,
  drains, crashes and retries by hand: it is not stranded, is charged only for its
  own failures, stores one summary and ends with the best draft it ever had. A
  diary job is done only when its entry is in the day's file, writes a second one
  only after a crash, a rejection or an operator's retry, and no entry is lost to a
  session that edits the file through the FIFO at the same time. A
  deep backfetch counts and stores each page once, whichever of its two writes was
  the last before the process ended.
- **Beside them.** The newest edit is what a message shows, from whatever order of
  arrivals, decryptions and restarts. The limiter paces starts through hand-overs.
  A request to a worker process settles although the child may die, hang or answer
  late, and the child is killed only when its own oldest request is overdue; a
  query never leaves out a block that the worker does not hold.

### Bounds, and why they are enough

- *Scheduler.* `MaxBackground` bounds prober calls in flight; the code itself
  allows a second only after a stale window, and a third repeats the case. Three
  callers are one more than the slots, so that someone waits, and suffice for a
  probe, a straggler admitted before the outage and a waiter. Two groups show
  what crosses them. With `scheduler_probers` the case "the only prober call is
  old" needs two at once, which is why its bound is 2. The delays are ordered by
  a doubling and a cap: one and two units show both.
- *Gap.* `MaxMessages` messages per room: 4, with pages of 2, allow a stored
  prefix, a gap of more than a page, and a live message. Rooms share nothing but
  the workers, so one room is enough for everything except a lack of workers,
  which is a known limit (section 7). Neither the ten minutes nor the thousand entries
  of `PendingDeletions` are counted: `Lapse` may happen at any time, which includes
  every moment at which the code would drop an entry. `Events` selects the faults of an instance:
  with all of them at once the properties of "restarts" are false, for the
  reasons in sections 6 and 7.
- *Sessions.* Each trigger arrives once, so an instance is finite without further
  bounds. `replies`: three replies to one message, one with an image, and a reply
  to the first one's session; one slot, a queue of one: owner, parked, queued and
  refused at once. `resumes`: a session, two replies to what it said, another
  trigger, a queue of 2, launches that throw. `recoveries`: a trigger, a reply to
  its session, a proactive post, a reply to that, and an operator who resumes. The
  timestamps are equal, within the runs' `Window`, so that every pair of co-replies
  may coalesce; messages too far apart are unrelated triggers.
- *Activation*: 3 messages of which 2 are triggers, 2 rejected writes
  (`MaxFaults`), 1 crash. *LateInput*: two edits and a withdrawal, 1 redo, 1 visible
  call: one correction may be applied, one superseded, one late. *RequestChain*: 2
  members of different groups, quota 1, `MaxFlips` 1, `MaxReissues` 1.
- *Pools*: 2 rows, 2 workers, 2 retries, one edit, one rejected write, one restart,
  for captioning one retry by hand: two workers on two rows is the least for a
  worker that ends while another sleeps. *SummaryJobs*: 1 job (jobs share no
  state but the order of claims), 1 retry, 3 rejected writes so that the last
  resort may fail too, 1 restart, 1 retry by hand, 1 redo. *DiaryJobs*: 1 job, since
  workers meet only in the FIFO, where an append and an edit are two operations as
  well. "diary": 1 retry, 1 rejected write, 1 restart, 1 retry by hand, 1 redo, no
  edits. "memory": an edit through the FIFO, one around it, 1 restart, no rejections.
- *PacedLimiter*: 4 callers for 2 slots, interval 2. *MessageEdits*: 2 edits, a
  window and a batch of one row, 2 attempts, 1 restart. *BackfetchJob*: 2 jobs, 4
  positions of which the last is younger than the one before, pages of 2, targets
  of 2 rows and of all, a cap of 2, one drain, one order, and one fault
  (`MaxFaults`), a crash or a rejected write. *WorkerRpc*: 3
  requests, the least for one that runs, one aborted behind it and `close`.
  *LateWindow*: a window of 2 of 3 blocks, pages and loads of 1, 2 deaths.
  *FollowUps*: 2 replies and a follow-up with an image, 1 resume by a reply that is
  not modelled, 1 revival by a correction.
- *SessionRunner*, each with one Stop and one entry of the refusal rule.
  "corrected": one message to send, one interjection, one correction, no nudges.
  "nudged": two messages, so that a refused call may have a delivered sibling or
  follow an earlier delivery, and one nudge. What a nudge and a correction do to
  each other in one run is outside both.

`CHECK_DEADLOCK` is off in every run, because every instance may really stop: a
stopped scheduler with idle callers, a process that is not restarted, a timeline
whose triggers are all answered.

## 4 Fairness

Every fairness condition is weak, with one exception (`WorkerPool`). In all of
them nothing is assumed of members of the room, operators or faults.

- `LlmScheduler`: a request that holds a slot is finished or released (stream
  stall budgets and HTTP timeouts end it, `release` is in a `finally`), time
  passes, and an armed timer fires. Nothing is assumed of arrivals, escalations
  or background probes.
- `GapBackfetch`: the event loop turns: a delivered message is written, a free
  worker takes a frozen room, a read is answered or fails, a write completes.
  Nothing is assumed of the server, a restart or a release.
- `Sessions`: one condition over everything awaited: while some write, download,
  build or model run can settle, one eventually does. Each has a timeout or a
  budget, so more could be assumed of each; it is not needed. Nothing is assumed
  of arrivals, spin-offs, interrupts, posts or expiry. The instances `resumes` and
  `recoveries` are checked for safety only.
- `Activation`: a called handler runs, and writes settle. `LateInput`: a build, a
  run and a call go on or fail, the runner looks at its step when idle, a correction
  that is awaited is delivered. `RequestChain`: only that a caller's abort is
  noticed, since a model may stream for ever as far as the retry layer knows.
- `WorkerPool`: a worker ends (its fetches have timeouts), a sleep ends, a pause
  of the budget ends, and `SF` for the claim: a budget that runs out and opens again
  disables a poll again and again, but each window stays open for longer than the
  time between two polls. `SummaryJobs`: a claim and the
  writes of a worker settle or reject. `DiaryJobs`: the same, and the calls of the
  file system.
- `PacedLimiter`: time passes and a due caller takes its turn. `MessageEdits`: the
  sweeper's timer fires and backoffs elapse. `BackfetchJob`: the run goes on,
  `resumeAll` is called after a start, a drain ends in an exit.
- `WorkerRpc`: a timer that is set fires, an exit is noticed and the end of `close`
  is reached. *Nothing* is assumed of the child. `LateWindow`: safety only.
- `FollowUps`: one condition over everything under way in the session.
  `SessionRunner`: one over the loop and the agent's turns, since each request ends
  (its budgets are those of `RequestChain`) and each tool call has a timeout. Nothing
  is assumed of what the agent answers or the judge says: no run is assumed to be
  good.

In the composite runs the n-th fair action of whichever component runs is under
one weak fairness condition. The choice of the component never changes, so this
is the same as a condition for each.

## 5 What is proved

Machine-checked by TLAPS, for every value of the constants that satisfies the
modules' named assumptions. The last column gives further hypotheses, each explained
below. Properties in italics are those a run of section 3 checks under the same name.

| module | theorem | statement | also assumes |
|---|---|---|---|
| `LlmSchedulerProofs` | `TypeCorrect` | `[]`*`TypeOK`* | |
| | `SlotsAccounted`, `NeverOverCapacity` | `[]`*`SlotAccounting`*, `[]`*`CapacityRespected`* | |
| | `NeverGatedByNobody` | `[]`*`ProbeOwned`* | |
| | `EscalationsHeld`, `NoSlotIdle` | `[]`*`EscalationHeld`*, `[]`*`WorkConserving`* | |
| | `WakeupsKept` | `[]`*`NoLostWakeup`* | `OneGroupUnlessProbed` |
| | `InOrder` | *`NoQueueJump`* | |
| `GapBackfetchProofs` | `HistoryHasNoHole` | `[]NoBuriedGap`, for the abstract specification `RoomHistory` | |
| | `TypeCorrect`, `DeletionsStick` | `[]`*`TypeOK`*, `[]`*`DeletionSticks`* | |
| | `DeletionsKept` | `[]AllMarked`: `DeletionSticks` without its exception | no `"lapse"` |
| | `NoGapIsBuried` | `[]NoBuriedGap` | `OneStampEach`, `NothingFails` |
| | `HistoryRefined` | `HistoryExtends`: each room implements `RoomHistory` | the same |
| | `StepsInOrder` | `[][HighWaterFrozen /\ HandledInOrder]_vars` | the same |
| | `RestartsBuryNoGap`, `RestartsKeepHistory`, `RestartsStepSoundly` | `[]`*`GapsStayOpen`*, *`HistoryKept`*, *`StepsSound`* of `MCGapRuns` | the same |
| `SessionsProofs` | `TypeCorrect` | `[]TypeOK` | |
| | `SlotsAccounted`, `QueueMovesOn` | `[]`*`SlotAccounting`*, `[]`*`QueueMoves`* | |
| | `ClaimsAreOwned`, `ParkedAreOwned` | `[]`*`ClaimsOwned`*, `[]`*`ParkedHaveOwner`* | |
| | `OneRunAtATime` | *`OneRunPerSession`* | |
| | `NoTwins` | `NoTwin` | `CoRepliesNear` |
| | `OnlyThrowsLeak` | `[]NoClaimLeaks` | no `"launch_throws"` |
| `TriggerProofs` | `RoomSound`, `RoomStaysActive` | `[]TypeOK`, the five safety invariants and `[][StaysActive]_vars` of `Activation` | |
| | `CorrectionsHeard` | `[](NoPostDiscarded /\ NoneForgotten /\ RedosBounded)` of `LateInput` | |
| | `NobodyPassedOver` | `[](UntriedReached /\ EndsWhenAlone)` of `RequestChain` | |
| | `NobodyAskedAgain` | `[][NeverAskedAgain /\ TokensAreSafe]_vars` of `RequestChain` | |
| `SessionRunsProofs` | `SessionsBalance` | `[]`*`SlotAccounting`*, `[]`*`QueueMoves`*, `[]`*`ClaimsOwned`*, `[]`*`ParkedHaveOwner`* of `MCSessionRuns` | |
| | `OneRunInEach` | *`OneRunPerSession`* of `MCSessionRuns` | |
| | `NoTwinsInEither` | *`NoTwinEver`* of `MCSessionRuns` | `CoRepliesNear` twice |
| | `RoomKeeps`, `SessionKeeps`, `RequestKeeps` | `[]`*`ActivationSafe`*, `[]`*`CorrectionsKept`*, `[]`*`MembersTried`* of `MCSessionRuns` | |
| | `NoStepTakenBack`, `TypesInEach` | *`NoStepBack`*, `[]`*`TypesOK`* of `MCSessionRuns` | |
| `StoreProofs` | `NewestShown`, `PlaceholdersOutlive` | `[]ShowsNewest`, `PlaceholdersStand` of `MessageEdits` | |
| | `WorkersInBounds`, `NoRowLost`, `AttemptsAndResults` | the six safety invariants of `WorkerPool` | |
| | `JobsSettle`, `DraftsAndEscalations` | the five safety invariants of `SummaryJobs` | |
| | `DescentLeavesNoHole`, `DescentStaysBelow` | the five safety invariants of `BackfetchJob` | |
| | `DiaryTyped`, `NoTextLost`, `DoneOnceWritten`, `WrittenOnce`, `NoneStranded`, `RetriesBounded` | the type and safety invariants of `DiaryJobs` | |
| `AgentProofs` | `FoldedOnce` | `[](AnsweredOnce /\ NoTriggerLost)` of `FollowUps` | |
| | `RunHonest` | the four safety invariants of `SessionRunner` | |
| | `NothingStale` | `[][NoneStale]_vars` of `SessionRunner` | |
| | `CallsWatched`, `WindowServed` | the safety invariants of `WorkerRpc` and of `LateWindow` | |
| | `LimiterTyped`, `SlotsBounded`, `SlotsKept`, `StartsApart` | the type and safety invariants of `PacedLimiter` | |
| `ComponentsProofs` | `TypesKeep` | `[]`*`TypeOK`* of `MCComponents` | |
| | `LimiterPaces`, `DiaryKept`, `PoolsKeep` | `[]`*`PacingSafe`*, `[]`*`DiarySafe`*, `[]`*`PoolSafe`* of `MCComponents` | |
| | `EditsStay`, `SummariesKeep`, `BackfetchKeeps` | `[]`*`EditsKept`*, `[]`*`SummarySafe`*, `[]`*`BackfetchSafe`* of `MCComponents` | |
| | `FollowUpsAnswered`, `RunsHonest`, `RetrievalKeeps` | `[]`*`FollowUpsSafe`*, `[]`*`RunSafe`*, `[]`*`RetrievalSafe`* of `MCComponents` | |
| | `StepsTaken` | *`StepsSound`* of `MCComponents` | |

The assumptions of the modules are those the configuration schema enforces or the code
builds in: finitely many callers, groups and triggers, positive whole limits and
delays, shares of 1 to 100 per cent, a prober only for a caller that has a model. A
delay cap below the base delay, which the schema allows, is covered.

### The further hypotheses

- `OneGroupUnlessProbed`: a model is used from one rate-limit group, or all who use it
  register a background prober. Without it `NoLostWakeup` is false (finding 1).
- `NothingFails`: no read or write is rejected, no cap ends a descent unrecorded, no
  other room's session sends here. After each of these a gap may really be buried
  (finding 2 and section 7). Crashes, shutdowns, deletions, recorded caps and releases
  remain, in any order and number.
- `OneStampEach`: no two messages of a room share a millisecond. The commit orders by
  timestamp and the floor is found by it (`coordinator.ts:695`).
- `CoRepliesNear`: two replies to one message lie within the coalescing window of each
  other. A registry asked for the first claim only does not find a later one (section 7).
  `NoTwinsInEither` takes it for both instances the property is about, those with
  several replies to one message; in the run all triggers are sent at one time.
- `RestartsKeepHistory` also takes `MaxMessages >= 3`, only because the other instance
  of `MCGapRuns`, whose initial state the formula mentions, has three messages.

Each is satisfied by the instances TLC runs, and each theorem without one holds of the
faulty instances too: `DeletionsStick` through every failure the module has, and
`DeletionsKept` through every one but the expiry and eviction of parked deletions.

### The arguments

**Scheduler.** None of the first four invariants is inductive alone. The limits are
checked by `pump` on the counter `active`, so `CapacityRespected` needs
`SlotAccounting`; that a release does not drive the counter below zero needs it too. A
settled outcome clears `probeInFlight`, so `ProbeOwned` needs to know that a gated
model is unhealthy while its probe flies and that an entry that is the probe holds a
slot; and all need the types. The inductive invariant `IInv` is their conjunction,
written as `Good(req, group, health, stopped)` with the parts `Shaped`, `Accounted`,
`Within` and `Owned` over explicit arguments. This form matters: almost every action
changes some entries, groups and health states and then pumps, so `PumpGood` proves
once that a pump preserves `Good` from the intermediate values it is handed, and each
action only has to establish `Good` for what it does before.

The waiters need a second invariant, `WaitersSound`, inductive beside the first: the
relation "queued before" orders the entries (`Ordered`), ranks follow the pinned
escalations (`Ranked`), every unhealthy model has someone who will try it (`Probed`,
`Admitted`), and each waiter is refused by something that is still there (`Blocked`)
and has something to wake it (`Awake`). A pump visits only the groups a turn touched;
`Prepared` states what a turn must leave before its pump so that the waiters of the
other groups are not forgotten. `NoQueueJump` then follows from what one turn does:
`Overtaken` and `Skipped` are stated for the step itself.

**Gap backfetch.** The first invariant (`Sound`: `Shaped`, `Fits`, `Remembered`) says
that each observed deletion is in one of four places or lapsed while it was parked,
which one it must be in while its message is in a buffer, in the write queue or in
neither, and that none lapses that a buffer or the table holds; it holds whatever fails.
The second, `WInv`, is about one room at a time: the table has no hole (`Closed`);
below the floor it is complete (`Below`); between cursor and floor is what the descent
has yet to read, and above the cursor everything is buffered or excused (`Descends`);
the commit has yet to append an upper part of the buffer (`Commits`); the live messages
are in the order of the room in the live buffer, the write queue and the table, each
once (`Waits`, `Follows`). Every step of the coordinator is then a step of
`RoomHistory` or leaves the room's history alone (`HistoryStep`), and `NoBuriedGap`
follows twice, from `WInv` and from the refinement with `HistoryHasNoHole`.

**Sessions.** That a slot is given back once rests on which trigger a session works
for, that on who may resume or revive a session, and that on the revival window and on
the resumes under way. So `IInv` has ten named parts, from the queue (`QueueSound`) to
who owns a claim (`ClaimSound`); each action has a lemma, and what ends many actions,
the slot passed on to the queue and the settle listeners, is stated once (`Drained`,
`Left`). `NoTwin` needs one part more, `OrderSound`: `older` is the order of the claims,
so that the registry has a first one among those a reply asks about.

**Activation.** What must not happen is that a message gated while the room was inactive
is stored after the bulk flip. The single writer prevents it, so `OrderSound` says, for
each stage of the prelude, which writes of the messages gated earlier may still be queued
and that they are ahead of the prelude's own; `QueueSound` says who waits in the queue at
all. `RowsSound` follows the statuses from the flip on, `HoldsSound` that a held trigger is
in the buffer or among the handlers called, once, and `AskedSound` that a trigger answered
is past all of that. A room left activating costs two rejected writes, and a reset
under way shows the first (`FaultsSound`).

**Late input.** `NoPostDiscarded` compares what was posted with a decision taken from the
counters, so `Effects` says that the counters never run behind: an effect is counted before
its call executes, and the call whose hold is over or waits is among the calls a turn
made. `StepsFiled` ties a pending step to what may take it, from which the bound on the
redos follows although two corrections may ask for one at once. `Phases` is the phase
others read against the stage the runner is in.

**Requests.** `UntriedReached` is about members that were usable all along (`Left`). The
invariant says that while one of them is untried no pass was begun anew, so that the
counts of the pass are those of the whole request; and that an attempt noted at dispatch
as having nobody to fall over to has in fact nobody.

**The instances of `MCSessionRuns`.** Three of its six instances are of `Sessions`, with
different constants over the same variables. One is that of `SessionsProofs` itself; the
other two are those of a copy of `SessionsProofs` with their constants, and `SameResumed`
and `SameRecovered` show definition by definition that the copies are equal to what the run
checks. What the properties of the run say of one instance and mean of all three is that the
definitions do not depend on what differs (`SessionsAlike`). `SessionsInv` and `ClaimsInv`
are the invariants of whichever instance runs; the room, the corrections and the request
are carried over from `TriggerProofs` in the same way.

**Limiter.** A slot is handed over without passing through "free", so the count of the
holders (`Counted`) and the queues (`Queued`) are one invariant; `Spaced` says that the
timers under way are an interval apart and all lie within the schedule.

**Diary.** `Turns` says that only the head of the FIFO writes, `Texts` that whoever
reads the file to edit it has read all of it, and `JobSound` counts, for each job, the
entries written and the attempts made against crashes, rejections and retries by hand:
an invariant with budgets, since neither count is bounded by itself.

**Edits.** `EditHeld` names who holds the newest edit heard: the message, the parking
place, or the placeholder still to be probed; `Probing` relates the tick's rows to the
table.

**Pools.** Two workers on one row are legal if the row was edited under the first. So
`RowSound` counts the workers on a row against its status and its edits, and `Allowed`
counts the attempts made and under way against the retries, edits and restarts.

**Summaries.** A rejected write may send a worker past the one that was to settle its
job. So `SummaryRow` says how a worker that has yet to settle its job finds it (claimed,
with an attempt made), how many rejections it takes to reach each stage that only
rejections lead to, and what each attempt is owed to: the first, a retry, a crash or a
rejection, with one left for a job that waits. `SummaryProcess` ties the crashes to the
restarts.

**Deep backfetch.** `RoomSound` says that everything on the newer side of a stored row
was seen, that the floor is a stored row, and that one job of the room is not over;
`Pages` that a run goes no further than a page between two writes, which bounds what a
crash leaves uncounted; `Aims` how much of a count is left and that the boundary of a run
is not above the floor. A message that sorts at or above the boundary is taken for a
duplicate: it was seen because the boundary is a stored row, and this step needs that no
two events share a cursor.

**Composition.** A step of `MCComponents` or `MCGapRuns` is a step of one component and
leaves the variables of the others alone, so a component's invariant holds throughout.
`ComponentsProofs` shows this for every instance of `MCComponents`: each has an invariant
of its own (`PacingInvHolds`, `DiaryInvHolds` and so on), from which its conjunct of
`TypeOK` and its safety property follow. Because the proved modules are instantiated with
the constants of the run, each lemma of the form `Same...` shows, definition by
definition, that the run's instance and the proved one are equal.

`StoreProofs`, `AgentProofs` and `TriggerProofs` hold several components, each an instance
with its own argument.

**Folded messages.** `Handled(m)` says of each message where it is (`place`), which of its
two deliveries came (`got`), and what each of the five sets the code consults (`steered`,
`read`, `awaited`, `readReplies`, `spun`) may say of it there; that nobody answers it twice
is then a bound on `dispatched` at every place from which another dispatch is possible,
and that it is not lost is that a message delivered in full is somewhere, was read, was
dispatched or is one of the two exceptions the property names.

**Runner.** What the five flags of a run allow depends on its stage and on the transcript,
so `RunInv` has four parts beside its types. `Points` is about the fork points, of a redo that is asked for (`control`) and of one
that is taken (`redo`): each is a call of the transcript, and no call after it delivered
anything, unless it is the stale one the property excepts.
`Judged` says that every refused entry of the transcript is behind a fork point or has a
redo filed for it (`Condemned`), or the run was stopped. `Heeded` counts the requests since
the Stop. Most steps only carry the transcript on (`Carries`), and what such a step preserves is
shown once; those that fork or rebuild it have lemmas of their own.

**Worker process.** A request is in one of three queues: sent to the child, its own chain,
or the answers. `InOrder` says that ids grow along each and from each to the next; `Watched`
that each request sent and unanswered has a deadline, is on the way while the child lives,
and that a grace is never for one younger than the oldest outstanding: this is what makes
the grace the head's, for any number of requests.

**Resident window.** The update of the window reads the rows, then loads them piece by
piece, while blocks are embedded and the worker may die. `Held` relates what the worker
holds to what the record says and to what the update under way has yet to add and remove;
`Honest` the keys to the newest rows of the version they name; `Requested` that a key
behind the version has a timer, a rerun or an update that will read it. The version never
passes one more than the number of blocks, which bounds it.

### Model-checked only

Liveness (`InteractiveServed`, `EverythingSettles`, `EveryJobEnds`, `EveryCallerEnds`)
and anything with `ENABLED` is out of the prover's reach, as is induction over data:
what a recursive definition computes for every input. No module declares a `RECURSIVE`
operator, which would take the prover's SMT backend away.

Every invariant and every action property of a passing run is stated by a theorem. What
remains with TLC are the four properties above, and that the instances of a run are the
ones intended. The theorems about `MCGapRuns` are about the
instance "restarts", as the properties are; what is asked of "faults" is
`DeletionSticks`, which is proved of the component with every fault.

## 6 Where the code and its documentation disagree

Each has a run whose counterexample shows it.

1. `scheduler_shared_model`, `src/agent/scheduler.ts:1129`. A waiter of one group
   that is blocked on another group's probe arms no timer: "blocked on in-flight
   probes → their settle pumps". But a probe that fails pumps only the group
   whose slot it releases. With no background prober the waiter has no event left
   that would admit it. (With one, `scheduler_probers` shows that it has.)
2. `gap_failed_read`, `src/backfill/coordinator.ts:635`. After a failed read "the
   room stays frozen", but the phase `failed` is not one of those `isFrozen`
   accepts: the next live message is stored, the high-water passes the gap, and
   the next start does not fetch it.
3. `sessions_launch`, `src/app.ts:8306`. When a launch from the queue throws before
   a session is attached, its handler calls `complete()` and discards the trigger
   it returns: that trigger keeps a slot and a claim for ever.
4. `sessions_revived`, `src/app.ts:9674`. A revived session works without a claim,
   so a reply to the message it answers gets a second session, although co-replies
   to a running session's trigger are documented to be steered into it
   (`app.ts:4456`).

5. `request_aborted`, `src/agent/request-retry.ts:931`. The wall-clock budget
   expires in the sleep between two attempts, and the next attempt starts on
   another member: the switch re-arms the budget, so the abort it has already
   caused is taken for the caller's and the session does not park as "failed,
   resumable", which `request-retry.ts:1347` and a test promise.
6. `followups_twin`, `src/app.ts:6535`. A reply steered on its first delivery and
   not read before the session ends is left to its second delivery, but with late
   input that one returns early because the event was steered before: nobody
   answers, although `app.ts:5349` says "the twin then takes the native path, so
   the reply is still answered".

7. `runner_stopped`, `src/agent/runner.ts:213`. `interrupt()` aborts an agent that has
   a signal, and the runner looks at `isInterrupted()` only after a settled turn. A
   Stop in an await before a request (the typing notice, the fork of a redo, a
   rebuild) is followed by a whole request, whose calls may post, although
   `session-manager.ts:439` says that "the loop break catches it".

The remaining runs leave out the one event that leads there (`Events`, the
instance's models) or except exactly the trigger that is lost (`overlooked`), so
that they show everything else holds.

## 7 Limits

### Behaviour the models show or exclude and no property covers

- *Scheduler.* "At most one probe in flight" (`ARCHITECTURE.md:2487`) does not
  hold: the outcome of a request admitted before the outage frees the probe slot
  of one that is still in flight. `ProbeOwned` states what does hold.
- *Gap.* If two gap messages share a millisecond and the process dies between
  their appends, the order of the commit and the high-water's tie-break may
  disagree about which is newer (`coordinator.ts:695`); the instances give every
  message its own timestamp. A cross-channel send is stored at once in a frozen
  room (`tools/cross-channel.ts:244`) and a cap without a floor leaves an
  unrecorded hole (`coordinator.ts:783`): both are in the instance "faults" of
  `gap_runs` and not in "restarts". With fewer workers than rooms and a stalled one, a room stays
  frozen (`coordinator.ts:497`); reads are assumed to be answered or to fail.
- *Parked deletions.* A deletion that comes while the page with its message is in
  flight finds it neither in the table nor in a buffer and is parked. By default a
  descent has no timeout, so it may take longer than the ten minutes such an entry
  lives (`pending-deletions.ts:32`, `:97`), or a thousand later ones may evict it
  (`:84`): the message is then stored as if it had not been deleted.
  `pending-deletions.ts:14` says that "Messages buffered for longer (the gap-backfetch
  freeze) are marked in their buffer instead", which is not so for one that reaches the
  buffer after its deletion. `DeletionSticks` excepts exactly the deletions dropped so
  (`lapsed`) and says that none whose message was stored or buffered when it came is
  among them.
- *Sessions.* `coTargetClaim` asks the first claim on a message only
  (`session-claims.ts:185`): a reply outside the window of that claim and within the
  window of a later one gets a session of its own, although `ARCHITECTURE.md:2127`
  has a reply steered when its target and window match a running session. The
  instances give all replies one timestamp, and the theorem `NoTwins` names the
  hypothesis (`CoRepliesNear`). A parked co-reply that is dispatched again meets the
  same full queue as everybody and may be ignored (`app.ts:4866`), although a
  comment says it is never dropped; `EverythingSettles` counts it as settled. A
  revived run may run beside the limit: the code revives with or without a slot,
  and `SlotAccounting` counts the ones that hold one. The inbound path leaks its
  slot when `launchSession` throws (`app.ts:3673`); the discarded `complete()` of
  finding 3 is also in `timeline/activation.ts:356`. A trigger that is left behind so is
  in the stage "leaked", which `SlotAccounting`, `ClaimsOwned` and `ParkedHaveOwner`
  admit and nothing else enters (`OnlyThrowsLeak`). A proactive or recovered session has no claim
  either, so a second reply to its message gets a twin, as in finding 4. With two
  slots or more, a proactive tick can pass `activeForTimeline` while a reply is
  accepted and its session not created yet.
- *Late input.* `requestCancel` overwrites a pending restart together with its
  fallbacks, and `requestRestart` is dropped while a cancel is pending; if the
  cancel then proves impossible, the other correction is lost without a trace,
  contrary to the comment on `RestartRequest.fallbacks` (fate "superseded", which
  `NoneForgotten` accepts). Of two corrections that come late together, the second
  finds the phase "running" after the first one's revival and is recorded as
  undelivered though the session runs. What `waitHold` answered is not looked at
  again before the call executes. Corrections parked on a session whose build
  fails are dropped without `onUndelivered` (`app.ts:5637`).
- *Folded messages.* The branch of `foldFollowUp` that revives a session cannot be
  reached: with an entry the function has returned earlier (`app.ts:4974`, `5038`).
  For human senders late input makes `consumeSteeredReplyTwin` unreachable too
  (finding 6). Without late input the same reply is lost when its session is
  resumed between the two deliveries (`app.ts:4367`). A message that joins a revival
  that is starting is queued without being tracked.
- *Session runs.* A redo that was filed just before a correction, which then proves
  impossible because an effect happened or cannot be undone, stays pending under the next request: it
  is taken at the end of that one, and its fork point, the refused call, lies before
  whatever was delivered since. The fork discards that delivery from the transcript,
  and the agent may post it again (`stale` excepts this in `DeliveredKept`).
- *Requests.* Persistent throttling on two members or more re-arms the wall-clock
  budget at every switch, so it never expires.
- *Pools.* A row that is edited under its worker is set to `complete` by that
  worker with the result for the old text, which `ARCHITECTURE.md:825` says it is
  not (`raced` excepts it). A claim that rejects ends the loop of that pool: nothing
  schedules another poll (`LoopAlive` is about runs without one). The write of last
  resort for a summarization job leaves its sticky escalation in place, although
  `escalation.ts` says it is always cleaned up.
- *Diary.* `storage/memory-writer.ts:12` and `ARCHITECTURE.md:3928` say that every
  mutation of a memory file goes through the FIFO. The text editor every session
  has (`tools/file.ts:123`) writes any file of the workspace without it, and a shell
  may too: an entry appended between its read and its write is overwritten, its job
  done (`bypassed` excepts this). `ARCHITECTURE.md:3879` promises "never a loss" from
  a crash; that holds of an append, but an edit truncates the file before it writes
  (`tools/file.ts:217`), and a crash in between takes the entries of the day
  (`torn`). A rejected write on the failure path is only logged
  (`diary/worker-pool.ts:702`), so one is enough to leave a job in processing until
  the next start (`unwritten`); the guard of `processJob` covers the other writes.
- *Edits.* An edit applied to a message that is still undecryptable is overwritten
  when the message is decrypted, contrary to `timeline/edits.ts:28` (`blind` excepts
  it).
- *Deep backfetch.* A drain parks running jobs as `paused`, which the next start
  does not resume, contrary to `app.ts:10280`. The boundary is taken anew by every
  run: an event younger than one stored before it counts as a duplicate after a
  resume (`Seen` excepts it). A crash or a rejected write loses at most a page of
  counted rows, so a count job may overshoot. If the first or the last write of a run
  is rejected, `launch` only logs it (`message-backfetch.ts:240`) and the row stays as
  it was, mostly `queued` or `running`, in the way of every other job of its room,
  until the next start or an order for it (`forsaken`, which `BackfetchesEnded`
  excepts). An order acknowledged during the last page or the final write has no
  effect. An operator's start is not kept waiting for the gap
  backfetch of the room (`message-backfetch.ts:117`).
- *Worker processes.* A request issued after `close()` began is settled only by its
  own abort signal (`Late` excepts it). A deadline runs from the call and not from
  the start of the work, so that a queue of slow requests can get a healthy child
  killed. A cancel that is read after its answer stays in the child's set.
- *Resident window.* When the worker dies during an update that has nothing to send
  it, the next load respawns it, and the update then records a window the worker
  does not hold (`retrieval/late/stage.ts:230`), which `maxsim.ts:16` and
  `test/memory-retrieval-late.test.ts:487` exclude; during the rebuild of a lost
  window queries use the old record. `torn` and `Filling` except these two. The
  check `this.rpc !== rpc` in `addToWindow` never triggers.
- *Records.* `entry.abort` is cleared before the record turn's last write, so a
  revival that arrives during it cannot keep the record from being written, although
  `session-records.ts` says it writes nothing then.

### What the modelled components leave out

Edits, thread keys and enrichment states in the gap backfetch, and its nudges;
withdrawn messages and shutdown in `Sessions`, `resolveTriggerGroup` rejecting, and
the gates, budgets and cadence of the proactive scheduler; the abort that makes a
runner idle, replay of earlier results and withdrawn steers in `LateInput`; the
time windows and model verdicts that decide what is a follow-up; replayed events
and the throttle report in `RequestChain`; what a worker downloads, says or costs
in the pools; condensation levels and the indexer in `SummaryJobs`; readers of the
memory files, other days and torn appends in `DiaryJobs`; threads and
draining in the sweeper; dated and decryptable targets in `BackfetchJob`; the
recency list, blocks that leave the index and the quantised scan in `LateWindow`;
calls without a visible effect, two refused calls in one message and which entry of a
refusal rule is tried in `SessionRunner`.
Writes are atomic and serial, as the write queue makes them.

### Not modelled

Components marked `not_modelled` in `PROJECT.json`, with their reason there: the
budget engine (its record and its tick read the same ledger, and a record is in the
ledger before it is in the total, `app.ts:2546`, so no order of the two loses
spend), the evaluations of the output gate (model verdicts), the MCP pool, the mirror worker, and what renders, parses, ranks or calls external
services. The map covers about 9,300 lines of an implementation of 170,000, of
which tools, providers, clients, configuration, SQL, rendering and retrieval
numerics are by far the larger part: they hold little control for a model to keep.

## 8 Plan

Done, in this order: `LlmScheduler`, its proofs, `GapBackfetch` over
`RoomHistory`, `Sessions`; then `Activation`, `WorkerPool`, `SummaryJobs`, `DiaryJobs`,
`RequestChain`, `LateInput`, `PacedLimiter`, `MessageEdits`, `BackfetchJob`,
`WorkerRpc`, `LateWindow`, `FollowUps`, `SessionRunner`, and proactive posts and
recoveries in `Sessions`.

Models left: record turns against revivals, the output gate as far as its holds go, the MCP pool's connections. Related questions
share a run, so that the project stays at a dozen runs: each of these becomes a
part of `MCComponents`.

Proofs left: what survives of `NoGapIsBuried` under each of the faults that `NothingFails`
excludes, taken singly.
