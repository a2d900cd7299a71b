---------------------------- MODULE MCComponents ----------------------------
(***************************************************************************)
(* One TLC instance of each component that works beside the sessions, and  *)
(* two of the run of a session.  A behaviour is that of one of them,       *)
(* chosen by its initial state; the variables of the others keep their     *)
(* initial values.                                                         *)
(***************************************************************************)
EXTENDS Naturals, Sequences, TLC

VARIABLE part   \* the component that runs

-----------------------------------------------------------------------------
\* WorkerPool, as the pool of enrichment and as the one of captioning: two rows, two
\* workers, a retry.
CONSTANTS j1, j2
VARIABLES status, attempts, body, enriched, timer, waker, busy, paused, phase, raced,
          rejects, restarts, byHand
poolVars == <<status, attempts, body, enriched, timer, waker, busy, paused, phase, raced, rejects, restarts, byHand>>

Enrichment == INSTANCE WorkerPool WITH
    Jobs <- {j1, j2}, WorkerCount <- 2, MaxRetries <- 2, CountsAtClaim <- FALSE,
    MaxEdits <- 1, MaxRejects <- 1, MaxRestarts <- 1, MaxRetriedByHand <- 0
Captioning == INSTANCE WorkerPool WITH
    Jobs <- {j1, j2}, WorkerCount <- 2, MaxRetries <- 2, CountsAtClaim <- TRUE,
    MaxEdits <- 1, MaxRejects <- 1, MaxRestarts <- 1, MaxRetriedByHand <- 1

-----------------------------------------------------------------------------
\* SummaryJobs: one job, a retry, three rejected writes.
VARIABLES summaryStatus, summaryAttempts, draft, summaries, worker, escalation,
          sticky, swept, summaryPhase, excused, summaryRejects, summaryCrashes,
          summaryRestarts, summaryByHand, redos
summaryVars == <<summaryStatus, summaryAttempts, draft, summaries, worker, escalation, sticky, swept, summaryPhase, excused, summaryRejects, summaryCrashes, summaryRestarts, summaryByHand, redos>>

Summary == INSTANCE SummaryJobs WITH
    Jobs <- {j1}, MaxRetries <- 1,
    MaxRejects <- 3, MaxRestarts <- 1, MaxRetriedByHand <- 1, MaxRedos <- 1,
    status <- summaryStatus, attempts <- summaryAttempts, at <- worker,
    phase <- summaryPhase, rejects <- summaryRejects, crashes <- summaryCrashes,
    restarts <- summaryRestarts, byHand <- summaryByHand

-----------------------------------------------------------------------------
\* DiaryJobs: one job with a retry and a rejected write; and one whose day's file is edited
\* through the FIFO and around it.
VARIABLES diaryStatus, diaryAttempts, diarist, diarySwept, diaryPhase, exists, file, op,
          tail, snap, written, blank, unwritten, tornFile, bypassed, diaryRejects,
          diaryCrashes, diaryRestarts, diaryByHand, diaryRedos
diaryVars == <<diaryStatus, diaryAttempts, diarist, diarySwept, diaryPhase, exists, file, op, tail, snap, written, blank, unwritten, tornFile, bypassed, diaryRejects, diaryCrashes, diaryRestarts, diaryByHand, diaryRedos>>

Diary == INSTANCE DiaryJobs WITH
    Jobs <- {j1}, WorkerCount <- 1, MaxRetries <- 1,
    MaxRejects <- 1, MaxRestarts <- 1, MaxRetriedByHand <- 1, MaxRedos <- 1,
    MaxEdits <- 0, MaxDirect <- 0,
    status <- diaryStatus, attempts <- diaryAttempts, at <- diarist, swept <- diarySwept,
    phase <- diaryPhase, torn <- tornFile, rejects <- diaryRejects, crashes <- diaryCrashes,
    restarts <- diaryRestarts, byHand <- diaryByHand, redos <- diaryRedos
Memory == INSTANCE DiaryJobs WITH
    Jobs <- {j1}, WorkerCount <- 1, MaxRetries <- 0,
    MaxRejects <- 0, MaxRestarts <- 1, MaxRetriedByHand <- 0, MaxRedos <- 0,
    MaxEdits <- 1, MaxDirect <- 1,
    status <- diaryStatus, attempts <- diaryAttempts, at <- diarist, swept <- diarySwept,
    phase <- diaryPhase, torn <- tornFile, rejects <- diaryRejects, crashes <- diaryCrashes,
    restarts <- diaryRestarts, byHand <- diaryByHand, redos <- diaryRedos

-----------------------------------------------------------------------------
\* PacedLimiter: an interactive caller and three others for two slots.
CONSTANTS a, b1, b2, b3
VARIABLES active, queue, ahead, caller, left, rest, hasty
limiterVars == <<active, queue, ahead, caller, left, rest, hasty>>

Limiter == INSTANCE PacedLimiter WITH
    Callers <- {a, b1, b2, b3}, Classes <- <<"interactive", "background">>,
    ClassOf <- [c \in {a, b1, b2, b3} |-> IF c = a THEN "interactive" ELSE "background"],
    MaxInFlight <- 2, MinInterval <- 2,
    at <- caller

-----------------------------------------------------------------------------
\* MessageEdits: a message with two edits, a window of one row, given up after two probes.
VARIABLES key, renderable, messageRow, shown, last, parked, probes, backoff, todo,
          applied, sweepRestarts, heard, blind
messageVars == <<key, renderable, messageRow, shown, last, parked, probes, backoff, todo, applied, sweepRestarts, heard, blind>>

Message == INSTANCE MessageEdits WITH
    Edits <- 2, MaxAttempts <- 2, BatchSize <- 1, Window <- 1, MaxRestarts <- 1,
    row <- messageRow, attempts <- probes, restarts <- sweepRestarts

-----------------------------------------------------------------------------
\* BackfetchJob: two jobs, for two rows or for all, in a history of four positions and two
\* pages, of which the first is stored and the last is younger than the one before.
VARIABLES rows, floor, fetchStatus, target, cursor, counted, loop, fetchAt, boundary, stored,
          fetchLeft, flags, outcome, fetchUp, fetchDraining, resumed, fetchFaults, drains,
          orders, own, heedless, forsaken
fetchVars == <<rows, floor, fetchStatus, target, cursor, counted, loop, fetchAt, boundary, stored, fetchLeft, flags, outcome, fetchUp, fetchDraining, resumed, fetchFaults, drains, orders, own, heedless, forsaken>>

Backfetch == INSTANCE BackfetchJob WITH
    Jobs <- 1..2, Stamp <- <<9, 4, 2, 3>>, Held <- 1, PageSize <- 2,
    Targets <- {0, 2}, SafetyCap <- 2, MaxFaults <- 1, MaxDrains <- 1, MaxOrders <- 1,
    status <- fetchStatus, at <- fetchAt, left <- fetchLeft, up <- fetchUp,
    draining <- fetchDraining, faults <- fetchFaults

-----------------------------------------------------------------------------
\* WorkerRpc: three requests, close() included.
VARIABLES issued, promise, outstanding, abandoned, deadlines, graces, dead, closing, closer,
          toChild, chain, running, cancelled, fromChild, child
rpcVars == <<issued, promise, outstanding, abandoned, deadlines, graces, dead, closing, closer, toChild, chain, running, cancelled, fromChild, child>>

Rpc == INSTANCE WorkerRpc WITH MaxCalls <- 3

-----------------------------------------------------------------------------
\* LateWindow: a window of two of three blocks, read and loaded one by one, two deaths.
VARIABLES withVectors, unbumped, version, window, resident, loaded, alive, refreshTimer,
          rerun, update, windowKey, members, base, toAdd, had, torn, failed, deaths
windowVars == <<withVectors, unbumped, version, window, resident, loaded, alive, refreshTimer, rerun, update, windowKey, members, base, toAdd, had, torn, failed, deaths>>

Resident == INSTANCE LateWindow WITH
    Blocks <- 1..3, Indexed <- {1}, WindowSize <- 2, Page <- 1, Load <- 1, MaxDeaths <- 2,
    stored <- withVectors, timer <- refreshTimer, at <- update, key <- windowKey,
    todo <- toAdd

-----------------------------------------------------------------------------
\* FollowUps: two replies and a follow-up with an image that is a trigger,
\* a resume by another reply and a revival by a correction.
CONSTANTS r1, r2, m1
VARIABLES late, owner, entry, got, steered, place, awaited, readReplies, read, dispatched,
          spun, dropped, overlooked, resumes, corrections
foldVars == <<late, owner, entry, got, steered, place, awaited, readReplies, read, dispatched, spun, dropped, overlooked, resumes, corrections>>

Folding == INSTANCE FollowUps WITH
    Replies <- {r1, r2}, Mentions <- {m1}, Bare <- {}, Media <- {m1},
    MaxResumes <- 1, MaxCorrections <- 1,
    own <- dispatched

-----------------------------------------------------------------------------
\* SessionRunner, with a Stop and one entry of the refusal rule: a session that is corrected
\* and steered, and one with two messages to deliver and a nudge.
CONSTANTS s1, s2, n1
VARIABLES onExhausted, run, msgs, steering, aborting, interrupted, retries, contractRedone,
          tries, control, redo, lateStep, step, from, redoCount, asked, end, delivered,
          notes, extra, stale
runVars == <<onExhausted, run, msgs, steering, aborting, interrupted, retries, contractRedone, tries, control, redo, lateStep, step, from, redoCount, asked, end, delivered, notes, extra, stale>>

Corrected == INSTANCE SessionRunner WITH
    Sends <- {s1}, Notes <- {n1},
    MaxRetries <- 0, Tries <- 1, MaxRedos <- 1, MaxCorrections <- 1, MaxStops <- 1,
    queue <- steering, late <- lateStep, corrections <- asked, heard <- notes
Nudged == INSTANCE SessionRunner WITH
    Sends <- {s1, s2}, Notes <- {},
    MaxRetries <- 1, Tries <- 1, MaxRedos <- 0, MaxCorrections <- 0, MaxStops <- 1,
    queue <- steering, late <- lateStep, corrections <- asked, heard <- notes

-----------------------------------------------------------------------------
ASSUME PoolAssumption == Enrichment!WorkerPoolAssumption /\ Captioning!WorkerPoolAssumption
ASSUME SummaryAssumption == Summary!SummaryJobsAssumption
ASSUME DiaryAssumption == Diary!DiaryJobsAssumption /\ Memory!DiaryJobsAssumption
ASSUME LimiterAssumption == Limiter!PacedLimiterAssumption
ASSUME MessageAssumption == Message!MessageEditsAssumption
ASSUME BackfetchAssumption == Backfetch!BackfetchJobAssumption
ASSUME RpcAssumption == Rpc!WorkerRpcAssumption
ASSUME ResidentAssumption == Resident!LateWindowAssumption
ASSUME FoldingAssumption == Folding!FollowUpsAssumption
ASSUME RunnerAssumption == Corrected!SessionRunnerAssumption /\ Nudged!SessionRunnerAssumption

Init ==
    /\ part \in {"enrichment", "captioning", "summarization", "diary", "memory", "limiter",
                 "edits", "backfetch", "rpc", "window", "folding", "corrected", "nudged"}
    /\ Enrichment!Init /\ Summary!Init /\ Diary!Init /\ Limiter!Init /\ Message!Init
    /\ Backfetch!Init /\ Rpc!Init /\ Resident!Init /\ Folding!Init
    /\ Corrected!Init
    /\ part # "edits" => renderable
    /\ part # "folding" => late
    /\ part \notin {"corrected", "nudged"} => onExhausted = "send_last"

\* A step of one component leaves the others alone.
PoolOnly == UNCHANGED <<part, summaryVars, diaryVars, limiterVars, messageVars, fetchVars, rpcVars, windowVars, foldVars, runVars>>
SummaryOnly == UNCHANGED <<part, poolVars, diaryVars, limiterVars, messageVars, fetchVars, rpcVars, windowVars, foldVars, runVars>>
DiaryOnly == UNCHANGED <<part, poolVars, summaryVars, limiterVars, messageVars, fetchVars, rpcVars, windowVars, foldVars, runVars>>
LimiterOnly == UNCHANGED <<part, poolVars, summaryVars, diaryVars, messageVars, fetchVars, rpcVars, windowVars, foldVars, runVars>>
MessageOnly == UNCHANGED <<part, poolVars, summaryVars, diaryVars, limiterVars, fetchVars, rpcVars, windowVars, foldVars, runVars>>
BackfetchOnly == UNCHANGED <<part, poolVars, summaryVars, diaryVars, limiterVars, messageVars, rpcVars, windowVars, foldVars, runVars>>
RpcOnly == UNCHANGED <<part, poolVars, summaryVars, diaryVars, limiterVars, messageVars, fetchVars, windowVars, foldVars, runVars>>
ResidentOnly == UNCHANGED <<part, poolVars, summaryVars, diaryVars, limiterVars, messageVars, fetchVars, rpcVars, foldVars, runVars>>
FoldingOnly == UNCHANGED <<part, poolVars, summaryVars, diaryVars, limiterVars, messageVars, fetchVars, rpcVars, windowVars, runVars>>
RunnerOnly == UNCHANGED <<part, poolVars, summaryVars, diaryVars, limiterVars, messageVars, fetchVars, rpcVars, windowVars, foldVars>>

Next ==
    \/ part = "enrichment" /\ Enrichment!Next /\ PoolOnly
    \/ part = "captioning" /\ Captioning!Next /\ PoolOnly
    \/ part = "summarization" /\ Summary!Next /\ SummaryOnly
    \/ part = "diary" /\ Diary!Next /\ DiaryOnly
    \/ part = "memory" /\ Memory!Next /\ DiaryOnly
    \/ part = "limiter" /\ Limiter!Next /\ LimiterOnly
    \/ part = "edits" /\ Message!Next /\ MessageOnly
    \/ part = "backfetch" /\ Backfetch!Next /\ BackfetchOnly
    \/ part = "rpc" /\ Rpc!Next /\ RpcOnly
    \/ part = "window" /\ Resident!Next /\ ResidentOnly
    \/ part = "folding" /\ Folding!Next /\ FoldingOnly
    \/ part = "corrected" /\ Corrected!Next /\ RunnerOnly
    \/ part = "nudged" /\ Nudged!Next /\ RunnerOnly

vars == <<part, poolVars, summaryVars, diaryVars, limiterVars, messageVars, fetchVars, rpcVars, windowVars, foldVars, runVars>>

\* The fairness of each component, for the one that runs: the first of its fair actions, the
\* second, and so on.  The part never changes, so weak fairness of such a disjunction is weak
\* fairness of the action of the part.
Claims ==
    \/ part = "enrichment" /\ Enrichment!Claim
    \/ part = "captioning" /\ Captioning!Claim
First ==
    \/ part = "enrichment" /\ Enrichment!SomeWorkerEnds /\ PoolOnly
    \/ part = "captioning" /\ Captioning!SomeWorkerEnds /\ PoolOnly
    \/ part = "summarization" /\ Summary!Claim(j1) /\ SummaryOnly
    \/ part = "diary" /\ Diary!GoesOn /\ DiaryOnly
    \/ part = "memory" /\ Memory!GoesOn /\ DiaryOnly
    \/ part = "limiter" /\ Limiter!Tick /\ LimiterOnly
    \/ part = "edits" /\ Message!Sweeps /\ MessageOnly
    \/ part = "backfetch" /\ Backfetch!SomeRun /\ BackfetchOnly
    \/ part = "rpc" /\ Rpc!SomeTimer /\ RpcOnly
    \/ part = "folding" /\ Folding!UnderWay /\ FoldingOnly
    \/ part = "corrected" /\ Corrected!GoesOn /\ RunnerOnly
    \/ part = "nudged" /\ Nudged!GoesOn /\ RunnerOnly
Second ==
    \/ part = "enrichment" /\ Enrichment!SleepEnds /\ PoolOnly
    \/ part = "captioning" /\ Captioning!SleepEnds /\ PoolOnly
    \/ part = "summarization" /\ Summary!Work(j1) /\ SummaryOnly
    \/ part = "diary" /\ Diary!SomeClaim /\ DiaryOnly
    \/ part = "memory" /\ Memory!SomeClaim /\ DiaryOnly
    \/ part = "limiter" /\ Limiter!SomeTurn /\ LimiterOnly
    \/ part = "edits" /\ Message!BackoffElapses(0) /\ MessageOnly
    \/ part = "backfetch" /\ Backfetch!ResumeAll /\ BackfetchOnly
    \/ part = "rpc" /\ Rpc!ExitSeen /\ RpcOnly
Third ==
    \/ part = "captioning" /\ Captioning!Budget /\ paused /\ PoolOnly
    \/ part = "edits" /\ Message!BackoffElapses(1) /\ MessageOnly
    \/ part = "backfetch" /\ Backfetch!Exit /\ BackfetchOnly
    \/ part = "rpc" /\ Rpc!Closed /\ RpcOnly
Fourth == part = "edits" /\ Message!BackoffElapses(2) /\ MessageOnly
Fairness ==
    /\ SF_poolVars(Claims)
    /\ WF_vars(First) /\ WF_vars(Second) /\ WF_vars(Third) /\ WF_vars(Fourth)

Spec == Init /\ [][Next]_vars /\ Fairness

-----------------------------------------------------------------------------
(***************************************************************************)
(* The properties of the components, under this module's instances.  The   *)
(* parts of each are stated in the component's module; a state of another  *)
(* component says nothing about them.                                      *)
(***************************************************************************)
\* The types of all of them.
TypeOK ==
    /\ part \in {"enrichment", "captioning"} => Captioning!TypeOK
    /\ part = "summarization" => Summary!TypeOK
    /\ part = "diary" => Diary!TypeOK
    /\ part = "memory" => Memory!TypeOK
    /\ part = "limiter" => Limiter!TypeOK
    /\ part = "edits" => Message!TypeOK
    /\ part = "backfetch" => Backfetch!TypeOK
    /\ part = "rpc" => Rpc!TypeOK
    /\ part = "window" => Resident!TypeOK
    /\ part = "folding" => Folding!TypeOK
    /\ part = "corrected" => Corrected!TypeOK
    /\ part = "nudged" => Nudged!TypeOK

\* A pool of workers: never more of them than configured, two on one row only after an
\* edit, no row in processing without one, no end of the loop but by a rejected claim, a
\* bounded number of attempts; and what a complete row holds is about the message as it
\* reads now, unless it was edited under a worker: then the worker's result is stored over
\* the edit's pending status.
PoolSafe == part \in {"enrichment", "captioning"} =>
    /\ Enrichment!WorkersBounded /\ Enrichment!OneWorkerPerJob
    /\ Enrichment!ProcessingIsHeld /\ Enrichment!LoopAlive
    /\ Enrichment!AttemptsBounded /\ Enrichment!EditsEnriched

\* Summarization: no job is stranded in processing, none is summarized twice or tried
\* without end, no draft is thrown away, and no sticky escalation outlives its job.
SummarySafe == part = "summarization" =>
    /\ Summary!NotStranded /\ Summary!OneSummary /\ Summary!AttemptsBounded
    /\ Summary!DraftSalvaged /\ Summary!EscalationCleared

\* The diary: no entry is lost from the day's file when sessions edit it, none is written
\* twice but for a crash, a failure or the operator, no job is done before its entry is
\* written, stranded in processing or tried without end.
DiarySafe ==
    /\ part = "diary" => Diary!TextsKept /\ Diary!DoneIsWritten /\ Diary!EntriesOnce
                        /\ Diary!NotStranded /\ Diary!AttemptsBounded
    /\ part = "memory" => Memory!TextsKept /\ Memory!DoneIsWritten /\ Memory!EntriesOnce
                         /\ Memory!NotStranded /\ Memory!AttemptsBounded

\* Every row and every job is worked on to its end while its pool runs, every undecryptable
\* row is decrypted, removed or given up, and every backfetch ends or is paused.
EveryJobEnds ==
    []<>(/\ part \in {"enrichment", "captioning"} => Enrichment!JobsEnded
         /\ part = "summarization" => Summary!JobsEnded
         /\ part \in {"diary", "memory"} => Diary!JobsEnded
         /\ part = "edits" => Message!RowsSettled
         /\ part = "backfetch" => Backfetch!BackfetchesEnded)

\* In whatever order a message and its edits arrive and become readable, it shows the
\* newest edit that was heard of, and one that is not stored yet has it parked.
EditsKept == part = "edits" => Message!ShowsNewest

\* Deep backfetch: one job at a time in a room, nothing behind a cursor skipped, counts kept
\* over pauses and restarts, no row stored into the context, and an order to stop heeded
\* within a page.
BackfetchSafe == part = "backfetch" =>
    /\ Backfetch!OneRunPerRoom /\ Backfetch!NothingSkipped /\ Backfetch!CountKept
    /\ Backfetch!BelowFloor /\ Backfetch!StopsWithinAPage

\* The placeholder of a decrypted edit is not removed before the edit was heard, and a
\* session issues no request that a correction has made stale.
StepsSound == [][/\ part = "edits" => Message!PlaceholdersStand
                 /\ part \in {"corrected", "nudged"} => Corrected!NoneStale]_vars

\* The limiter: never more callers than slots, no slot lost, and no two starts closer
\* together than the interval, however their callers got their slots.
PacingSafe == part = "limiter" =>
    /\ Limiter!InFlightBounded /\ Limiter!NoSlotLost /\ Limiter!StartsPaced

\* Retrieval's worker process: a child is not killed for an abort it has not come to, a stuck
\* one always is, and no request survives it.  The window it keeps resident: no query takes a
\* block from a window that has not got it, a window with the current key has the newest
\* blocks, and no request for an update is forgotten.
RetrievalSafe ==
    /\ part = "rpc" => Rpc!GraceIsTheHeads /\ Rpc!StuckIsNoticed /\ Rpc!NoneLeftBehind
    /\ part = "window" => Resident!WindowWhole /\ Resident!KeyHonest /\ Resident!RequestsServed

\* A message folded into a session is answered once, however its two deliveries and its
\* download fall among the session's builds, ends, revivals and resumes, and no trigger is
\* lost, except to a twin that is suppressed (StillAnswered).
FollowUpsSafe == part = "folding" => Folding!AnsweredOnce /\ Folding!NoTriggerLost

\* The run of a session: no fork discards what was delivered or forgets what was steered,
\* no refused output stands as the answer, and after a Stop at most one request is issued.
RunSafe == part \in {"corrected", "nudged"} =>
    /\ Corrected!DeliveredKept /\ Corrected!NotesKept
    /\ Corrected!RefusalsRedone /\ Corrected!StopHeeded

\* A caller is never left waiting: a caller of the limiter's first class gets its turn
\* whatever the others ask for, a request to a worker process settles whether the
\* process answers, hangs or dies, no message stays in a session's queues, and the run
\* of a session ends however often it is redone.
EveryCallerEnds ==
    []<>(/\ part = "limiter" => Limiter!FirstClassServed
         /\ part = "rpc" => Rpc!CallsSettled
         /\ part = "folding" => Folding!FollowUpsSettled
         /\ part \in {"corrected", "nudged"} => Corrected!RunEnds)
=============================================================================
