----------------------------- MODULE WorkerPool -----------------------------
(***************************************************************************)
(* The pool that enriches stored events (src/enrichment/worker-pool.ts)    *)
(* and the one that captions their media (src/captioning/                  *)
(* worker-pool.ts).  Both are a loop of timers over rows of the database:  *)
(* a poll claims pending rows for the free workers and schedules the next  *)
(* poll; with nothing to claim it sleeps, to be woken by a timer or by a   *)
(* notification; a worker that ends schedules a poll.  One field holds     *)
(* whichever timer was set last.                                           *)
(*                                                                         *)
(* A storage write commits in the turn that issues it, so a poll with its  *)
(* claim is one step.  They differ in where an attempt is counted, and in  *)
(* the budget gate and the edits that only one of them knows.              *)
(*                                                                         *)
(* Left out: what a worker fetches or says, which media is eligible, and   *)
(* the pause of the budget's log.                                          *)
(***************************************************************************)
EXTENDS Naturals, Sequences, FiniteSets, SequencesExt

CONSTANTS
    Jobs,           \* rows of timeline_events, or of media_assets
    WorkerCount,    \* worker_count
    MaxRetries,     \* max_retries
    CountsAtClaim,  \* the claim counts the attempt (captioning), or its failure does
    MaxEdits, MaxRejects, MaxRestarts, MaxRetriedByHand   \* bounds

WorkerPoolAssumption ==
    /\ IsFiniteSet(Jobs)
    /\ WorkerCount \in Nat \ {0} /\ MaxRetries \in Nat \ {0}
    /\ CountsAtClaim \in BOOLEAN
    /\ {MaxEdits, MaxRejects, MaxRestarts, MaxRetriedByHand} \subseteq Nat

VARIABLES
    status,     \* enrichment_status or caption_status
    attempts,   \* enrichment_retries or caption_attempts
    body,       \* which version of the message the row holds
    enriched,   \* which version its results were computed from
    timer,      \* pollTimer: the next poll, the end of a sleep, or none
    waker,      \* wakeResolve is set, by the sleep under way or by one long over
    busy,       \* activeWorkers, in the order they started
    paused,     \* every model of the caption chain is over its budget
    phase,      \* running, stopping or down
    raced,      \* history: the row was edited under a worker
    rejects, restarts, byHand

rowVars == <<status, attempts, body, enriched, raced>>
loopVars == <<timer, waker>>
boundVars == <<rejects, restarts, byHand>>
vars == <<status, attempts, body, enriched, timer, waker, busy, paused, phase, raced,
          rejects, restarts, byHand>>

Running == phase = "running"
Pending == {j \in Jobs : status[j] = "pending"}
Held(j) == \E i \in DOMAIN busy : busy[i].job = j
Available == WorkerCount - Len(busy)

\* schedulePoll: whatever timer is set is replaced.
SchedulePoll == timer' = IF Running THEN "poll" ELSE timer

\* Mutant: the notification stops the timer also when no poll is asleep.
Notify_AnyTimer ==
    /\ timer' = IF waker THEN "poll" ELSE "none"
    /\ waker' = FALSE

\* notifyNewEvent, notifyNewWork: the sleeper goes on, and schedules a poll.
Notify ==
    /\ timer' = IF waker /\ Running THEN "poll" ELSE timer
    /\ waker' = FALSE

(***************************************************************************)
(* The loop.                                                               *)
(***************************************************************************)
\* The poll of a full or paused pool only schedules the next one: it is a stutter.
Polls ==
    /\ Running /\ timer = "poll"
    /\ Available > 0 /\ ~paused

\* Mutant: a poll claims for all the workers, whoever is busy.
Claim_Full ==
    /\ Polls
    /\ \E S \in SUBSET Pending :
        /\ S # {} /\ Cardinality(S) <= WorkerCount
        /\ status' = [j \in Jobs |-> IF j \in S THEN "processing" ELSE status[j]]
        /\ attempts' = [j \in Jobs |-> IF j \in S /\ CountsAtClaim THEN attempts[j] + 1
                                       ELSE attempts[j]]
        /\ raced' = [j \in Jobs |-> raced[j] /\ (j \in S => Held(j))]
        /\ busy' = busy \o SetToSeq({[job |-> j, seen |-> body[j]] : j \in S})
    /\ SchedulePoll
    /\ UNCHANGED <<body, enriched, waker, paused, phase, boundVars>>

\* claimPendingEnrichment, claimPendingCaptions: as many rows as there are free workers.
Claim ==
    /\ Polls
    /\ \E S \in SUBSET Pending :
        /\ S # {} /\ Cardinality(S) <= Available
        /\ Cardinality(S) = Available \/ S = Pending
        /\ status' = [j \in Jobs |-> IF j \in S THEN "processing" ELSE status[j]]
        /\ attempts' = [j \in Jobs |-> IF j \in S /\ CountsAtClaim THEN attempts[j] + 1
                                       ELSE attempts[j]]
        /\ raced' = [j \in Jobs |-> raced[j] /\ (j \in S => Held(j))]
        /\ busy' = busy \o SetToSeq({[job |-> j, seen |-> body[j]] : j \in S})
    /\ SchedulePoll
    /\ UNCHANGED <<body, enriched, waker, paused, phase, boundVars>>

\* Nothing to claim: the poll sleeps, with a waker in place of any older one.
Sleep ==
    /\ Polls /\ Pending = {}
    /\ timer' = "sleep"
    /\ waker' = TRUE
    /\ UNCHANGED <<rowVars, busy, paused, phase, boundVars>>

\* The claim rejects: the poll ends in its log, and schedules nothing.
ClaimRejects ==
    /\ Polls
    /\ rejects < MaxRejects
    /\ rejects' = rejects + 1
    /\ timer' = "none"
    /\ UNCHANGED <<rowVars, waker, busy, paused, phase, restarts, byHand>>

\* Mutant: the sleeper that wakes by itself schedules nothing.
SleepEnds_Idle ==
    /\ Running /\ timer = "sleep"
    /\ waker' = FALSE
    /\ timer' = "none"
    /\ UNCHANGED <<rowVars, busy, paused, phase, boundVars>>

SleepEnds ==
    /\ Running /\ timer = "sleep"
    /\ waker' = FALSE
    /\ SchedulePoll
    /\ UNCHANGED <<rowVars, busy, paused, phase, boundVars>>

\* The budget gate of the caption pool closes, and opens when its window rolls.
Budget ==
    /\ CountsAtClaim /\ Running
    /\ paused' = ~paused
    /\ UNCHANGED <<rowVars, loopVars, busy, phase, boundVars>>

(***************************************************************************)
(* A worker ends.                                                          *)
(***************************************************************************)
Leaves(i) ==
    /\ busy' = RemoveAt(busy, i)
    /\ SchedulePoll

\* persistEnrichmentResults, updateCaptionResult: the row is complete, whatever it says.
Succeeds(i) ==
    /\ status' = [status EXCEPT ![busy[i].job] = "complete"]
    /\ enriched' = [enriched EXCEPT ![busy[i].job] = busy[i].seen]
    /\ Leaves(i)
    /\ UNCHANGED <<attempts, body, waker, paused, phase, raced, boundVars>>

\* Mutant: the last attempt is retried too.
Fails_OneMore(i) ==
    LET j == busy[i].job
        count == attempts[j] + (IF CountsAtClaim THEN 0 ELSE 1)
    IN  /\ attempts' = [attempts EXCEPT ![j] = count]
        /\ status' = [status EXCEPT ![j] = IF count > MaxRetries THEN "failed" ELSE "pending"]
        /\ Leaves(i)
        /\ UNCHANGED <<body, enriched, waker, paused, phase, raced, boundVars>>

\* handleWorkerError
Fails(i) ==
    LET j == busy[i].job
        count == attempts[j] + (IF CountsAtClaim THEN 0 ELSE 1)
    IN  /\ attempts' = [attempts EXCEPT ![j] = count]
        /\ status' = [status EXCEPT ![j] = IF count >= MaxRetries THEN "failed" ELSE "pending"]
        /\ Leaves(i)
        /\ UNCHANGED <<body, enriched, waker, paused, phase, raced, boundVars>>

\* Not to be retried: no event, no capabilities, no workspace, a refusal of every model.
FailsForGood(i) ==
    /\ status' = [status EXCEPT ![busy[i].job] = "failed"]
    /\ Leaves(i)
    /\ UNCHANGED <<attempts, body, enriched, waker, paused, phase, raced, boundVars>>

\* The status write rejects: nobody handles that, and the process is stopped.
WriteRejects(i) ==
    /\ rejects < MaxRejects
    /\ rejects' = rejects + 1
    /\ busy' = RemoveAt(busy, i)
    /\ phase' = "stopping"
    /\ timer' = "none"
    /\ waker' = FALSE
    /\ UNCHANGED <<rowVars, paused, restarts, byHand>>

WorkerEnds(i) == Succeeds(i) \/ Fails(i) \/ FailsForGood(i)
SomeWorkerEnds == \E i \in DOMAIN busy : WorkerEnds(i)

(***************************************************************************)
(* What others do to the rows.                                             *)
(***************************************************************************)
\* An event is stored, with something to enrich.
Store(j) ==
    /\ phase # "down"
    /\ status[j] = "absent"
    /\ status' = [status EXCEPT ![j] = "pending"]
    /\ Notify
    /\ UNCHANGED <<attempts, body, enriched, busy, paused, phase, raced, boundVars>>

\* Mutant: an edit does not arm the enrichment again.
Edit_KeepsStatus(j) ==
    /\ phase # "down" /\ ~CountsAtClaim
    /\ status[j] # "absent"
    /\ body[j] < MaxEdits
    /\ body' = [body EXCEPT ![j] = @ + 1]
    /\ raced' = [raced EXCEPT ![j] = @ \/ Held(j)]
    /\ Notify
    /\ UNCHANGED <<status, attempts, enriched, busy, paused, phase, boundVars>>

\* applyEditToTarget with editStatus, of a message that still has something to enrich.
Edit(j) ==
    /\ phase # "down" /\ ~CountsAtClaim
    /\ status[j] # "absent"
    /\ body[j] < MaxEdits
    /\ body' = [body EXCEPT ![j] = @ + 1]
    /\ status' = [status EXCEPT ![j] = "pending"]
    /\ raced' = [raced EXCEPT ![j] = @ \/ Held(j)]
    /\ Notify
    /\ UNCHANGED <<attempts, enriched, busy, paused, phase, boundVars>>

\* Mutant: the retry of one row accepts any status.
Retry_Processing(S) ==
    /\ phase # "down" /\ S # {}
    /\ byHand < MaxRetriedByHand
    /\ byHand' = byHand + 1
    /\ \E j \in Jobs : S = {j} /\ status[j] # "absent"
    /\ status' = [j \in Jobs |-> IF j \in S THEN "pending" ELSE status[j]]
    /\ attempts' = [j \in Jobs |-> IF j \in S THEN 0 ELSE attempts[j]]
    /\ Notify
    /\ UNCHANGED <<body, enriched, busy, paused, phase, raced, rejects, restarts>>

\* retryPipelineItem of one row that has ended, retryFailedPipelineItems of all that failed.
Retry(S) ==
    /\ phase # "down" /\ S # {}
    /\ byHand < MaxRetriedByHand
    /\ byHand' = byHand + 1
    /\ \/ \E j \in Jobs : S = {j} /\ status[j] \in {"complete", "failed"}
       \/ S = {j \in Jobs : status[j] = "failed"}
    /\ status' = [j \in Jobs |-> IF j \in S THEN "pending" ELSE status[j]]
    /\ attempts' = [j \in Jobs |-> IF j \in S THEN 0 ELSE attempts[j]]
    /\ Notify
    /\ UNCHANGED <<body, enriched, busy, paused, phase, raced, rejects, restarts>>

(***************************************************************************)
(* The process.                                                            *)
(***************************************************************************)
Stop ==
    /\ Running
    /\ phase' = "stopping"
    /\ timer' = "none"
    /\ waker' = FALSE
    /\ UNCHANGED <<rowVars, busy, paused, boundVars>>

\* The process ends when its workers have, or at any moment.
Exit ==
    /\ phase # "down"
    /\ restarts < MaxRestarts
    /\ phase' = "down"
    /\ timer' = "none" /\ waker' = FALSE
    /\ busy' = <<>>
    /\ UNCHANGED <<rowVars, paused, boundVars>>

\* Mutant: start takes the rows as they are.
Start_NoReset ==
    /\ phase = "down"
    /\ restarts' = restarts + 1
    /\ phase' = "running"
    /\ timer' = "poll"
    /\ UNCHANGED <<rowVars, waker, busy, paused, rejects, byHand>>

\* start: resetStaleEnrichment, resetStaleCaptions
Start ==
    /\ phase = "down"
    /\ restarts' = restarts + 1
    /\ phase' = "running"
    /\ timer' = "poll"
    /\ status' = [j \in Jobs |-> IF status[j] = "processing" THEN "pending" ELSE status[j]]
    /\ UNCHANGED <<attempts, body, enriched, raced, waker, busy, paused, rejects, byHand>>

-----------------------------------------------------------------------------

Init ==
    /\ status = [j \in Jobs |-> "absent"]
    /\ attempts = [j \in Jobs |-> 0]
    /\ body = [j \in Jobs |-> 0] /\ enriched = [j \in Jobs |-> 0]
    /\ raced = [j \in Jobs |-> FALSE]
    /\ timer = "poll" /\ waker = FALSE
    /\ busy = <<>>
    /\ paused = FALSE
    /\ phase = "running"
    /\ rejects = 0 /\ restarts = 0 /\ byHand = 0

Next ==
    \/ Claim \/ Sleep \/ ClaimRejects \/ SleepEnds \/ Budget
    \/ SomeWorkerEnds \/ \E i \in DOMAIN busy : WriteRejects(i)
    \/ \E j \in Jobs : Store(j) \/ Edit(j)
    \/ \E S \in SUBSET Jobs : Retry(S)
    \/ Stop \/ Exit \/ Start

\* Timers fire, a worker ends (its fetches have timeouts), a budget window rolls and
\* stays open for longer than the time between two polls.
Fairness ==
    /\ SF_vars(Claim) /\ WF_vars(SleepEnds) /\ WF_vars(SomeWorkerEnds)
    /\ WF_vars(Budget /\ paused)

Spec == Init /\ [][Next]_vars /\ Fairness

(***************************************************************************)
(* Properties.                                                             *)
(***************************************************************************)
TypeOK ==
    /\ status \in [Jobs -> {"absent", "pending", "processing", "complete", "failed"}]
    /\ attempts \in [Jobs -> Nat]
    /\ body \in [Jobs -> 0..MaxEdits] /\ enriched \in [Jobs -> 0..MaxEdits]
    /\ raced \in [Jobs -> BOOLEAN]
    /\ timer \in {"none", "poll", "sleep"} /\ waker \in BOOLEAN
    /\ busy \in Seq([job : Jobs, seen : 0..MaxEdits])
    /\ paused \in BOOLEAN
    /\ phase \in {"running", "stopping", "down"}
    /\ rejects \in 0..MaxRejects /\ restarts \in 0..MaxRestarts
    /\ byHand \in 0..MaxRetriedByHand

\* However polls, sleeps, wakers and ending workers interleave, there are never more
\* workers than configured.
WorkersBounded == Len(busy) <= WorkerCount

\* Two workers are on one row only after it was edited under the first.
OneWorkerPerJob ==
    \A i, k \in DOMAIN busy : busy[i].job = busy[k].job /\ i # k => raced[busy[i].job]

\* A row of a running pool that reads processing has a worker: it is not lost to a
\* crash, a failed write or a twin that ended first.
ProcessingIsHeld ==
    Running => \A j \in Jobs : status[j] = "processing" => Held(j)

\* The loop ends only by a claim that rejected: no interleaving of the one timer field
\* with sleepers, stale wakers and workers leaves a running pool without its next poll.
LoopAlive == Running /\ rejects = 0 => timer # "none"

\* A row is attempted max_retries times, and once more for each edit and each restart.
AttemptsBounded ==
    \A j \in Jobs : attempts[j] <= MaxRetries + body[j] + restarts

\* What a complete row holds is about the message as it reads now, unless it was edited
\* under a worker: then the worker's result is stored over the edit's pending status.
EditsEnriched ==
    \A j \in Jobs : status[j] = "complete" => enriched[j] = body[j] \/ raced[j]

\* (Again and again.)  There is nothing left to do: every row is worked on to its end, while
\* the pool runs and its claims succeed.
JobsEnded ==
    Running /\ rejects = 0 => \A j \in Jobs : status[j] \in {"absent", "complete", "failed"}
=============================================================================
