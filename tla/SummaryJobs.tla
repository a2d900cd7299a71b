----------------------------- MODULE SummaryJobs ----------------------------
(***************************************************************************)
(* What becomes of a summarization job once the pool has claimed it        *)
(* (src/summarization/worker-pool.ts, escalation.ts): the run of an        *)
(* agent between a dozen awaited writes, each of which may reject, a drain *)
(* that aborts it, a refusal that spends it, and the session that waits    *)
(* for it without a clock and may raise its priority.  The loop that       *)
(* claims is the one of WorkerPool.                                        *)
(*                                                                         *)
(* Left out: what is summarized and how a draft is cut to its budget, the  *)
(* rows of sessions, the order of claims, condensation, and callbacks that *)
(* throw.                                                                  *)
(***************************************************************************)
EXTENDS Naturals

CONSTANTS
    Jobs,           \* rows of summarization_jobs
    MaxRetries,     \* max_retries
    MaxRejects, MaxRestarts, MaxRetriedByHand, MaxRedos     \* bounds

SummaryJobsAssumption ==
    /\ MaxRetries \in Nat
    /\ {MaxRejects, MaxRestarts, MaxRetriedByHand, MaxRedos} \subseteq Nat

VARIABLES
    status,     \* the row, absent before it is enqueued and when it is deleted
    attempts,   \* counted by the claim
    draft,      \* best_effort_draft is set
    summaries,  \* how many summaries were stored for the job
    at,         \* where its worker is: idle when it has none
    escalation, \* none, its row is raised, or the pool's waiters were told
    sticky,     \* the scheduler's sticky escalations
    swept,      \* runs that stop() aborted
    phase,      \* running, stopping or down
    excused,    \* history: given up for its input or a refusal
    rejects, crashes, restarts, byHand, redos

jobVars == <<status, attempts, draft, summaries, excused>>
priorityVars == <<escalation, sticky>>
processVars == <<swept, phase>>
boundVars == <<crashes, restarts, byHand>>
vars == <<status, attempts, draft, summaries, at, escalation, sticky,
          swept, phase, excused, rejects, crashes, restarts, byHand, redos>>

\* The session row is closed with what the run came to, which says what comes after.
AfterClosing == [closed_summary |-> "inserting", closed_drained |-> "returning",
                 closed_draft |-> "saving", closed_nothing |-> "ending",
                 closed_refused |-> "spent", closed_withheld |-> "keeping"]

\* Stages that await a write, by what becomes of a rejection.
Guarded == {"ending", "spent"}                     \* runJob catches it itself
Escaping == {"deleting", "failing", "opening", "discarding", "inserting", "returning",
             "saving", "keeping"} \cup DOMAIN AfterClosing     \* it escapes runJob
Stages == Guarded \cup Escaping
          \cup {"idle", "claimed", "running", "failing_over", "escaped", "last_resort", "telling"}

Running == phase = "running"
Busy == {j \in Jobs : at[j] # "idle"}
Ended == {"complete", "failed", "absent"}

GoesTo(j, s) == at' = [at EXCEPT ![j] = s]
Becomes(j, s) == status' = [status EXCEPT ![j] = s]

(***************************************************************************)
(* From the claim to the end of the run.                                   *)
(***************************************************************************)
\* insertSummarizationJob
Enqueue(j) ==
    /\ Running /\ status[j] = "absent" /\ attempts[j] = 0 /\ ~excused[j]
    /\ Becomes(j, "pending")
    /\ UNCHANGED <<attempts, draft, summaries, excused, priorityVars, at,
                   processVars, boundVars, rejects, redos>>

\* claimNextSummarizationJob
Claim(j) ==
    /\ Running
    /\ status[j] = "pending" /\ at[j] = "idle"
    /\ Becomes(j, "processing")
    /\ attempts' = [attempts EXCEPT ![j] = @ + 1]
    /\ GoesTo(j, "claimed")
    /\ UNCHANGED <<draft, summaries, excused, priorityVars, processVars,
                   boundVars, rejects, redos>>

\* resolveInput: without its input the job is deleted or fails, depending on its level.
Resolve(j) ==
    /\ at[j] = "claimed"
    /\ \/ /\ GoesTo(j, "opening")
          /\ UNCHANGED excused
       \/ /\ (GoesTo(j, "deleting") \/ GoesTo(j, "failing"))
          /\ excused' = [excused EXCEPT ![j] = TRUE]
    /\ UNCHANGED <<status, attempts, draft, summaries, priorityVars, processVars,
                   boundVars, rejects, redos>>

\* The run ends.  A run that starts in a drain is drained at its gate, if its agent can be
\* built; one that was swept may have been over already.
RunEnds(j) ==
    /\ at[j] = "running"
    /\ \E s \in DOMAIN AfterClosing :
        /\ s = "closed_drained" => ~Running
        /\ ~Running /\ j \notin swept => s \in {"closed_drained", "closed_nothing"}
        /\ GoesTo(j, s)
    /\ UNCHANGED <<jobVars, priorityVars, processVars, boundVars, rejects, redos>>

\* The output is judged a refusal.
RunJudged(j) ==
    /\ at[j] = "running"
    /\ Running \/ j \in swept
    /\ redos < MaxRedos
    /\ redos' = redos + 1
    /\ GoesTo(j, "discarding")
    /\ UNCHANGED <<jobVars, priorityVars, processVars, boundVars, rejects>>

(***************************************************************************)
(* A write commits.                                                        *)
(***************************************************************************)
SessionWritten(j) ==
    /\ \/ /\ at[j] = "opening"
          /\ GoesTo(j, "running")
          /\ UNCHANGED excused
       \/ /\ at[j] = "discarding"       \* the next entry of the rule, or none is left
          /\ \/ /\ GoesTo(j, "opening")
                /\ UNCHANGED excused
             \/ /\ GoesTo(j, "failing")
                /\ excused' = [excused EXCEPT ![j] = TRUE]
       \/ /\ at[j] \in DOMAIN AfterClosing
          /\ GoesTo(j, AfterClosing[at[j]])
          /\ excused' = [excused EXCEPT ![j] = @ \/ at[j] \in {"closed_refused", "closed_withheld"}]
    /\ swept' = IF at[j] = "discarding" THEN swept \ {j} ELSE swept
    /\ UNCHANGED <<status, attempts, draft, summaries, priorityVars, phase,
                   boundVars, rejects, redos>>

\* Mutant: the summary and the end of its job are two transactions.
InsertSummary_Alone(j) ==
    /\ at[j] = "inserting"
    /\ summaries' = [summaries EXCEPT ![j] = @ + 1]
    /\ GoesTo(j, "telling")
    /\ UNCHANGED <<status, attempts, draft, excused, priorityVars, processVars,
                   boundVars, rejects, redos>>

\* insertSummaryWithLineage: the summary and its job in one transaction.
InsertSummary(j) ==
    /\ at[j] = "inserting"
    /\ Becomes(j, "complete")
    /\ summaries' = [summaries EXCEPT ![j] = @ + 1]
    /\ GoesTo(j, "telling")
    /\ UNCHANGED <<attempts, draft, excused, priorityVars, processVars, boundVars,
                   rejects, redos>>

\* Mutant: a drained job keeps the attempt its claim counted.
ReturnToPending_NoRefund(j) ==
    /\ at[j] = "returning"
    /\ Becomes(j, "pending")
    /\ GoesTo(j, "idle")
    /\ UNCHANGED <<attempts, draft, summaries, excused, priorityVars, processVars,
                   boundVars, rejects, redos>>

\* returnSummarizationJobToPending
ReturnToPending(j) ==
    /\ at[j] = "returning"
    /\ Becomes(j, "pending")
    /\ attempts' = [attempts EXCEPT ![j] = @ - 1]
    /\ GoesTo(j, "idle")
    /\ UNCHANGED <<draft, summaries, excused, priorityVars, processVars, boundVars,
                   rejects, redos>>

\* saveBestEffortDraft, before the job fails or is retried: also what a refused run drafted
\* is kept, for a retry by hand.
SaveDraft(j) ==
    /\ at[j] \in {"saving", "keeping"}
    /\ draft' = [draft EXCEPT ![j] = TRUE]
    /\ GoesTo(j, IF at[j] = "saving" THEN "ending" ELSE "spent")
    /\ UNCHANGED <<status, attempts, summaries, excused, priorityVars, processVars,
                   boundVars, rejects, redos>>

\* Mutant: a job out of retries fails, whatever it drafted.
End_NoSalvage(j) ==
    /\ \/ /\ at[j] = "ending" /\ attempts[j] <= MaxRetries
          /\ Becomes(j, "pending")
          /\ GoesTo(j, "idle")
       \/ /\ at[j] = "spent" \/ (at[j] = "ending" /\ attempts[j] > MaxRetries)
          /\ Becomes(j, "failed")
          /\ GoesTo(j, "telling")
    /\ UNCHANGED <<attempts, draft, summaries, excused, priorityVars, processVars,
                   boundVars, rejects, redos>>

\* The failure path: spent by a refusal, retried, salvaged (truncationFallback), or failed.
End(j) ==
    /\ \/ /\ at[j] = "ending" /\ attempts[j] <= MaxRetries
          /\ Becomes(j, "pending")
          /\ GoesTo(j, "idle")
          /\ UNCHANGED summaries
       \/ /\ at[j] = "ending" /\ attempts[j] > MaxRetries /\ draft[j]
          /\ Becomes(j, "complete")
          /\ summaries' = [summaries EXCEPT ![j] = @ + 1]
          /\ GoesTo(j, "telling")
       \/ /\ at[j] = "spent" \/ (at[j] = "ending" /\ attempts[j] > MaxRetries /\ ~draft[j])
          /\ Becomes(j, "failed")
          /\ GoesTo(j, "telling")
          /\ UNCHANGED summaries
    /\ UNCHANGED <<attempts, draft, excused, priorityVars, processVars, boundVars,
                   rejects, redos>>

\* failSummarizationJob and deleteSummarizationJob, each followed by onError.
GiveUp(j) ==
    /\ at[j] \in {"failing", "failing_over", "deleting"}
    /\ Becomes(j, IF at[j] = "deleting" THEN "absent" ELSE "failed")
    /\ GoesTo(j, "telling")
    /\ UNCHANGED <<attempts, draft, summaries, excused, priorityVars, processVars,
                   boundVars, rejects, redos>>

\* terminalizeEscapedRejection
Terminalize(j) ==
    /\ at[j] = "escaped"
    /\ IF attempts[j] <= MaxRetries
       THEN Becomes(j, "pending") /\ GoesTo(j, "idle")
       ELSE Becomes(j, "failed") /\ GoesTo(j, "telling")
    /\ UNCHANGED <<attempts, draft, summaries, excused, priorityVars, processVars,
                   boundVars, rejects, redos>>

\* Its last resort fails the job, and tells nobody.
LastResort(j) ==
    /\ at[j] = "last_resort"
    /\ Becomes(j, "failed")
    /\ GoesTo(j, "idle")
    /\ UNCHANGED <<attempts, draft, summaries, excused, priorityVars, processVars,
                   boundVars, rejects, redos>>

\* Mutant: a rejection that escapes runJob ends in the log of the pool.
WriteRejects_Swallowed(j) ==
    /\ rejects < MaxRejects
    /\ rejects' = rejects + 1
    /\ \/ at[j] \in Escaping     /\ GoesTo(j, "idle")
       \/ at[j] \in Guarded      /\ GoesTo(j, "failing_over")
       \/ at[j] = "failing_over" /\ GoesTo(j, "telling")
    /\ UNCHANGED <<jobVars, priorityVars, processVars, boundVars, redos>>

WriteRejects(j) ==
    /\ rejects < MaxRejects
    /\ rejects' = rejects + 1
    /\ \/ at[j] \in Escaping     /\ GoesTo(j, "escaped")
       \/ at[j] \in Guarded      /\ GoesTo(j, "failing_over")
       \/ at[j] = "failing_over" /\ GoesTo(j, "telling")
       \/ at[j] = "escaped"      /\ GoesTo(j, "last_resort")
       \/ at[j] = "last_resort"  /\ GoesTo(j, "idle")
    /\ UNCHANGED <<jobVars, priorityVars, processVars, boundVars, redos>>

\* onComplete, onError: the scheduler forgets the job's escalation.
Tell(j) ==
    /\ at[j] = "telling"
    /\ sticky' = sticky \ {j}
    /\ GoesTo(j, "idle")
    /\ UNCHANGED <<jobVars, escalation, processVars, boundVars, rejects, redos>>

(***************************************************************************)
(* A session that waits for the job raises it, in a write and what follows *)
(* the write.                                                              *)
(***************************************************************************)
Escalate(j) ==
    /\ Running /\ escalation[j] = "none"
    /\ status[j] \in {"pending", "processing"}
    /\ escalation' = [escalation EXCEPT ![j] = "row"]
    /\ UNCHANGED <<jobVars, sticky, at, processVars, boundVars, rejects, redos>>

\* Mutant: the job is not read again.
EscalateThen_NoReread(j) ==
    /\ escalation[j] = "row"
    /\ escalation' = [escalation EXCEPT ![j] = "told"]
    /\ sticky' = sticky \cup {j}
    /\ UNCHANGED <<jobVars, at, processVars, boundVars, rejects, redos>>

EscalateThen(j) ==
    /\ escalation[j] = "row"
    /\ escalation' = [escalation EXCEPT ![j] = "told"]
    /\ sticky' = IF status[j] \in Ended THEN sticky ELSE sticky \cup {j}
    /\ UNCHANGED <<jobVars, at, processVars, boundVars, rejects, redos>>

(***************************************************************************)
(* The process, and the operator.                                          *)
(***************************************************************************)
\* retryPipelineItem, retryFailedPipelineItems
RetryByHand(j) ==
    /\ phase # "down" /\ status[j] = "failed"
    /\ byHand < MaxRetriedByHand
    /\ byHand' = byHand + 1
    /\ Becomes(j, "pending")
    /\ attempts' = [attempts EXCEPT ![j] = 0]
    /\ excused' = [excused EXCEPT ![j] = FALSE]
    /\ UNCHANGED <<draft, summaries, priorityVars, at, processVars, crashes,
                   restarts, rejects, redos>>

\* stop() aborts the runs of the agents it knows.
Stop ==
    /\ Running
    /\ phase' = "stopping"
    /\ swept' = {j \in Jobs : at[j] = "running"}
    /\ UNCHANGED <<jobVars, priorityVars, at, boundVars, rejects, redos>>

\* The process ends: with its work done, or in the middle of it.
Exit ==
    /\ phase # "down" /\ restarts < MaxRestarts
    /\ phase' = "down"
    /\ crashes' = IF Busy = {} THEN crashes ELSE crashes + 1
    /\ at' = [j \in Jobs |-> "idle"]
    /\ sticky' = {} /\ swept' = {}
    /\ escalation' = [j \in Jobs |-> "none"]
    /\ UNCHANGED <<jobVars, restarts, byHand, rejects, redos>>

\* start: resetStaleSummarizationJobs, attempts left as they are
Start ==
    /\ phase = "down"
    /\ phase' = "running"
    /\ restarts' = restarts + 1
    /\ status' = [j \in Jobs |-> IF status[j] = "processing" THEN "pending" ELSE status[j]]
    /\ UNCHANGED <<attempts, draft, summaries, excused, priorityVars, at, swept,
                   crashes, byHand, rejects, redos>>

-----------------------------------------------------------------------------

Init ==
    /\ status = [j \in Jobs |-> "absent"]
    /\ attempts = [j \in Jobs |-> 0]
    /\ draft = [j \in Jobs |-> FALSE] /\ summaries = [j \in Jobs |-> 0]
    /\ at = [j \in Jobs |-> "idle"]
    /\ escalation = [j \in Jobs |-> "none"] /\ sticky = {}
    /\ swept = {} /\ phase = "running"
    /\ excused = [j \in Jobs |-> FALSE]
    /\ rejects = 0 /\ crashes = 0 /\ restarts = 0 /\ byHand = 0 /\ redos = 0

\* What a worker does next with the job it holds.
Work(j) ==
    \/ Resolve(j) \/ RunEnds(j) \/ SessionWritten(j) \/ InsertSummary(j)
    \/ ReturnToPending(j) \/ SaveDraft(j) \/ End(j) \/ GiveUp(j)
    \/ Terminalize(j) \/ LastResort(j) \/ Tell(j)

Next ==
    \/ \E j \in Jobs :
        \/ Enqueue(j) \/ Claim(j) \/ Work(j) \/ RunJudged(j) \/ WriteRejects(j)
        \/ Escalate(j) \/ EscalateThen(j) \/ RetryByHand(j)
    \/ Stop \/ Exit \/ Start

\* The pool polls, and a run ends: an agent's turns are capped, its requests are aborted
\* by a drain.
Fairness == \A j \in Jobs : WF_vars(Claim(j)) /\ WF_vars(Work(j))

Spec == Init /\ [][Next]_vars /\ Fairness

(***************************************************************************)
(* Properties.                                                             *)
(***************************************************************************)
TypeOK ==
    /\ status \in [Jobs -> {"absent", "pending", "processing", "complete", "failed"}]
    /\ attempts \in [Jobs -> Nat]
    /\ draft \in [Jobs -> BOOLEAN] /\ summaries \in [Jobs -> Nat]
    /\ at \in [Jobs -> Stages]
    /\ escalation \in [Jobs -> {"none", "row", "told"}]
    /\ sticky \in SUBSET Jobs /\ swept \in SUBSET Jobs
    /\ phase \in {"running", "stopping", "down"}
    /\ excused \in [Jobs -> BOOLEAN]
    /\ rejects \in 0..MaxRejects /\ redos \in 0..MaxRedos
    /\ crashes \in 0..MaxRestarts /\ restarts \in 0..MaxRestarts
    /\ byHand \in 0..MaxRetriedByHand

\* A job that reads processing in a running process has a worker: whoever waits for it
\* has no clock.  It takes two rejected writes in a row to leave one behind.
NotStranded ==
    \A j \in Jobs : Running /\ status[j] = "processing" /\ at[j] = "idle" => rejects >= 2

\* No job fails that has something to show, unless its input is gone, a refusal spent
\* it, or writes were rejected.
DraftSalvaged ==
    \A j \in Jobs : status[j] = "failed" /\ draft[j] => excused[j] \/ rejects > 0

\* A job stores one summary, whatever crashes and is run again.
OneSummary == \A j \in Jobs : summaries[j] <= 1

\* A job is run max_retries times after the first, plus once for each crash and each
\* rejected write: a drain costs it nothing.
AttemptsBounded ==
    \A j \in Jobs : attempts[j] <= MaxRetries + 1 + crashes + rejects

\* The scheduler's sticky escalation does not outlive its job, however the waiter's write
\* and the job's end interleave.  Only the last resort leaves one behind.
EscalationCleared ==
    \A j \in sticky : status[j] \in {"pending", "processing"} \/ at[j] = "telling" \/ rejects >= 2

\* (Again and again.)  Every job has come to its end while the pool runs, unless two writes
\* were rejected.
JobsEnded == Running /\ rejects < 2 => \A j \in Jobs : status[j] \in Ended
=============================================================================
