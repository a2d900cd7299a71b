------------------------------ MODULE DiaryJobs -----------------------------
(***************************************************************************)
(* What becomes of a diary job once the pool has claimed it                *)
(* (src/diary/worker-pool.ts), and of the day's memory file, which diary   *)
(* workers append to while sessions edit it (src/storage/memory-writer.ts, *)
(* src/tools/memory.ts): every write of theirs goes through one FIFO, and  *)
(* the general editor of files (src/tools/file.ts) goes around it.         *)
(*                                                                         *)
(* Left out: what an entry says, its header and padding, other days'       *)
(* files, edits that take something out, the readers of the file, the rows *)
(* of sessions, and callbacks that throw.  A write tears only where the    *)
(* code truncates first.  The loop that claims is the one of WorkerPool.   *)
(***************************************************************************)
EXTENDS Naturals, Sequences, FiniteSets

CONSTANTS
    Jobs,           \* summaries of level 1
    WorkerCount,    \* worker_count
    MaxRetries,     \* max_retries
    MaxRejects, MaxRestarts, MaxRetriedByHand, MaxRedos, MaxEdits, MaxDirect    \* bounds

DiaryJobsAssumption ==
    /\ IsFiniteSet(Jobs) /\ {"editor", "direct"} \cap Jobs = {}
    /\ WorkerCount \in Nat \ {0} /\ MaxRetries \in Nat
    /\ {MaxRejects, MaxRestarts, MaxRetriedByHand, MaxRedos, MaxEdits, MaxDirect} \subseteq Nat

VARIABLES
    status,     \* diary_status
    attempts,   \* diary_attempts, counted by the claim
    at,         \* where its worker is: idle when it has none
    swept,      \* runs that stop() aborted
    phase,      \* running, stopping or down
    exists,     \* the day's file
    file,       \* what is in it: how many texts of each writer
    op,         \* the next step of each writer's operation on the file
    tail,       \* the writers in the FIFO, the head running
    snap,       \* the text an edit read
    written,    \* history: how many texts of each writer were written
    blank,      \* history: jobs whose last run had nothing to record
    unwritten,  \* history: jobs whose last write of a status was rejected
    torn,       \* history: an edit was cut off between truncating and writing
    bypassed,   \* history: a step of the FIFO fell into a direct edit, or the other way round
    rejects, crashes, restarts, byHand, redos

jobVars == <<status, attempts, at, unwritten>>
fileVars == <<exists, file, op, tail, snap, written, torn, bypassed>>
processVars == <<swept, phase>>
boundVars == <<crashes, restarts, byHand>>
vars == <<status, attempts, at, swept, phase, exists, file, op, tail, snap, written, blank,
          unwritten, torn, bypassed, rejects, crashes, restarts, byHand, redos>>

Writers == Jobs \cup {"editor", "direct"}
Nothing == [w \in Writers |-> 0]

Running == phase = "running"
Busy == {j \in Jobs : at[j] # "idle"}
Ended == {"done", "skipped", "excluded", "failed"}

GoesTo(j, s) == at' = [at EXCEPT ![j] = s]
Becomes(j, s) == status' = [status EXCEPT ![j] = s]
Proceeds(w, s) == op' = [op EXCEPT ![w] = s]

\* The session row is closed with what the run came to, which says what comes after.
AfterClosing == [closed_entry |-> "appending", closed_empty |-> "finishing",
                 closed_drained |-> "returning", closed_bad |-> "ending",
                 closed_refused |-> "spent"]

\* Stages that await a write, by what becomes of a rejection.
Guarded == {"ending", "spent", "escaped"}       \* caught, and logged
Escaping == {"skipping", "excluding", "opening", "discarding", "failing", "returning",
             "finishing"} \cup DOMAIN AfterClosing
Stages == Guarded \cup Escaping \cup {"idle", "claimed", "running", "appending"}

(***************************************************************************)
(* From the claim to the end of the run.                                   *)
(***************************************************************************)
\* claimNextDiaryJob
Claim(j) ==
    /\ Running /\ Cardinality(Busy) < WorkerCount
    /\ status[j] = "pending" /\ at[j] = "idle"
    /\ Becomes(j, "processing")
    /\ attempts' = [attempts EXCEPT ![j] = @ + 1]
    /\ GoesTo(j, "claimed")
    /\ UNCHANGED <<unwritten, blank, fileVars, processVars, boundVars, rejects, redos>>

\* No account, no participation, not a shared room, or something to write about.
Resolve(j) ==
    /\ at[j] = "claimed"
    /\ \E s \in {"skipping", "excluding", "opening"} : GoesTo(j, s)
    /\ UNCHANGED <<status, attempts, unwritten, blank, fileVars, processVars, boundVars,
                   rejects, redos>>

\* The run ends.  A run that starts in a drain is drained at its gate, if its agent can be
\* built; one that was swept may have been over already.
RunEnds(j) ==
    /\ at[j] = "running"
    /\ \E s \in DOMAIN AfterClosing :
        /\ s = "closed_drained" => ~Running
        /\ ~Running /\ j \notin swept => s \in {"closed_drained", "closed_bad"}
        /\ GoesTo(j, s)
        /\ blank' = IF s = "closed_empty" THEN blank \cup {j} ELSE blank \ {j}
    /\ UNCHANGED <<status, attempts, unwritten, fileVars, processVars, boundVars, rejects, redos>>

\* The entry, or the run without one, is judged a refusal.
RunJudged(j) ==
    /\ at[j] = "running"
    /\ Running \/ j \in swept
    /\ redos < MaxRedos
    /\ redos' = redos + 1
    /\ GoesTo(j, "discarding")
    /\ UNCHANGED <<status, attempts, unwritten, blank, fileVars, processVars, boundVars, rejects>>

(***************************************************************************)
(* A write of the worker commits, or is rejected.                          *)
(***************************************************************************)
\* appendEntry takes its place in the FIFO.
Append_Enqueue(j) ==
    /\ Proceeds(j, "stat")
    /\ tail' = Append(tail, j)
    /\ UNCHANGED <<exists, file, snap, written, torn, bypassed>>

\* Mutant: the append is not awaited.
SessionWritten_NotAwaited(j) ==
    /\ \/ /\ at[j] = "opening" /\ GoesTo(j, "running") /\ UNCHANGED fileVars
       \/ /\ at[j] = "discarding"
          /\ \E s \in {"opening", "failing"} : GoesTo(j, s)
          /\ UNCHANGED fileVars
       \/ /\ at[j] \in DOMAIN AfterClosing
          /\ IF at[j] = "closed_entry"
             THEN GoesTo(j, "finishing") /\ Append_Enqueue(j)
             ELSE GoesTo(j, AfterClosing[at[j]]) /\ UNCHANGED fileVars
    /\ swept' = IF at[j] = "discarding" THEN swept \ {j} ELSE swept
    /\ UNCHANGED <<status, attempts, unwritten, blank, phase, boundVars, rejects, redos>>

SessionWritten(j) ==
    /\ \/ /\ at[j] = "opening" /\ GoesTo(j, "running") /\ UNCHANGED fileVars
       \/ /\ at[j] = "discarding"       \* the next entry of the rule, or none is left
          /\ \E s \in {"opening", "failing"} : GoesTo(j, s)
          /\ UNCHANGED fileVars
       \/ /\ at[j] \in DOMAIN AfterClosing
          /\ GoesTo(j, AfterClosing[at[j]])
          /\ IF at[j] = "closed_entry" THEN Append_Enqueue(j) ELSE UNCHANGED fileVars
    /\ swept' = IF at[j] = "discarding" THEN swept \ {j} ELSE swept
    /\ UNCHANGED <<status, attempts, unwritten, blank, phase, boundVars, rejects, redos>>

\* Mutant: a job out of retries is tried again.
Retriable_Always(j) == TRUE

Retriable(j) == attempts[j] <= MaxRetries

\* Mutant: a run that finishes in a drain is tried again, its entry written.
StatusWritten_AgainAfterDrain(j) ==
    /\ \/ /\ at[j] = "skipping" /\ Becomes(j, "skipped")
       \/ /\ at[j] = "excluding" /\ Becomes(j, "excluded")
       \/ /\ at[j] = "finishing" /\ Becomes(j, IF Running THEN "done" ELSE "pending")
       \/ /\ at[j] \in {"failing", "spent"} /\ Becomes(j, "failed")
       \/ /\ at[j] = "returning" /\ Becomes(j, "pending")
       \/ /\ at[j] = "ending" \/ (at[j] = "escaped" /\ status[j] = "processing")
          /\ Becomes(j, IF Retriable(j) THEN "pending" ELSE "failed")
       \/ /\ at[j] = "escaped" /\ status[j] # "processing"
          /\ UNCHANGED status
    /\ attempts' = [attempts EXCEPT ![j] = IF at[j] = "returning" THEN @ - 1 ELSE @]
    /\ GoesTo(j, "idle")
    /\ UNCHANGED <<unwritten, blank, fileVars, processVars, boundVars, rejects, redos>>

\* Mutant: a drained job keeps the attempt its claim counted.
StatusWritten_NoRefund(j) ==
    /\ \/ /\ at[j] = "skipping" /\ Becomes(j, "skipped")
       \/ /\ at[j] = "excluding" /\ Becomes(j, "excluded")
       \/ /\ at[j] = "finishing" /\ Becomes(j, "done")
       \/ /\ at[j] \in {"failing", "spent"} /\ Becomes(j, "failed")
       \/ /\ at[j] = "returning" /\ Becomes(j, "pending")
       \/ /\ at[j] = "ending" \/ (at[j] = "escaped" /\ status[j] = "processing")
          /\ Becomes(j, IF Retriable(j) THEN "pending" ELSE "failed")
       \/ /\ at[j] = "escaped" /\ status[j] # "processing"
          /\ UNCHANGED status
    /\ UNCHANGED attempts
    /\ GoesTo(j, "idle")
    /\ UNCHANGED <<unwritten, blank, fileVars, processVars, boundVars, rejects, redos>>

\* setDiaryStatus, and returnDiaryJobToPending for a run that was drained.
StatusWritten(j) ==
    /\ \/ /\ at[j] = "skipping" /\ Becomes(j, "skipped")
       \/ /\ at[j] = "excluding" /\ Becomes(j, "excluded")
       \/ /\ at[j] = "finishing" /\ Becomes(j, "done")
       \/ /\ at[j] \in {"failing", "spent"} /\ Becomes(j, "failed")
       \/ /\ at[j] = "returning" /\ Becomes(j, "pending")
       \/ /\ at[j] = "ending" \/ (at[j] = "escaped" /\ status[j] = "processing")
          /\ Becomes(j, IF Retriable(j) THEN "pending" ELSE "failed")
       \/ /\ at[j] = "escaped" /\ status[j] # "processing"
          /\ UNCHANGED status
    /\ attempts' = [attempts EXCEPT ![j] = IF at[j] = "returning" THEN @ - 1 ELSE @]
    /\ GoesTo(j, "idle")
    /\ UNCHANGED <<unwritten, blank, fileVars, processVars, boundVars, rejects, redos>>

\* Mutant: a rejection that escapes runJob ends in the log of the pool.
WriteRejects_Swallowed(j) ==
    /\ rejects < MaxRejects
    /\ rejects' = rejects + 1
    /\ at[j] \in Escaping \cup Guarded
    /\ GoesTo(j, "idle")
    /\ unwritten' = IF at[j] \in Guarded THEN unwritten \cup {j} ELSE unwritten
    /\ UNCHANGED <<status, attempts, blank, fileVars, processVars, boundVars, redos>>

\* A rejection escapes to terminalizeEscapedRejection, whose own is only logged, as is
\* the one of the failure path.
WriteRejects(j) ==
    /\ rejects < MaxRejects
    /\ rejects' = rejects + 1
    /\ \/ at[j] \in Escaping /\ GoesTo(j, "escaped") /\ UNCHANGED unwritten
       \/ at[j] \in Guarded /\ GoesTo(j, "idle") /\ unwritten' = unwritten \cup {j}
    /\ UNCHANGED <<status, attempts, blank, fileVars, processVars, boundVars, redos>>

(***************************************************************************)
(* The day's file.  An operation of the FIFO is several calls of the file  *)
(* system; the next one starts when it has settled.                        *)
(***************************************************************************)
\* Mutant: the operations are not queued.
MayRun_Any(w) == TRUE

MayRun(w) == tail # <<>> /\ Head(tail) = w

\* Both editors between their read and the end of their write.
Mid(w) == op[w] \in {"replace", "fill"}
Overlaps(w) == IF w = "direct" THEN Mid("editor") ELSE Mid("direct")

\* The operation settles: the one at the head, or a direct edit.
Settles(w) == Proceeds(w, "none") /\ tail' = IF w = "direct" THEN tail ELSE Tail(tail)

\* The file is there.  The editor's second operation goes to the end of the FIFO.
Ensured(w) ==
    IF w = "editor" THEN Proceeds(w, "read") /\ tail' = Append(Tail(tail), w)
    ELSE Proceeds(w, "append") /\ UNCHANGED tail

\* ensureDailyFile: stat, and writeFile of the header.
Ensure(w) ==
    /\ MayRun(w)
    /\ \/ /\ op[w] = "stat" /\ exists
          /\ Ensured(w)
          /\ UNCHANGED <<exists, file>>
       \/ /\ op[w] = "stat" /\ ~exists
          /\ Proceeds(w, "create")
          /\ UNCHANGED <<exists, file, tail>>
       \/ /\ op[w] = "create"
          /\ exists' = TRUE /\ file' = Nothing
          /\ Ensured(w)
    /\ bypassed' = (bypassed \/ Overlaps(w))
    /\ UNCHANGED <<snap, written, torn, jobVars, blank, processVars, boundVars, rejects, redos>>

\* appendEntry: the worker goes on.
AppendFile(j) ==
    /\ MayRun(j) /\ op[j] = "append"
    /\ file' = [file EXCEPT ![j] = @ + 1]
    /\ written' = [written EXCEPT ![j] = @ + 1]
    /\ Settles(j)
    /\ at' = IF at[j] = "appending" THEN [at EXCEPT ![j] = "finishing"] ELSE at
    /\ bypassed' = (bypassed \/ Overlaps(j))
    /\ UNCHANGED <<exists, snap, torn, status, attempts, unwritten, blank, processVars,
                   boundVars, rejects, redos>>

\* write_memory
WriteMemory ==
    /\ phase # "down" /\ op["editor"] = "none" /\ written["editor"] < MaxEdits
    /\ Proceeds("editor", "stat")
    /\ tail' = Append(tail, "editor")
    /\ UNCHANGED <<exists, file, snap, written, torn, bypassed, jobVars, blank, processVars,
                   boundVars, rejects, redos>>

\* runTextEditorCommand reads the file: from the FIFO, or at any time.
ReadFile(w) ==
    /\ \/ w = "editor" /\ MayRun(w) /\ op[w] = "read"
       \/ w = "direct" /\ phase # "down" /\ exists /\ op[w] = "none" /\ written[w] < MaxDirect
    /\ snap' = [snap EXCEPT ![w] = file]
    /\ Proceeds(w, "replace")
    /\ bypassed' = (bypassed \/ Overlaps(w))
    /\ UNCHANGED <<exists, file, tail, written, torn, jobVars, blank, processVars, boundVars,
                   rejects, redos>>

\* writeFile truncates the file, then writes what was read and the edit.
WriteFile(w) ==
    /\ \/ /\ op[w] = "replace"
          /\ file' = Nothing
          /\ Proceeds(w, "fill")
          /\ UNCHANGED <<tail, snap, written>>
       \/ /\ op[w] = "fill"
          /\ file' = [snap[w] EXCEPT ![w] = @ + 1]
          /\ snap' = [snap EXCEPT ![w] = Nothing]
          /\ written' = [written EXCEPT ![w] = @ + 1]
          /\ Settles(w)
    /\ bypassed' = (bypassed \/ Overlaps(w))
    /\ UNCHANGED <<exists, torn, jobVars, blank, processVars, boundVars, rejects, redos>>

\* A call of the file system fails: its operation is over, the FIFO goes on.
FileRejects(w) ==
    /\ rejects < MaxRejects
    /\ MayRun(w) \/ w = "direct"
    /\ op[w] # "none"
    /\ rejects' = rejects + 1
    /\ Settles(w)
    /\ torn' = (torn \/ op[w] = "fill")
    /\ snap' = [snap EXCEPT ![w] = Nothing]
    /\ at' = IF w \in Jobs /\ at[w] = "appending" THEN [at EXCEPT ![w] = "escaped"] ELSE at
    /\ UNCHANGED <<exists, file, written, bypassed, status, attempts, unwritten, blank,
                   processVars, boundVars, redos>>

(***************************************************************************)
(* The process, and the operator.                                          *)
(***************************************************************************)
\* retryPipelineItem
RetryByHand(j) ==
    /\ phase # "down" /\ status[j] \in {"failed", "skipped"}
    /\ byHand < MaxRetriedByHand
    /\ byHand' = byHand + 1
    /\ Becomes(j, "pending")
    /\ attempts' = [attempts EXCEPT ![j] = 0]
    /\ UNCHANGED <<at, unwritten, blank, fileVars, processVars, crashes, restarts, rejects, redos>>

\* stop() aborts the runs of the agents it knows.
Stop ==
    /\ Running
    /\ phase' = "stopping"
    /\ swept' = {j \in Jobs : at[j] = "running"}
    /\ UNCHANGED <<jobVars, blank, fileVars, boundVars, rejects, redos>>

\* The process ends: with its work done, or in the middle of it.
Exit ==
    /\ phase # "down" /\ restarts < MaxRestarts
    /\ phase' = "down"
    /\ crashes' = IF Busy = {} THEN crashes ELSE crashes + 1
    /\ at' = [j \in Jobs |-> "idle"]
    /\ swept' = {}
    /\ torn' = (torn \/ \E w \in Writers : op[w] = "fill")
    /\ op' = [w \in Writers |-> "none"]
    /\ tail' = <<>> /\ snap' = [w \in Writers |-> Nothing]
    /\ UNCHANGED <<status, attempts, unwritten, blank, exists, file, written, bypassed,
                   restarts, byHand, rejects, redos>>

\* start: resetStaleDiary, attempts left as they are
Start ==
    /\ phase = "down"
    /\ phase' = "running"
    /\ restarts' = restarts + 1
    /\ status' = [j \in Jobs |-> IF status[j] = "processing" THEN "pending" ELSE status[j]]
    /\ unwritten' = {}
    /\ UNCHANGED <<attempts, at, blank, fileVars, swept, crashes, byHand, rejects, redos>>

-----------------------------------------------------------------------------

Init ==
    /\ status = [j \in Jobs |-> "pending"] /\ attempts = [j \in Jobs |-> 0]
    /\ at = [j \in Jobs |-> "idle"]
    /\ swept = {} /\ phase = "running"
    /\ exists = FALSE /\ file = Nothing
    /\ op = [w \in Writers |-> "none"] /\ tail = <<>>
    /\ snap = [w \in Writers |-> Nothing]
    /\ written = Nothing /\ blank = {} /\ unwritten = {}
    /\ torn = FALSE /\ bypassed = FALSE
    /\ rejects = 0 /\ crashes = 0 /\ restarts = 0 /\ byHand = 0 /\ redos = 0

\* What a worker does next with the job it holds, and the writers with the file.
Work(j) == Resolve(j) \/ RunEnds(j) \/ SessionWritten(j) \/ StatusWritten(j)
FileStep(w) == Ensure(w) \/ (w \in Jobs /\ AppendFile(w)) \/ (w = "editor" /\ ReadFile(w)) \/ WriteFile(w)
GoesOn == (\E j \in Jobs : Work(j)) \/ \E w \in Writers : FileStep(w)
SomeClaim == \E j \in Jobs : Claim(j)

Next ==
    \/ GoesOn \/ SomeClaim
    \/ \E j \in Jobs : RunJudged(j) \/ WriteRejects(j) \/ RetryByHand(j)
    \/ \E w \in Writers : FileRejects(w)
    \/ WriteMemory \/ ReadFile("direct")
    \/ Stop \/ Exit \/ Start

\* The pool polls, and a run ends: an agent's turns are capped, its requests are aborted
\* by a drain.  Calls of the file system settle.
Fairness == WF_vars(GoesOn) /\ WF_vars(SomeClaim)

Spec == Init /\ [][Next]_vars /\ Fairness

(***************************************************************************)
(* Properties.                                                             *)
(***************************************************************************)
TypeOK ==
    /\ status \in [Jobs -> {"pending", "processing"} \cup Ended]
    /\ attempts \in [Jobs -> Nat] /\ at \in [Jobs -> Stages]
    /\ swept \in SUBSET Jobs /\ phase \in {"running", "stopping", "down"}
    /\ exists \in BOOLEAN /\ file \in [Writers -> Nat]
    /\ op \in [Writers -> {"none", "stat", "create", "append", "read", "replace", "fill"}]
    /\ tail \in Seq(Writers) /\ snap \in [Writers -> [Writers -> Nat]]
    /\ written \in [Writers -> Nat]
    /\ blank \in SUBSET Jobs /\ unwritten \in SUBSET Jobs
    /\ torn \in BOOLEAN /\ bypassed \in BOOLEAN
    /\ rejects \in 0..MaxRejects /\ redos \in 0..MaxRedos
    /\ crashes \in 0..MaxRestarts /\ restarts \in 0..MaxRestarts
    /\ byHand \in 0..MaxRetriedByHand

\* No text is lost from the day's file, whoever writes it at the same time, unless an edit
\* was cut off in the middle of its write, or one that goes around the FIFO overlapped.
TextsKept ==
    torn \/ bypassed \/ (\E w \in Writers : op[w] = "fill") \/ file = written

\* A job is done once its entry was written, or its run had nothing to record: a crash
\* between the two writes comes before done.
DoneIsWritten == \A j \in Jobs : status[j] = "done" => written[j] > 0 \/ j \in blank

\* Only a crash, a rejected write or the operator has an entry written twice.
EntriesOnce == \A j \in Jobs : written[j] <= 1 + crashes + rejects + byHand

\* A job that reads processing in a running process has a worker, or the write that was
\* to settle it was rejected.
NotStranded ==
    \A j \in Jobs : Running /\ status[j] = "processing" /\ at[j] = "idle" => j \in unwritten

\* A job is run max_retries times after the first, plus once for each crash and each
\* rejected write: a drain costs it nothing.
AttemptsBounded ==
    \A j \in Jobs : attempts[j] <= MaxRetries + 1 + crashes + rejects

\* (Again and again.)  Every job has come to its end while the pool runs, unless a write
\* that was to settle it was rejected.
JobsEnded == Running /\ unwritten = {} => \A j \in Jobs : status[j] \in Ended
=============================================================================
