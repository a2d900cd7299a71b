---------------------------- MODULE BackfetchJob ----------------------------
(***************************************************************************)
(* The jobs of the deep message backfetch in one room                      *)
(* (src/backfill/message-backfetch.ts and its statements in                *)
(* src/storage/database.ts): operators start, pause, resume and cancel     *)
(* them, the process drains, dies and starts again.                        *)
(*                                                                         *)
(* The room's history is the sequence of positions 1..Len(Stamp), newest   *)
(* first, of which the first Held are stored; Stamp holds their            *)
(* timestamps, which need not fall with the position.  A page is the next  *)
(* PageSize positions below a cursor.  The dated and the decryptable       *)
(* targets, threads, edits, undecryptable events and captions are left     *)
(* out.                                                                    *)
(***************************************************************************)
EXTENDS Naturals, Sequences, FiniteSets, FiniteSetsExt

CONSTANTS
    Jobs,           \* numbered in the order of their creation
    Stamp,          \* the timestamps of the history, newest position first
    Held,           \* how many of its positions are stored
    PageSize,
    Targets,        \* what a job may be asked for: a number of rows, 0 for all
    SafetyCap,      \* rows a run of an unbounded job may store, 0 for no cap
    MaxFaults, MaxDrains, MaxOrders    \* bounds; a fault is a crash or a rejected write

History == 1..Len(Stamp)

\* Two events never share a cursor: Stamp stands for (timestamp, received_at, id).
BackfetchJobAssumption ==
    /\ Jobs \subseteq Nat
    /\ Stamp \in Seq(Nat) /\ Held \in History
    /\ \A p, q \in History : Stamp[p] = Stamp[q] => p = q
    /\ PageSize \in Nat \ {0}
    /\ Targets \subseteq Nat /\ SafetyCap \in Nat
    /\ {MaxFaults, MaxDrains, MaxOrders} \subseteq Nat

VARIABLES
    rows,           \* the positions stored in timeline_events
    floor,          \* context_floor_event_id: a position, 0 for null
    status,         \* per job; "absent" before it is started
    target,
    cursor,         \* cursor_token: the last position of a page, 0 for null
    counted,        \* the column "stored"
    loop,           \* none, starting, reading, page, paged, ending
    at,             \* the last position looked at
    boundary,       \* the oldest position stored when the run began
    stored,         \* the run's count, on top of what it began with
    left,           \* rows the run may still store, 0 for any number
    flags,          \* pause and cancel of the run's control
    outcome,        \* the final status of a run that is ending
    up, draining, resumed, faults, drains, orders,
    own,            \* history: the rows the job has stored
    heedless,       \* history: messages looked at since the flag was raised
    forsaken        \* history: jobs whose run this process lost to a rejected write

tableVars == <<rows, floor, status, target, cursor, counted>>
runVars == <<loop, at, boundary, stored, left, flags, outcome>>
processVars == <<up, draining, resumed, faults, drains>>
historyVars == <<own, heedless, forsaken>>
vars == <<tableVars, runVars, processVars, orders, historyVars>>

Active == {"queued", "running", "paused"}

-----------------------------------------------------------------------------
(***************************************************************************)
(* A run.                                                                  *)
(***************************************************************************)

\* Mutant: a resumed job is given the whole count again.
Allowance_Whole(j) == IF target[j] > 0 THEN target[j] ELSE SafetyCap

\* maxMessages: what is left of a count, or the cap of an unbounded job
Allowance(j) == IF target[j] > 0 THEN target[j] - Min({target[j], counted[j]}) ELSE SafetyCap

Before(p, q) == Stamp[p] < Stamp[q]

\* getOldestEventId
Oldest == CHOOSE p \in rows : \A q \in rows : ~Before(q, p)

\* The run is over and its variables are gone, here reset.
Forgotten(jobs) ==
    LET reset(f, value) == [j \in Jobs |-> IF j \in jobs THEN value ELSE f[j]]
    IN /\ loop' = reset(loop, "none") /\ at' = reset(at, 0) /\ boundary' = reset(boundary, 1)
       /\ stored' = reset(stored, 0) /\ left' = reset(left, 0)
       /\ flags' = reset(flags, {}) /\ outcome' = reset(outcome, "completed")
       /\ heedless' = reset(heedless, 0)

Ends(j, s) ==
    /\ loop' = [loop EXCEPT ![j] = "ending"]
    /\ outcome' = [outcome EXCEPT ![j] = s]

\* runJob: no client or self user, a count already reached, or the first page.
Begin(j) ==
    /\ loop[j] = "starting"
    /\ \/ /\ status' = [status EXCEPT ![j] = "failed"]
          /\ Forgotten({j})
       \/ /\ status' = [status EXCEPT ![j] = "running"]
          /\ stored' = [stored EXCEPT ![j] = counted[j]]
          /\ left' = [left EXCEPT ![j] = Allowance(j)]
          /\ at' = [at EXCEPT ![j] = cursor[j]]
          /\ boundary' = [boundary EXCEPT ![j] = Oldest]
          /\ IF target[j] > 0 /\ Allowance(j) = 0
             THEN Ends(j, "completed")
             ELSE loop' = [loop EXCEPT ![j] = "reading"] /\ UNCHANGED outcome
          /\ UNCHANGED <<flags, heedless>>
    /\ UNCHANGED <<rows, floor, target, cursor, counted, processVars, orders, own, forsaken>>

\* readMessages: a page, the end of the history, a failed read or the deadline; after a
\* page without a token there is no further read.
Read(j) ==
    /\ loop[j] = "reading"
    /\ \/ /\ at[j] < Len(Stamp)
          /\ loop' = [loop EXCEPT ![j] = "page"] /\ UNCHANGED outcome
       \/ at[j] = Len(Stamp) /\ Ends(j, "completed")
       \/ at[j] = cursor[j] /\ (Ends(j, "failed") \/ Ends(j, "paused"))
    /\ UNCHANGED <<tableVars, at, boundary, stored, left, flags, processVars, orders, historyVars>>

PageEnd(j) == Min({cursor[j] + PageSize, Len(Stamp)})

\* Mutant: each run moves the floor to its own boundary.
Pinned_Each(j) == boundary[j]

\* ensureBoundary, setContextFloorIfUnset
Pinned(j) == IF floor = 0 THEN boundary[j] ELSE floor

\* onMessage, and what paginateBackward makes of its answer: whatever sorts at or above
\* the boundary is taken for a duplicate.
LookAt(j) ==
    LET p == at[j] + 1
        new == Before(p, boundary[j]) /\ p \notin rows
    IN /\ loop[j] = "page" /\ at[j] < PageEnd(j)
       /\ at' = [at EXCEPT ![j] = p]
       /\ floor' = Pinned(j)
       /\ IF new
          THEN /\ rows' = rows \cup {p}
               /\ stored' = [stored EXCEPT ![j] = @ + 1]
               /\ left' = [left EXCEPT ![j] = IF @ = 0 THEN 0 ELSE @ - 1]
               /\ own' = [own EXCEPT ![j] = @ \cup {p}]
          ELSE UNCHANGED <<rows, stored, left, own>>
       /\ heedless' = IF flags[j] = {} THEN heedless ELSE [heedless EXCEPT ![j] = @ + 1]
       /\ IF new /\ left[j] = 1
          THEN Ends(j, IF target[j] > 0 THEN "completed" ELSE "paused")
          ELSE UNCHANGED <<loop, outcome>>
       /\ UNCHANGED <<status, target, cursor, counted, boundary, flags, processVars, orders,
                      forsaken>>

\* Mutant: the cursor is the page's token even when the run stops inside the page.
Finish_AtToken(j) ==
    /\ loop[j] = "ending"
    /\ status' = [status EXCEPT ![j] = outcome[j]]
    /\ counted' = [counted EXCEPT ![j] = stored[j]]
    /\ cursor' = [cursor EXCEPT ![j] = PageEnd(j)]
    /\ Forgotten({j})
    /\ UNCHANGED <<rows, floor, target, processVars, orders, own, forsaken>>

\* runJob: the last write, whatever was asked since the run decided to end
Finish(j) ==
    /\ loop[j] = "ending"
    /\ status' = [status EXCEPT ![j] = outcome[j]]
    /\ counted' = [counted EXCEPT ![j] = stored[j]]
    /\ Forgotten({j})
    /\ UNCHANGED <<rows, floor, target, cursor, processVars, orders, own, forsaken>>

\* onPage: the cursor and the count; null when there is no older page
PageDone(j) ==
    /\ loop[j] = "page" /\ at[j] = PageEnd(j)
    /\ loop' = [loop EXCEPT ![j] = "paged"]
    /\ counted' = [counted EXCEPT ![j] = stored[j]]
    /\ \/ cursor' = [cursor EXCEPT ![j] = at[j]]
       \/ at[j] = Len(Stamp) /\ cursor' = [cursor EXCEPT ![j] = 0]
    /\ UNCHANGED <<rows, floor, status, target, at, boundary, stored, left, flags, outcome, processVars, orders, historyVars>>

\* Mutant: a pause is heeded between two runs only.
Told_ToCancel(j) == "cancelled" \in flags[j]

\* onPage: whether to stop
Told(j) == flags[j] # {} \/ draining

\* onPage: after its write, and while the enrichment backlog is too large
Check(j) ==
    /\ loop[j] = "paged"
    /\ IF Told(j)
       THEN Ends(j, IF "cancelled" \in flags[j] THEN "cancelled" ELSE "paused")
       ELSE loop' = [loop EXCEPT ![j] = "reading"] /\ UNCHANGED outcome
    /\ UNCHANGED <<tableVars, at, boundary, stored, left, flags, processVars, orders, historyVars>>

\* A write rejects.  Within a page, at the floor, at a message or at the cursor, the run
\* fails; its first or its last write takes the run with it, and the row stays as it was
\* until the next start or an order.
WriteRejects(j) ==
    /\ faults < MaxFaults
    /\ faults' = faults + 1
    /\ \/ /\ loop[j] \in {"starting", "ending"}
          /\ Forgotten({j})
          /\ forsaken' = forsaken \cup {j}
          /\ UNCHANGED floor
       \/ /\ loop[j] = "page"
          /\ Ends(j, "failed")
          /\ floor' \in {floor, Pinned(j)}
          /\ UNCHANGED <<at, boundary, stored, left, flags, heedless, forsaken>>
    /\ UNCHANGED <<rows, status, target, cursor, counted, up, draining, resumed, drains,
                   orders, own>>

Runs(j) == Begin(j) \/ Read(j) \/ LookAt(j) \/ PageDone(j) \/ Check(j) \/ Finish(j)

-----------------------------------------------------------------------------
(***************************************************************************)
(* Operators and the process.                                              *)
(***************************************************************************)

\* launch
Launch(jobs) ==
    /\ loop' = [j \in Jobs |-> IF j \in jobs THEN "starting" ELSE loop[j]]
    /\ forsaken' = forsaken \ jobs
    /\ UNCHANGED <<at, boundary, stored, left, flags, outcome, own, heedless>>

\* Mutant: a paused job does not count as active.
Occupied_ByRunning == \E j \in Jobs : status[j] \in Active \ {"paused"}

\* insertBackfetchJobIfNoActive: the room has a job that is not over
Occupied == \E j \in Jobs : status[j] \in Active

\* startJob: inserted and launched
Start(j) ==
    /\ up /\ status[j] = "absent" /\ ~Occupied
    /\ \A k \in Jobs : k < j => status[k] # "absent"
    /\ status' = [status EXCEPT ![j] = "queued"]
    /\ \E t \in Targets : target' = [target EXCEPT ![j] = t]
    /\ Launch({j})
    /\ UNCHANGED <<rows, floor, cursor, counted, processVars, orders>>

Ordered == up /\ orders < MaxOrders /\ orders' = orders + 1

\* A running job is flagged, another is written at once.
Order(j, s, writable) ==
    /\ Ordered
    /\ IF loop[j] # "none"
       THEN flags' = [flags EXCEPT ![j] = @ \cup {s}] /\ UNCHANGED status
       ELSE status[j] \in writable /\ status' = [status EXCEPT ![j] = s] /\ UNCHANGED flags
    /\ UNCHANGED <<rows, floor, target, cursor, counted, loop, at, boundary, stored, left,
                   outcome, processVars, historyVars>>

Pause(j) == Order(j, "paused", {"queued", "running"})
Cancel(j) == Order(j, "cancelled", Active)

\* resumeJob
Resume(j) ==
    /\ Ordered
    /\ status[j] = "paused" /\ loop[j] = "none"
    /\ \A k \in Jobs \ {j} : status[k] \notin Active
    /\ Launch({j})
    /\ UNCHANGED <<tableVars, processVars>>

\* Mutant: what was queued is not listed.
Resumable_Running == {j \in Jobs : status[j] = "running"}

\* listResumableBackfetchJobs
Resumable == {j \in Jobs : status[j] \in {"running", "queued"}}

\* resumeAll, once the gap backfetch of the start has settled
ResumeAll ==
    /\ up /\ ~resumed
    /\ resumed' = TRUE
    /\ Launch(IF draining THEN {} ELSE {j \in Resumable : loop[j] = "none"})
    /\ UNCHANGED <<tableVars, up, draining, faults, drains, orders>>

Drain ==
    /\ up /\ ~draining /\ drains < MaxDrains
    /\ draining' = TRUE /\ drains' = drains + 1
    /\ UNCHANGED <<tableVars, runVars, up, resumed, faults, orders, historyVars>>

Down == up' = FALSE /\ forsaken' = {} /\ UNCHANGED <<draining, resumed, drains>>

\* stop: drain() awaits every run
Exit ==
    /\ up /\ draining /\ \A j \in Jobs : loop[j] = "none"
    /\ Down /\ UNCHANGED <<tableVars, runVars, faults, orders, own, heedless>>

Crash ==
    /\ up /\ faults < MaxFaults
    /\ faults' = faults + 1 /\ Down
    /\ Forgotten(Jobs)
    /\ UNCHANGED <<tableVars, orders, own>>

Restart ==
    /\ ~up
    /\ up' = TRUE /\ draining' = FALSE /\ resumed' = FALSE
    /\ UNCHANGED <<tableVars, runVars, faults, drains, orders, historyVars>>

-----------------------------------------------------------------------------

Init ==
    /\ rows = 1..Held /\ floor = 0
    /\ status = [j \in Jobs |-> "absent"] /\ target = [j \in Jobs |-> 0]
    /\ cursor = [j \in Jobs |-> 0] /\ counted = [j \in Jobs |-> 0]
    /\ loop = [j \in Jobs |-> "none"]
    /\ at = [j \in Jobs |-> 0] /\ boundary = [j \in Jobs |-> 1]
    /\ stored = [j \in Jobs |-> 0] /\ left = [j \in Jobs |-> 0]
    /\ flags = [j \in Jobs |-> {}] /\ outcome = [j \in Jobs |-> "completed"]
    /\ up = TRUE /\ draining = FALSE /\ resumed = TRUE
    /\ faults = 0 /\ drains = 0 /\ orders = 0 /\ forsaken = {}
    /\ own = [j \in Jobs |-> {}] /\ heedless = [j \in Jobs |-> 0]

Next ==
    \/ \E j \in Jobs : Runs(j) \/ WriteRejects(j) \/ Start(j) \/ Pause(j) \/ Resume(j) \/ Cancel(j)
    \/ ResumeAll \/ Drain \/ Exit \/ Crash \/ Restart

\* Reads are answered or time out, the backlog of enrichment is worked off, and the gap
\* backfetch of a start settles; a stop that is begun ends.
SomeRun == \E j \in Jobs : Runs(j)
Fairness == WF_vars(SomeRun) /\ WF_vars(ResumeAll) /\ WF_vars(Exit)

Spec == Init /\ [][Next]_vars /\ Fairness

(***************************************************************************)
(* Properties.                                                             *)
(***************************************************************************)
TypeOK ==
    /\ rows \in SUBSET History /\ floor \in {0} \cup History
    /\ status \in [Jobs -> Active \cup {"absent", "completed", "failed", "cancelled"}]
    /\ target \in [Jobs -> {0} \cup Targets]
    /\ {cursor, at} \subseteq [Jobs -> {0} \cup History]
    /\ {counted, stored, left} \subseteq [Jobs -> Nat]
    /\ loop \in [Jobs -> {"none", "starting", "reading", "page", "paged", "ending"}]
    /\ boundary \in [Jobs -> History]
    /\ flags \in [Jobs -> SUBSET {"paused", "cancelled"}]
    /\ outcome \in [Jobs -> {"completed", "failed", "paused", "cancelled"}]
    /\ {up, draining, resumed} \subseteq BOOLEAN
    /\ faults \in 0..MaxFaults /\ drains \in 0..MaxDrains /\ orders \in 0..MaxOrders
    /\ own \in [Jobs -> SUBSET History] /\ heedless \in [Jobs -> Nat]
    /\ forsaken \in SUBSET Jobs

\* One job at a time works on a room, so that its cursor and its floor stay unambiguous.
OneRunPerRoom == Cardinality({j \in Jobs : loop[j] # "none"}) <= 1

Seen(p) == p \in rows \/ \E q \in rows : q < p /\ Before(q, p)

\* What lies behind a saved cursor was stored, through every pause, cap, failure and crash,
\* and so was all of the history when a job for all of it completes: except an event that
\* sorts above one stored from before it, which a run takes for one the room holds.
NothingSkipped ==
    \A j \in Jobs :
        /\ \A p \in 1..cursor[j] : Seen(p)
        /\ status[j] = "completed" /\ target[j] = 0 => \A p \in History : Seen(p)

\* A job for a number of rows stores that many over all its runs; each crash and each
\* rejected write may cost the count of a page.  The count is never more than was stored.
CountKept ==
    \A j \in Jobs :
        /\ target[j] > 0 => Cardinality(own[j]) <= target[j] + faults * PageSize
        /\ counted[j] <= Cardinality(own[j])

\* Every row a job stored sorts below the context floor, so that no context renders it.
BelowFloor == \A j \in Jobs : \A p \in own[j] : floor # 0 /\ Before(p, floor)

\* A job that is told to stop looks at no more than a page before it does.
StopsWithinAPage == \A j \in Jobs : heedless[j] <= PageSize

\* (Again and again.)  While the process is up, no job is queued or running: each comes to an
\* end or is paused, also after a restart.  Only a run whose own first or last write was
\* rejected leaves its job so, and no longer than the process lasts.
BackfetchesEnded ==
    up => \A j \in Jobs \ forsaken : status[j] \notin {"queued", "running"}
=============================================================================
