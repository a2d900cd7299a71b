---------------------------- MODULE GapBackfetch ----------------------------
(***************************************************************************)
(* Startup gap backfetch (src/backfill/coordinator.ts, its paging          *)
(* engine src/backfill/paginate.ts, and the intake that feeds it in        *)
(* src/app.ts): the messages a room received while the bot was down        *)
(* are fetched backwards into a buffer and committed oldest first, while   *)
(* live messages wait in a second buffer.  Only the timeline table         *)
(* survives a crash; everything else is rebuilt from it.                   *)
(*                                                                         *)
(* A message is its position in its room: message n was posted n-th, at    *)
(* time Stamp[n].  Edits, thread keys and enrichment states are left out.  *)
(***************************************************************************)
EXTENDS Integers, Sequences, FiniteSets, SequencesExt, FiniteSetsExt

CONSTANTS
    Units,          \* descent units (rooms, or threads paged on their own)
    MaxMessages,    \* bound: messages ever posted to one unit
    Stamp,          \* the origin timestamp of each message
    PageSize,       \* gap_backfetch_page_size
    Concurrency,    \* gap_backfetch_concurrency
    Events          \* what the environment may do in this instance

ASSUME GapAssumption ==
    /\ IsFiniteSet(Units)
    /\ MaxMessages \in Nat
    /\ Stamp \in [1..MaxMessages -> Nat]
    /\ \A m, n \in 1..MaxMessages : m <= n => Stamp[m] <= Stamp[n]
    /\ PageSize \in Nat \ {0}
    /\ Concurrency \in Nat \ {0}
    /\ Events \subseteq {"crash", "drain", "erase", "cap", "unrecorded_cap",
                         "release", "read_error", "write_error", "send", "lapse"}

Messages == 1..MaxMessages

VARIABLES
    \* the server's side of each unit
    posted,     \* messages 1..posted exist
    erased,     \* messages deleted at their source
    own,        \* messages the bot itself sent
    \* the timeline table
    stored,
    deleted,    \* stored messages that carry a deletion marker
    \* the process
    proc,       \* "down", "prepared" (frozen, providers not started), "up", "draining"
    since,      \* posted when the providers started: later messages arrive live
    delivered,  \* live messages up to this one were handed to handleInbound
    phase,
    floor,      \* the committed high-water at prepare(), 0 for none
    cursor,     \* the oldest message paged so far, 0 before the first page
    buf,        \* backfillBuf
    todo,       \* buffered messages the commit has yet to append
    live,       \* liveBuf
    hole,       \* an acknowledged loss: cappedHole, or the gap of a released unit
    intake,     \* inbound messages on their way through the write queue
    marked,     \* buffered messages marked deleted in place
    parked,     \* PendingDeletions
    \* history variables
    handled,    \* live messages evaluated for a trigger by this process
    retracted,  \* deletions this process has observed
    lapsed,     \* those of them that expired or were evicted while they were parked
    waived      \* acknowledged losses that have become permanent

server == <<posted, erased, own>>
table == <<stored, deleted, waived>>
descent == <<floor, cursor, buf, todo, hole>>
deletions == <<marked, parked, retracted, lapsed>>
connection == <<since, delivered>>

vars == <<server, table, proc, connection, phase, descent, live, intake,
          deletions, handled>>

(***************************************************************************)
(* Helpers.                                                                *)
(***************************************************************************)
\* Mutant: the freeze covers the descent only, not the commit.
IsFrozen_NotWhileCommitting(u) == phase[u] \in {"frozen", "filling"}

\* Mutant: a unit freezes only once its descent has started.
IsFrozen_OnceFilling(u) == phase[u] \in {"filling", "committing", "held"}

\* isFrozen: a unit whose commit bailed while draining stays in "committing"; it is
\* called "held" here.
IsFrozen(u) == phase[u] \in {"frozen", "filling", "committing", "held"}

\* Units that occupy a worker of run().
Running(u) == phase[u] \in {"filling", "committing"}

\* getHighWaterMark: a stored message of the newest timestamp.  Among several of
\* one timestamp received_at and the id decide, in no relation to the posting order.
HighWater(u) ==
    IF stored[u] = {} THEN {0}
    ELSE {m \in stored[u] : \A n \in stored[u] : Stamp[n] <= Stamp[m]}

\* onMessage's floor stop, by timestamp or by identity.
AtFloor(u, m) == floor[u] # 0 /\ (Stamp[m] < Stamp[floor[u]] \/ m = floor[u])

\* Mutant: the continuation token is not passed on.
Page_Repeats(u) == {m \in Messages : m <= posted[u] /\ m > posted[u] - PageSize}

\* One page of backward history below the cursor.
Page(u) ==
    LET top == IF cursor[u] = 0 THEN posted[u] ELSE cursor[u] - 1
    IN  {m \in Messages : m <= top /\ m > top - PageSize}

\* The messages of a page that the descent buffers: those newer than its floor stop.
AboveFloor(u, page) ==
    {m \in page : \A n \in page : AtFloor(u, n) => n < m}

\* Mutant: the buffer is committed newest first.
NextToCommit_NewestFirst(u) ==
    {m \in todo[u] : \A n \in todo[u] : Stamp[n] <= Stamp[m]}

\* compareAscending: oldest first; within one timestamp received_at and the id decide.
NextToCommit(u) ==
    {m \in todo[u] : \A n \in todo[u] : Stamp[m] <= Stamp[n]}

\* The messages markBufferedDeleted finds.
Buffered(u) == IF IsFrozen(u) THEN ToSet(live[u]) \cup buf[u] ELSE {}

\* Mutant: the mark on the buffered copy is lost on the way to the table.
Retractions_ParkedOnly(u) == parked[u]

\* Deletions seen before their message was stored: marked on the buffered copy or (still)
\* parked.
Retractions(u) == marked[u] \cup parked[u]

\* Inserting m (appendIfMissing): a deletion marked on the buffered copy or parked
\* lands with it; an acknowledged loss below it becomes permanent.
Insert(u, m) ==
    /\ stored' = [stored EXCEPT ![u] = @ \cup {m}]
    /\ deleted' = [deleted EXCEPT ![u] =
                     IF m \in Retractions(u) \ stored[u] THEN @ \cup {m} ELSE @]
    /\ parked' = [parked EXCEPT ![u] = IF m \in stored[u] THEN @ ELSE @ \ {m}]
    /\ waived' = [waived EXCEPT ![u] = @ \cup {h \in hole[u] : h < m}]

(***************************************************************************)
(* The server.                                                             *)
(***************************************************************************)
Post(u) ==
    /\ posted[u] < MaxMessages
    /\ posted' = [posted EXCEPT ![u] = @ + 1]
    /\ UNCHANGED <<erased, own, table, proc, connection, phase, descent, live, intake,
                   deletions, handled>>

\* A message is deleted while the bot is down.
EraseUnseen(u, m) ==
    /\ "erase" \in Events
    /\ proc = "down"
    /\ m \in 1..posted[u] \ erased[u]
    /\ erased' = [erased EXCEPT ![u] = @ \cup {m}]
    /\ UNCHANGED <<posted, own, table, proc, connection, phase, descent, live, intake,
                   deletions, handled>>

\* A message is deleted and the deletion arrives live: the stored message is
\* marked, else its buffered copy, else the deletion is parked.  Its lookup runs
\* inside the write queue, so it is one step.
Erase(u, m) ==
    /\ "erase" \in Events
    /\ proc = "up"
    /\ m \in 1..posted[u] \ erased[u]
    /\ m > since[u] => m <= delivered[u]
    /\ erased' = [erased EXCEPT ![u] = @ \cup {m}]
    /\ retracted' = [retracted EXCEPT ![u] = @ \cup {m}]
    /\ deleted' = [deleted EXCEPT ![u] = IF m \in stored[u] THEN @ \cup {m} ELSE @]
    /\ marked' = [marked EXCEPT ![u] =
                    IF m \notin stored[u] /\ m \in Buffered(u) THEN @ \cup {m} ELSE @]
    /\ parked' = [parked EXCEPT ![u] =
                    IF m \notin stored[u] /\ m \notin Buffered(u) THEN @ \cup {m} ELSE @]
    /\ UNCHANGED <<posted, own, stored, waived, proc, connection, phase, descent, live,
                   intake, lapsed, handled>>

\* PendingDeletions is bounded: a parked deletion expires after ttlMs, and the oldest goes
\* when more than maxEntries are parked, for whatever rooms and targets.  Neither clock
\* nor count is kept here: it may happen at any time.
Lapse(u, m) ==
    /\ "lapse" \in Events
    /\ proc \in {"up", "draining"}
    /\ m \in parked[u]
    /\ parked' = [parked EXCEPT ![u] = @ \ {m}]
    /\ lapsed' = [lapsed EXCEPT ![u] = @ \cup {m}]
    /\ UNCHANGED <<server, table, proc, connection, phase, descent, live, intake, marked,
                   retracted, handled>>

\* A session of another room sends here (tools/cross-channel.ts): the message is
\* appended at once, frozen or not.
Send(u) ==
    /\ "send" \in Events
    /\ proc = "up"
    /\ posted[u] < MaxMessages
    /\ posted' = [posted EXCEPT ![u] = @ + 1]
    /\ own' = [own EXCEPT ![u] = @ \cup {posted[u] + 1}]
    /\ Insert(u, posted[u] + 1)
    /\ UNCHANGED <<erased, proc, connection, phase, descent, live, intake, marked,
                   retracted, lapsed, handled>>

(***************************************************************************)
(* Intake.                                                                 *)
(***************************************************************************)
\* handleInbound up to its first await: the bot's own echo folds into the row of
\* the send, a frozen unit buffers, any other message queues for its append.
Deliver(u) ==
    /\ proc = "up"
    /\ delivered[u] < posted[u]
    /\ LET m == delivered[u] + 1
       IN  /\ delivered' = [delivered EXCEPT ![u] = m]
           /\ live' = [live EXCEPT ![u] =
                         IF m \notin own[u] /\ IsFrozen(u) THEN Append(@, m) ELSE @]
           /\ intake' = [intake EXCEPT ![u] =
                         IF m \notin own[u] /\ ~IsFrozen(u) THEN Append(@, m) ELSE @]
    /\ UNCHANGED <<server, table, proc, since, phase, descent, deletions, handled>>

\* ... and after it: the message is stored, then evaluated for a trigger.
Write(u) ==
    /\ proc \in {"up", "draining"}
    /\ intake[u] # <<>>
    /\ Insert(u, Head(intake[u]))
    /\ handled' = [handled EXCEPT ![u] = @ \cup {Head(intake[u])}]
    /\ intake' = [intake EXCEPT ![u] = Tail(@)]
    /\ UNCHANGED <<server, proc, connection, phase, descent, live, marked, retracted,
                   lapsed>>

(***************************************************************************)
(* The coordinator.                                                        *)
(***************************************************************************)
\* prepare(): before the providers start, every unit is frozen at its high-water.
Prepare ==
    /\ proc = "down"
    /\ proc' = "prepared"
    /\ phase' = [u \in Units |-> "frozen"]
    /\ floor' \in {f \in [Units -> 0..MaxMessages] : \A u \in Units : f[u] \in HighWater(u)}
    /\ UNCHANGED <<server, table, connection, cursor, buf, todo, hole, live, intake,
                   deletions, handled>>

StartProviders ==
    /\ proc = "prepared"
    /\ proc' = "up"
    /\ since' = posted
    /\ delivered' = posted
    /\ UNCHANGED <<server, table, phase, descent, live, intake, deletions, handled>>

\* run(): a free worker takes the next frozen unit.
Launch(u) ==
    /\ proc = "up"
    /\ phase[u] = "frozen"
    /\ Cardinality({v \in Units : Running(v)}) < Concurrency
    /\ phase' = [phase EXCEPT ![u] = "filling"]
    /\ UNCHANGED <<server, table, proc, connection, descent, live, intake, deletions,
                   handled>>

\* Mutant: the live buffer is dropped.
Replayed_Dropped(u) == intake[u]

\* The live buffer re-enters handleInbound, in arrival order; a draining process
\* drops it there.
Replayed(u) == IF proc = "draining" THEN intake[u] ELSE intake[u] \o live[u]

\* release(): no self id, no read client or no readable history.  The unit is
\* unfrozen unfilled, its gap given up.
Release(u) ==
    /\ "release" \in Events
    /\ proc \in {"up", "draining"}
    /\ phase[u] \in {"frozen", "filling"}
    /\ phase' = [phase EXCEPT ![u] = "done"]
    /\ hole' = [hole EXCEPT ![u] = 1..since[u] \ stored[u]]
    /\ intake' = [intake EXCEPT ![u] = Replayed(u)]
    /\ live' = [live EXCEPT ![u] = <<>>]
    /\ buf' = [buf EXCEPT ![u] = {}]
    /\ UNCHANGED <<server, table, proc, connection, floor, cursor, todo, deletions, handled>>

\* The descent is over and commit() starts, unless the process is draining.
Filled(u, buffered, missing) ==
    /\ buf' = [buf EXCEPT ![u] = buffered]
    /\ IF proc = "draining"
       THEN /\ phase' = [phase EXCEPT ![u] = "held"]
            /\ UNCHANGED <<todo, hole>>
       ELSE /\ phase' = [phase EXCEPT ![u] = "committing"]
            /\ todo' = [todo EXCEPT ![u] = buffered]
            /\ hole' = [hole EXCEPT ![u] = missing]

\* One page is read and classified.  A response under way may still show a message
\* that has just been erased.
ReadPage(u, hidden) ==
    /\ proc \in {"up", "draining"}
    /\ phase[u] = "filling"
    /\ hidden \subseteq Page(u) \cap erased[u]
    /\ LET taken == AboveFloor(u, Page(u))
           buffered == buf[u] \cup (taken \ hidden)
       IN  IF taken # Page(u) \/ Page(u) = {} \/ 1 \in Page(u)
           THEN Filled(u, buffered, {})
           ELSE /\ buf' = [buf EXCEPT ![u] = buffered]
                /\ UNCHANGED <<phase, todo, hole>>
    /\ cursor' = [cursor EXCEPT ![u] = IF Page(u) = {} THEN @ ELSE Min(Page(u))]
    /\ UNCHANGED <<server, table, proc, connection, floor, live, intake, deletions, handled>>

\* A cap (count, window, timeout or undecryptable run) ends the descent after the
\* newest messages of a page, or before any.  The hole is put on record only above
\* a known floor and below something fetched.
GiveUp(u, some) ==
    /\ proc \in {"up", "draining"}
    /\ phase[u] = "filling"
    /\ \A m \in some, n \in Page(u) : n > m => n \in some
    /\ LET buffered == buf[u] \cup (some \ erased[u])
           recorded == floor[u] # 0 /\ buffered # {}
       IN  /\ IF recorded THEN "cap" \in Events ELSE "unrecorded_cap" \in Events
           /\ Filled(u, buffered,
                     IF recorded THEN {m \in Messages : m > floor[u] /\ m < Min(buffered)}
                                 ELSE {})
    /\ UNCHANGED <<server, table, proc, connection, floor, cursor, live, intake, deletions,
                   handled>>

\* A transient read error, or a failing write: nothing more is committed or replayed.
Fail(u) ==
    /\ proc \in {"up", "draining"}
    /\ \/ "read_error" \in Events /\ phase[u] = "filling"
       \/ "write_error" \in Events /\ phase[u] = "committing"
    /\ phase' = [phase EXCEPT ![u] = "failed"]
    /\ UNCHANGED <<server, table, proc, connection, descent, live, intake, deletions,
                   handled>>

\* commit(): one awaited append per buffered message.
AppendNext(u) ==
    /\ proc \in {"up", "draining"}
    /\ phase[u] = "committing"
    /\ \E m \in NextToCommit(u) :
        /\ Insert(u, m)
        /\ todo' = [todo EXCEPT ![u] = @ \ {m}]
    /\ UNCHANGED <<server, proc, connection, phase, floor, cursor, buf, hole, live, intake,
                   marked, retracted, lapsed, handled>>

\* Mutant: the backfill buffer is kept.
Unfreeze_KeepsBuffer(u) ==
    /\ proc \in {"up", "draining"}
    /\ phase[u] = "committing"
    /\ todo[u] = {}
    /\ phase' = [phase EXCEPT ![u] = "done"]
    /\ intake' = [intake EXCEPT ![u] = Replayed(u)]
    /\ live' = [live EXCEPT ![u] = <<>>]
    /\ UNCHANGED <<server, table, proc, connection, descent, deletions, handled>>

\* The gap is committed: unfreeze and replay, in one synchronous step.
Unfreeze(u) ==
    /\ proc \in {"up", "draining"}
    /\ phase[u] = "committing"
    /\ todo[u] = {}
    /\ phase' = [phase EXCEPT ![u] = "done"]
    /\ intake' = [intake EXCEPT ![u] = Replayed(u)]
    /\ live' = [live EXCEPT ![u] = <<>>]
    /\ buf' = [buf EXCEPT ![u] = {}]
    /\ UNCHANGED <<server, table, proc, connection, floor, cursor, todo, hole, deletions,
                   handled>>

(***************************************************************************)
(* Shutdown and crash.                                                     *)
(***************************************************************************)
Drain ==
    /\ "drain" \in Events
    /\ proc = "up"
    /\ proc' = "draining"
    /\ UNCHANGED <<server, table, connection, phase, descent, live, intake, deletions,
                   handled>>

Idle == [u \in Units |-> "idle"]
Zero == [u \in Units |-> 0]
Empty == [u \in Units |-> {}]
NoneQueued == [u \in Units |-> <<>>]

\* The process ends, at any point: only the table is left.
Exit ==
    /\ \/ "crash" \in Events /\ proc \in {"prepared", "up"}
       \/ proc = "draining"
    /\ proc' = "down"
    /\ phase' = Idle /\ since' = Zero /\ delivered' = Zero /\ floor' = Zero /\ cursor' = Zero
    /\ buf' = Empty /\ todo' = Empty /\ hole' = Empty /\ marked' = Empty /\ parked' = Empty
    /\ handled' = Empty /\ retracted' = Empty /\ lapsed' = Empty
    /\ live' = NoneQueued /\ intake' = NoneQueued
    /\ UNCHANGED <<server, table>>

-----------------------------------------------------------------------------
\* A stored history without holes; the bot may have been down since.
Init ==
    /\ posted \in [Units -> 0..MaxMessages]
    /\ stored \in [Units -> {1..n : n \in 0..MaxMessages}]
    /\ \A u \in Units : stored[u] \subseteq 1..posted[u]
    /\ erased = Empty /\ own = Empty /\ deleted = Empty /\ waived = Empty
    /\ proc = "down"
    /\ phase = Idle /\ since = Zero /\ delivered = Zero /\ floor = Zero /\ cursor = Zero
    /\ buf = Empty /\ todo = Empty /\ hole = Empty /\ marked = Empty /\ parked = Empty
    /\ handled = Empty /\ retracted = Empty /\ lapsed = Empty
    /\ live = NoneQueued /\ intake = NoneQueued

Next ==
    \/ \E u \in Units : Post(u)
    \/ \E u \in Units, m \in Messages : EraseUnseen(u, m)
    \/ \E u \in Units, m \in Messages : Erase(u, m)
    \/ \E u \in Units, m \in Messages : Lapse(u, m)
    \/ \E u \in Units : Send(u)
    \/ \E u \in Units : Deliver(u)
    \/ \E u \in Units : Write(u)
    \/ Prepare
    \/ StartProviders
    \/ \E u \in Units : Launch(u)
    \/ \E u \in Units : Release(u)
    \/ \E u \in Units : \E hidden \in SUBSET (Page(u) \cap erased[u]) : ReadPage(u, hidden)
    \/ \E u \in Units : \E some \in SUBSET AboveFloor(u, Page(u)) : GiveUp(u, some)
    \/ \E u \in Units : Fail(u)
    \/ \E u \in Units : AppendNext(u)
    \/ \E u \in Units : Unfreeze(u)
    \/ Drain
    \/ Exit

Spec == Init /\ [][Next]_vars

\* The event loop turns: a delivered message is written, a free worker takes a unit,
\* a read is answered (or fails) and a write completes.
Fairness ==
    \A u \in Units :
        /\ WF_vars(Write(u))
        /\ WF_vars(Launch(u))
        /\ WF_vars(\E hidden \in SUBSET (Page(u) \cap erased[u]) : ReadPage(u, hidden))
        /\ WF_vars(AppendNext(u))
        /\ WF_vars(Unfreeze(u))

-----------------------------------------------------------------------------
(***************************************************************************)
(* Properties.                                                             *)
(***************************************************************************)
\* The type invariant, with the shape of the buffers: the commit works on what is
\* buffered, and a buffer outlives its unit's freeze only after a failure.
TypeOK ==
    /\ proc \in {"down", "prepared", "up", "draining"}
    /\ \A u \in Units :
        /\ posted[u] \in 0..MaxMessages /\ erased[u] \subseteq 1..posted[u]
        /\ stored[u] \subseteq 1..posted[u] /\ deleted[u] \subseteq stored[u]
        /\ phase[u] \in {"idle", "frozen", "filling", "committing", "held", "done", "failed"}
        /\ since[u] <= delivered[u] /\ delivered[u] <= posted[u]
        /\ todo[u] \subseteq buf[u] /\ buf[u] \subseteq 1..posted[u]
        /\ phase[u] \in {"idle", "done"} => buf[u] = {} /\ live[u] = <<>>

Excused(u) == erased[u] \cup waived[u]

\* No gap is ever buried: below any stored message, every message that was posted
\* is stored too, is deleted at its source, or is a loss the bot has put on record
\* (a cap, a released unit).  A hole below the high-water would never be fetched
\* again, and summaries would pass over it.
NoBuriedGap ==
    \A u \in Units : \A m \in stored[u] : 1..(m - 1) \subseteq stored[u] \cup Excused(u)

History(u) == INSTANCE RoomHistory
    WITH posted <- posted[u], kept <- stored[u], excused <- Excused(u)

\* The coordinator implements the promise of the timeline store: across crashes,
\* shutdowns and replays each room's history is only ever extended at its end.
HistoryExtends ==
    /\ \A u \in Units : History(u)!Init
    /\ [][\A u \in Units : [History(u)!Next]_<<posted[u], stored[u], Excused(u)>>]_vars

\* "The committed high-water mark of a room never advances until that room's gap
\* is fully closed" (ARCHITECTURE.md section 7c): no step stores anything in a unit whose
\* descent is still to run.
HighWaterFrozen ==
    \A u \in Units : phase[u] \in {"frozen", "filling", "held"} => stored'[u] = stored[u]

\* A deletion is never lost between the table, the buffers and the parking place:
\* whatever this process saw deleted is marked once it is stored, unless it was parked and
\* its entry expired or was evicted first.  What the table or a buffer held when its
\* deletion came is marked there, and no descent, however long, loses that.
DeletionSticks ==
    \A u \in Units :
        /\ stored[u] \cap retracted[u] \subseteq deleted[u] \cup lapsed[u]
        /\ lapsed[u] \cap (deleted[u] \cup marked[u]) = {}

\* Live messages are handled in arrival order, those buffered during the freeze
\* before those that came after it: when one is handled, every earlier one of this
\* process has been, unless its unit failed.
HandledInOrder ==
    \A u \in Units : phase[u] # "failed" =>
        \A m \in handled'[u] \ handled[u] : (since[u] + 1)..(m - 1) \subseteq handled[u] \cup own[u]

\* (Again and again.)  While the process runs, each unit leaves its freeze, whatever the
\* other units' descents do, and every live message, buffered meanwhile or not, has been
\* evaluated for a trigger ("live @s that arrived during the freeze are replied to").
UnitsSettled ==
    proc = "up" => \A u \in Units :
        phase[u] # "failed" =>
            /\ phase[u] = "done"
            /\ (since[u] + 1)..delivered[u] \subseteq handled[u] \cup own[u]
=============================================================================
