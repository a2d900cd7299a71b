----------------------------- MODULE Activation -----------------------------
(***************************************************************************)
(* The life of one timeline, from the room nobody has addressed yet to the *)
(* room the bot answers in (src/timeline/activation.ts).  An inactive      *)
(* timeline stores what it receives; its first trigger runs a prelude that *)
(* promotes it, while a guard with a buffer holds the other triggers back. *)
(* Storage has one writer: a write takes effect when it reaches the head   *)
(* of the queue, and whoever awaits it goes on from there.  What a handler *)
(* does next is its stage, so the queue only has to say whose write it is. *)
(*                                                                         *)
(* Left out: which rows need enrichment (pending or skipped), the caption  *)
(* pool, retention, and what accept does with a trigger (see Sessions).    *)
(***************************************************************************)
EXTENDS Naturals, Sequences, FiniteSets, SequencesExt

CONSTANTS
    Messages,       \* what the room's members post
    Triggers,       \* those of them that address the bot
    NoBuffer,       \* no activation is under way
    Grouped,        \* the earlier messages resolveTriggerGroup adds to a trigger
    MaxFaults,      \* bound on writes that reject
    MaxCrashes      \* bound on crashes

ActivationAssumption ==
    /\ Triggers \subseteq Messages
    /\ Grouped \in [Triggers -> SUBSET Messages]
    /\ NoBuffer \notin Seq(Messages)
    /\ MaxFaults \in Nat /\ MaxCrashes \in Nat

VARIABLES
    state,      \* timeline_compaction_state.timeline_state
    row,        \* each message's enrichment_status: absent, inactive or processable
    buffer,     \* heldTriggers, with activatingTimelines: NoBuffer when unguarded
    writes,     \* the writer's queue: the messages whose handlers await a write
    calls,      \* dispatch: the handlers called in the present turn
    at,         \* what is being done with each message
    asked,      \* the message has arrived with its trigger
    answered,   \* how often a trigger was accepted
    draining,   \* shutdown has begun
    up,         \* the process runs
    faults, crashes

roomVars == <<state, row, buffer>>
processVars == <<writes, calls, at, asked, answered, draining, up>>
vars == <<state, row, buffer, writes, calls, at, asked, answered, draining, up,
          faults, crashes>>

\* Stages of the prelude that await a write, and those that await something else.
PreludeWrites == {"activating", "routing", "marking", "grouping", "flipping",
                  "promoting", "resetting"}
Prelude == PreludeWrites \cup {"backfilling", "readying"}

\* Stages of a message that is only stored.
Stores == {"store_inactive", "store_held", "store_stranded", "store_active",
           "reset_stranded"}

Settled == {"accepted", "failed", "dropped", "lost"}
Stages == Prelude \cup Stores \cup Settled \cup {"out", "seen", "held"}

Guarded == buffer # NoBuffer

\* The handler of m goes on to stage s: with another write, or without.
Goes(m, s) ==
    /\ at' = [at EXCEPT ![m] = s]
    /\ writes' = Append(Tail(writes), m)
Rests(m, s) ==
    /\ at' = [at EXCEPT ![m] = s]
    /\ writes' = Tail(writes)

\* The write of m is the next to take effect, and m is at stage s.
Commits(m, s) ==
    /\ calls = <<>>
    /\ writes # <<>> /\ Head(writes) = m
    /\ at[m] = s

\* A message that carries no trigger, or not yet, is done with when it is stored.
Outcome(m, s) == IF asked[m] THEN s ELSE "seen"

\* appendIfMissing: a row that exists keeps its status.
Stored(m, status) ==
    row' = IF row[m] = "absent" THEN [row EXCEPT ![m] = status] ELSE row

(***************************************************************************)
(* The gate.                                                               *)
(***************************************************************************)
\* Mutant: the stored state is looked at before the guard.
Gate_StateFirst(m, trigger) ==
    /\ writes' = Append(writes, m)
    /\ \/ /\ state = "activating"
          /\ at' = [at EXCEPT ![m] = "store_stranded"]
          /\ UNCHANGED buffer
       \/ /\ state # "activating" /\ Guarded
          /\ at' = [at EXCEPT ![m] = "store_held"]
          /\ UNCHANGED buffer
       \/ /\ state = "inactive" /\ ~Guarded /\ trigger
          /\ at' = [at EXCEPT ![m] = "activating"]
          /\ buffer' = <<>>
       \/ /\ state = "inactive" /\ ~Guarded /\ ~trigger
          /\ at' = [at EXCEPT ![m] = "store_inactive"]
          /\ UNCHANGED buffer
       \/ /\ state = "active" /\ ~Guarded
          /\ at' = [at EXCEPT ![m] = "store_active"]
          /\ UNCHANGED buffer

\* gateInbound up to its first await, for a message with or without its trigger.
Gate(m, trigger) ==
    /\ writes' = Append(writes, m)
    /\ \/ /\ state = "activating" /\ ~Guarded
          /\ at' = [at EXCEPT ![m] = "store_stranded"]
          /\ UNCHANGED buffer
       \/ /\ Guarded
          /\ at' = [at EXCEPT ![m] = "store_held"]
          /\ UNCHANGED buffer
       \/ /\ state = "inactive" /\ ~Guarded /\ trigger
          /\ at' = [at EXCEPT ![m] = "activating"]
          /\ buffer' = <<>>
       \/ /\ state = "inactive" /\ ~Guarded /\ ~trigger
          /\ at' = [at EXCEPT ![m] = "store_inactive"]
          /\ UNCHANGED buffer
       \/ /\ state = "active" /\ ~Guarded
          /\ at' = [at EXCEPT ![m] = "store_active"]
          /\ UNCHANGED buffer

\* The provider hands over a message, without its trigger ...
DeliverPlain(m) ==
    /\ up /\ ~draining /\ calls = <<>>
    /\ at[m] = "out"
    /\ Gate(m, FALSE)
    /\ UNCHANGED <<state, row, calls, asked, answered, draining, up, faults, crashes>>

\* ... and, when the trigger hold is over, with it.
DeliverTrigger(m) ==
    /\ up /\ ~draining /\ calls = <<>>
    /\ m \in Triggers /\ ~asked[m]
    /\ at[m] \in {"out", "seen"}
    /\ asked' = [asked EXCEPT ![m] = TRUE]
    /\ Gate(m, TRUE)
    /\ UNCHANGED <<state, row, calls, answered, draining, up, faults, crashes>>

\* dispatch: handleInbound is called again; a draining process swallows the call.
Dispatch ==
    /\ calls # <<>>
    /\ calls' = Tail(calls)
    /\ LET m == Head(calls) IN
       \/ /\ ~draining
          /\ Gate(m, TRUE)
       \/ /\ draining
          /\ at' = [at EXCEPT ![m] = "lost"]
          /\ UNCHANGED <<writes, buffer>>
    /\ UNCHANGED <<state, row, asked, answered, draining, up, faults, crashes>>

(***************************************************************************)
(* Messages that are only stored, or stored and held.                      *)
(***************************************************************************)
\* router.route in an inactive timeline
StoreInactive(m) ==
    /\ Commits(m, "store_inactive")
    /\ Stored(m, "inactive")
    /\ Rests(m, "seen")
    /\ UNCHANGED <<state, buffer, calls, asked, answered, draining, up, faults, crashes>>

\* storeHeld: a trigger is buffered, or dispatched again if the guard is gone by now.
StoreHeld(m) ==
    /\ Commits(m, "store_held")
    /\ Stored(m, "processable")
    /\ Rests(m, Outcome(m, "held"))
    /\ buffer' = IF asked[m] /\ Guarded THEN Append(buffer, m) ELSE buffer
    /\ calls' = IF asked[m] /\ ~Guarded THEN <<m>> ELSE calls
    /\ UNCHANGED <<state, asked, answered, draining, up, faults, crashes>>

\* The inconsistent state: store, try to reset, dispatch again after a reset.
StoreStranded(m) ==
    /\ Commits(m, "store_stranded")
    /\ Stored(m, "processable")
    /\ Goes(m, "reset_stranded")
    /\ UNCHANGED <<state, buffer, calls, asked, answered, draining, up, faults, crashes>>

ResetStranded(m) ==
    /\ Commits(m, "reset_stranded")
    /\ state' = "inactive"
    /\ Rests(m, Outcome(m, "held"))
    /\ calls' = IF asked[m] THEN <<m>> ELSE calls
    /\ UNCHANGED <<row, buffer, asked, answered, draining, up, faults, crashes>>

\* handleInbound in an active timeline: stored, and a trigger is accepted.
StoreActive(m) ==
    /\ Commits(m, "store_active")
    /\ Stored(m, "processable")
    /\ Rests(m, Outcome(m, "accepted"))
    /\ answered' = IF asked[m] THEN [answered EXCEPT ![m] = @ + 1] ELSE answered
    /\ UNCHANGED <<state, buffer, calls, asked, draining, up, faults, crashes>>

(***************************************************************************)
(* The prelude.                                                            *)
(***************************************************************************)
Activate(m) ==
    /\ Commits(m, "activating")
    /\ state' = "activating"
    /\ Goes(m, "routing")
    /\ UNCHANGED <<row, buffer, calls, asked, answered, draining, up, faults, crashes>>

\* A trigger that was stored before still has its old status: it is marked first.
Route(m) ==
    /\ Commits(m, "routing")
    /\ Stored(m, "processable")
    /\ IF row[m] = "absent" THEN Rests(m, "backfilling") ELSE Goes(m, "marking")
    /\ UNCHANGED <<state, buffer, calls, asked, answered, draining, up, faults, crashes>>

\* Mutant: the trigger that was stored before keeps its status.
Mark_Kept(m) ==
    /\ Commits(m, "marking")
    /\ Rests(m, "backfilling")
    /\ UNCHANGED <<state, row, buffer, calls, asked, answered, draining, up, faults, crashes>>

Mark(m) ==
    /\ Commits(m, "marking")
    /\ row' = [row EXCEPT ![m] = "processable"]
    /\ Rests(m, "backfilling")
    /\ UNCHANGED <<state, buffer, calls, asked, answered, draining, up, faults, crashes>>

\* runInitialBackfill: stores some of the history, and never throws.
Backfill(m) ==
    /\ calls = <<>>
    /\ at[m] = "backfilling"
    /\ \E S \in SUBSET {n \in Messages : row[n] = "absent"} :
        row' = [n \in Messages |-> IF n \in S THEN "inactive" ELSE row[n]]
    /\ at' = [at EXCEPT ![m] = "grouping"]
    /\ writes' = Append(writes, m)
    /\ UNCHANGED <<state, buffer, calls, asked, answered, draining, up, faults, crashes>>

\* resolveTriggerGroup and activateTriggerGroupEvents
Group(m) ==
    /\ Commits(m, "grouping")
    /\ row' = [n \in Messages |-> IF n \in Grouped[m] /\ row[n] = "inactive"
                                  THEN "processable" ELSE row[n]]
    /\ Rests(m, "readying")
    /\ UNCHANGED <<state, buffer, calls, asked, answered, draining, up, faults, crashes>>

\* Mutant: a prelude that ends because of the shutdown leaves its guard behind.
Ready_GuardLeft(m) ==
    /\ calls = <<>>
    /\ at[m] = "readying"
    /\ \/ /\ draining
          /\ at' = [at EXCEPT ![m] = "lost"]
          /\ UNCHANGED <<writes, buffer>>
       \/ /\ ~draining
          /\ at' = [at EXCEPT ![m] = "flipping"]
          /\ writes' = Append(writes, m)
          /\ UNCHANGED buffer
    /\ UNCHANGED <<state, row, calls, asked, answered, draining, up, faults, crashes>>

\* awaitTriggerReadiness is over, by success or by timeout.  A draining process ends
\* the prelude there, with what it held.
Ready(m) ==
    /\ calls = <<>>
    /\ at[m] = "readying"
    /\ \/ /\ draining
          /\ at' = [n \in Messages |-> IF n = m \/ n \in ToSet(buffer) THEN "lost" ELSE at[n]]
          /\ buffer' = NoBuffer
          /\ UNCHANGED writes
       \/ /\ ~draining
          /\ at' = [at EXCEPT ![m] = "flipping"]
          /\ writes' = Append(writes, m)
          /\ UNCHANGED buffer
    /\ UNCHANGED <<state, row, calls, asked, answered, draining, up, faults, crashes>>

\* Mutant: the stored backlog is left to a later sweep.
Flip_Nothing(m) ==
    /\ Commits(m, "flipping")
    /\ Goes(m, "promoting")
    /\ UNCHANGED <<state, row, buffer, calls, asked, answered, draining, up, faults, crashes>>

\* activateTimelineEvents
Flip(m) ==
    /\ Commits(m, "flipping")
    /\ row' = [n \in Messages |-> IF row[n] = "inactive" THEN "processable" ELSE row[n]]
    /\ Goes(m, "promoting")
    /\ UNCHANGED <<state, buffer, calls, asked, answered, draining, up, faults, crashes>>

\* Mutant: the activating trigger is dispatched with those it held back.
Promote_ReplaysItself(m) ==
    /\ Commits(m, "promoting")
    /\ state' = "active"
    /\ Rests(m, "accepted")
    /\ answered' = [answered EXCEPT ![m] = @ + 1]
    /\ calls' = Append(buffer, m)
    /\ buffer' = NoBuffer
    /\ UNCHANGED <<row, asked, draining, up, faults, crashes>>

\* The timeline is active: the guard goes, the trigger is accepted, the held triggers
\* are dispatched, in one turn.
Promote(m) ==
    /\ Commits(m, "promoting")
    /\ state' = "active"
    /\ Rests(m, "accepted")
    /\ answered' = [answered EXCEPT ![m] = @ + 1]
    /\ calls' = buffer
    /\ buffer' = NoBuffer
    /\ UNCHANGED <<row, asked, draining, up, faults, crashes>>

\* finishActivation and replay, after a prelude that failed.
Abandon(m) ==
    /\ Rests(m, "failed")
    /\ calls' = buffer
    /\ buffer' = NoBuffer

Reset(m) ==
    /\ Commits(m, "resetting")
    /\ state' = "inactive"
    /\ Abandon(m)
    /\ UNCHANGED <<row, asked, answered, draining, up, faults, crashes>>

(***************************************************************************)
(* Writes that reject, shutdown, crash and restart.                        *)
(***************************************************************************)
\* The catch of activateTimeline: reset first, and give up if that rejects too.
PreludeFails(m) ==
    \/ /\ at[m] \in PreludeWrites \ {"resetting"}
       /\ Goes(m, "resetting")
       /\ UNCHANGED <<buffer, calls>>
    \/ /\ at[m] = "resetting"
       /\ Abandon(m)

WriteRejects ==
    /\ calls = <<>> /\ writes # <<>>
    /\ faults < MaxFaults
    /\ faults' = faults + 1
    /\ LET m == Head(writes) IN
       \/ PreludeFails(m)
       \/ /\ at[m] = "reset_stranded"
          /\ Rests(m, Outcome(m, "dropped"))
          /\ UNCHANGED <<buffer, calls>>
       \/ /\ at[m] \in Stores \ {"reset_stranded"}
          /\ Rests(m, Outcome(m, "failed"))
          /\ UNCHANGED <<buffer, calls>>
    /\ UNCHANGED <<state, row, asked, answered, draining, up, crashes>>

Drain ==
    /\ up /\ ~draining /\ calls = <<>>
    /\ draining' = TRUE
    /\ UNCHANGED <<state, row, buffer, writes, calls, at, asked, answered, up, faults, crashes>>

\* The process dies: the rows are what is left.
Crash ==
    /\ up /\ calls = <<>>
    /\ crashes < MaxCrashes
    /\ crashes' = crashes + 1
    /\ up' = FALSE
    /\ writes' = <<>>
    /\ buffer' = NoBuffer
    /\ at' = [m \in Messages |->
                IF at[m] \in Settled \cup {"out", "seen"} THEN at[m] ELSE Outcome(m, "lost")]
    /\ UNCHANGED <<state, row, calls, asked, answered, draining, faults>>

\* Mutant: a timeline that was left activating stays so.
Restart_NotHealed ==
    /\ ~up
    /\ up' = TRUE
    /\ draining' = FALSE
    /\ UNCHANGED <<state, row, buffer, writes, calls, at, asked, answered, faults, crashes>>

\* resetStaleActivations, before any provider delivers.
Restart ==
    /\ ~up
    /\ up' = TRUE
    /\ draining' = FALSE
    /\ state' = IF state = "activating" THEN "inactive" ELSE state
    /\ UNCHANGED <<row, buffer, writes, calls, at, asked, answered, faults, crashes>>

-----------------------------------------------------------------------------

Init ==
    /\ state = "inactive"
    /\ row = [m \in Messages |-> "absent"]
    /\ buffer = NoBuffer
    /\ writes = <<>> /\ calls = <<>>
    /\ at = [m \in Messages |-> "out"]
    /\ asked = [m \in Messages |-> FALSE]
    /\ answered = [m \in Messages |-> 0]
    /\ draining = FALSE /\ up = TRUE
    /\ faults = 0 /\ crashes = 0

\* What the code does with a message once it has it.
Handle(m) ==
    \/ StoreInactive(m) \/ StoreHeld(m) \/ StoreStranded(m) \/ ResetStranded(m)
    \/ StoreActive(m)
    \/ Activate(m) \/ Route(m) \/ Mark(m) \/ Backfill(m) \/ Group(m) \/ Ready(m)
    \/ Flip(m) \/ Promote(m) \/ Reset(m)
SomeHandler == \E m \in Messages : Handle(m)

Next ==
    \/ \E m \in Messages : DeliverPlain(m) \/ DeliverTrigger(m)
    \/ SomeHandler
    \/ Dispatch
    \/ WriteRejects
    \/ Drain \/ Crash \/ Restart

\* The writer drains its queue, and what the prelude awaits besides ends: the backfill
\* and the readiness wait have timeouts of their own.
Fairness == WF_vars(Dispatch) /\ WF_vars(SomeHandler)

Spec == Init /\ [][Next]_vars /\ Fairness

(***************************************************************************)
(* Properties.                                                             *)
(***************************************************************************)
TypeOK ==
    /\ state \in {"inactive", "activating", "active"}
    /\ row \in [Messages -> {"absent", "inactive", "processable"}]
    /\ Guarded => buffer \in Seq(Triggers)
    /\ writes \in Seq(Messages) /\ calls \in Seq(Triggers)
    /\ at \in [Messages -> Stages]
    /\ asked \in [Messages -> BOOLEAN]
    /\ answered \in [Messages -> Nat]
    /\ draining \in BOOLEAN /\ up \in BOOLEAN
    /\ faults \in 0..MaxFaults /\ crashes \in 0..MaxCrashes

\* No message is left with status inactive in a timeline that is active: neither the
\* restart nor the retention sweep would ever look at it.
NoneStranded == state = "active" => \A m \in Messages : row[m] # "inactive"

\* At most one prelude runs, and the guard stands exactly as long as it does: with
\* no guard a second trigger would activate too, with no prelude the buffer would
\* never be replayed.
GuardOwned ==
    /\ \A m, n \in Messages : at[m] \in Prelude /\ at[n] \in Prelude => m = n
    /\ Guarded <=> \E m \in Messages : at[m] \in Prelude

\* When the prelude waits for its trigger to be ready, the trigger and what is grouped
\* with it have a status the enrichment pool takes; a status of inactive counts as
\* ready, and the first session would see an image without its caption.
ReadinessMeansSomething ==
    \A m \in Triggers : at[m] = "readying" =>
        \A n \in Grouped[m] \cup {m} : row[n] # "inactive"

\* A running process has a timeline that reads activating and is not being activated
\* only after two writes were rejected, or in a shutdown.
NotLeftActivating ==
    up /\ state = "activating" /\ ~Guarded => draining \/ faults >= 2

\* A trigger is accepted once, whether it activated the room, was held, or found the
\* guard cleared while it was being stored.
AnsweredOnce == \A m \in Messages : answered[m] <= 1

\* (Of a step.)  An active timeline stays active: the reset of a trigger that met the inconsistent
\* state does not land on top of a promotion.
StaysActive == state = "active" => state' = "active"

\* (Again and again.)  Every trigger comes to an end: none waits for ever in the buffer of a prelude that
\* is over, none is dispatched round and round.
TriggersSettled == \A m \in Triggers : asked[m] => at[m] \in Settled
=============================================================================
