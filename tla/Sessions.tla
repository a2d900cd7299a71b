------------------------------ MODULE Sessions ------------------------------
(***************************************************************************)
(* The chat sessions of one timeline, from an inbound trigger to the end   *)
(* of the run that answers it (src/app.ts handleInbound, launchSession,    *)
(* runResumeSession and what they call; timeline/trigger.ts,               *)
(* agent/session-claims.ts, agent/session-manager.ts): a bounded number of *)
(* slots with a queue behind them, a registry of claims by which a second  *)
(* reply to the same message finds the session that answers it, co-replies *)
(* parked on a session that is not live yet or steered into a live one,    *)
(* completed sessions that a late message revives or a reply resumes.      *)
(*                                                                         *)
(* Node runs one callback at a time: an action is what the code does       *)
(* between two awaits.  A session is named by the trigger it was created   *)
(* for.  Two kinds of run stand beside the triggers: the posts of the      *)
(* proactive scheduler and the parked sessions an operator resumes; both   *)
(* take a slot if one is free and have no claim.  Left out: follow-up      *)
(* folding, corrections of a running request (LateInput), activation of a  *)
(* new room (Activation), withdrawn messages, shutdown.                    *)
(***************************************************************************)
EXTENDS Integers, Sequences, FiniteSets, SequencesExt

CONSTANTS
    Triggers,       \* inbound messages that trigger the bot
    None,
    ReplyTo,        \* what each replies to: a message, a session (its message) or None
    SentAt,         \* their timestamps
    Media,          \* those that carry an image
    Limit,          \* max_concurrent
    MaxQueued,      \* max_queued_per_timeline
    Window,         \* coalesce_window_ms
    Resumable,      \* agent.sessions.resume.enabled
    Revivable,      \* late input is on: a completed session can be revived
    Proactive,      \* those that are no messages, but ticks of the proactive scheduler
    Events          \* failures of this instance, and whether an operator resumes sessions

ASSUME SessionsAssumption ==
    /\ IsFiniteSet(Triggers)
    /\ None \notin Triggers
    /\ DOMAIN ReplyTo = Triggers
    /\ SentAt \in [Triggers -> Nat]
    /\ Media \subseteq Triggers
    /\ Limit \in Nat \ {0} /\ MaxQueued \in Nat /\ Window \in Nat
    /\ Resumable \in BOOLEAN /\ Revivable \in BOOLEAN
    /\ Proactive \subseteq Triggers
    /\ Events \subseteq {"launch_throws", "operator_resumes"}

VARIABLES
    slots,      \* TriggerCoordinator.activeByTimeline
    queue,      \* TriggerCoordinator.queues
    claims,     \* SessionClaims: the triggers claimed ...
    older,      \* ... for each, the claims made before it ...
    by,         \* ... and the session it is attributed to, or None
    stage,      \* what is being done with each trigger
    via,        \* who launched it, or how it was steered
    into,       \* the trigger it is parked on, or the session it is steered into
    sess,       \* the record of each session; "none" before it is created
    serving,    \* the trigger each session works for
    window      \* sessions with a late-input entry that may still be revived

vars == <<slots, queue, claims, older, by, stage, via, into, sess, serving, window>>

coordinator == <<slots, queue>>
registry == <<claims, older, by>>
records == <<sess, serving, window>>

(***************************************************************************)
(* State formulae.                                                         *)
(***************************************************************************)
\* Accepted triggers that no session stands for yet.
Unattributed == {"grouping", "queued", "launching", "resuming", "accepting"}

\* Triggers a session works for: a run, a revival in a slot or beside the slots, a
\* proactive post, a run resumed by an operator.
Runs == {"working", "revived", "unslotted", "posting", "recovering"}

\* Records that sessions.get() finds: the others were evicted.
InMemory(ss, s) == ss[s] \in {"building", "running", "ending", "failing", "interrupted"}

\* A record that steer() accepts a message for: status running, agent attached.  The
\* agent takes it whether or not the rollout has made its last check of the queue.
Live(s) == sess[s] \in {"running", "ending", "failing"}

IsReplyToSession(t) == ReplyTo[t] \in Triggers

\* coTargetClaim: the claims whose trigger replied to the same message; the first
\* decides.
CoTargets(t) == {c \in claims : ReplyTo[t] # None /\ ReplyTo[c] = ReplyTo[t]}

FirstCoTarget(c, t) == c \in CoTargets(t) /\ older[c] \cap CoTargets(t) = {}

Near(c, t) == /\ SentAt[c] - SentAt[t] <= Window
              /\ SentAt[t] - SentAt[c] <= Window

\* Mutant: only a session that exists is waited for.
SteerableSoon_Attributed(c) == by[c] # None /\ sess[by[c]] = "building"

\* coTargetOwnerSteerableSoon, for an owner that cannot be steered right now.
SteerableSoon(c) == by[c] = None \/ sess[by[c]] = "building"

\* Mutant: a session that may be revived is resumed all the same.
Occupied_Evicted(ss, win, s) == InMemory(ss, s)

\* A session some agent runs, or may come back to.
Occupied(ss, win, s) == InMemory(ss, s) \/ s \in win

\* The sessions somebody is resuming (resumeClaims).
ResumeClaims(st) == {ReplyTo[t] : t \in {u \in Triggers : st[u] \in {"resuming", "accepting"}}}

\* tryReplyResume up to its first await: t goes for the session it replies to, or on
\* to a fresh one.
Begun(t, st, ss, win) ==
    IF /\ Resumable
       /\ IsReplyToSession(t)
       /\ ~Occupied(ss, win, ReplyTo[t])
       /\ ReplyTo[t] \notin ResumeClaims(st)
    THEN "resuming" ELSE "launching"

(***************************************************************************)
(* The slots of the timeline.                                              *)
(***************************************************************************)
\* addClaim
Claim(t) ==
    /\ claims' = claims \cup {t}
    /\ older' = [older EXCEPT ![t] = claims]
    /\ by' = [by EXCEPT ![t] = None]

\* releaseExternalId, releaseSession
Unclaim(ts) ==
    /\ claims' = claims \ ts
    /\ older' = [c \in Triggers |-> IF c \in ts THEN {} ELSE older[c] \ ts]
    /\ by' = [c \in Triggers |-> IF c \in ts THEN None ELSE by[c]]

\* Mutant: one trigger too many is queued.
QueueFull_OffByOne == Len(queue) > MaxQueued

QueueFull == Len(queue) >= MaxQueued

\* accept and addClaim, in one synchronous step: t takes a slot and goes on as
\* "next", or queues, or is ignored.
Accept(t, next, caller) ==
    /\ into' = [into EXCEPT ![t] = t]
    /\ \/ /\ slots < Limit
          /\ slots' = slots + 1
          /\ stage' = [stage EXCEPT ![t] = next]
          /\ via' = [via EXCEPT ![t] = caller]
          /\ Claim(t)
          /\ UNCHANGED queue
       \/ /\ slots >= Limit /\ ~QueueFull
          /\ queue' = Append(queue, t)
          /\ stage' = [stage EXCEPT ![t] = "queued"]
          /\ Claim(t)
          /\ UNCHANGED <<slots, via>>
       \/ /\ slots >= Limit /\ QueueFull
          /\ stage' = [stage EXCEPT ![t] = "ignored"]
          /\ UNCHANGED <<slots, queue, via, registry>>

SlotFreed == slots' = IF slots > 0 THEN slots - 1 ELSE 0

\* Mutant: the slot is freed but the queue is not looked at.
Drain_NoNext(st, ss, win) ==
    /\ SlotFreed
    /\ stage' = st
    /\ UNCHANGED <<queue, via>>

\* drainNextQueuedTrigger, given the stages and records its caller leaves: the slot
\* is freed, or passes to the head of the queue, whose launch begins.
Drain(st, ss, win) ==
    \/ /\ queue = <<>>
       /\ SlotFreed
       /\ stage' = st
       /\ UNCHANGED <<queue, via>>
    \/ /\ queue # <<>>
       /\ queue' = Tail(queue)
       /\ stage' = [st EXCEPT ![Head(queue)] = Begun(Head(queue), st, ss, win)]
       /\ via' = [via EXCEPT ![Head(queue)] = "queue"]
       /\ UNCHANGED slots

(***************************************************************************)
(* Inbound.                                                                *)
(***************************************************************************)
\* The message t replies to exists: a session's once its agent has run.
TargetExists(t) ==
    IsReplyToSession(t) =>
        LET s == ReplyTo[t]
        IN  \/ sess[s] \in {"running", "ending", "failing", "interrupted",
                         "completed", "failed", "stopped"}
            \/ sess[s] = "building" /\ (serving[s] # s \/ stage[s] = "recovering")

\* The session whose message t replies to is live.
SteersReply(t) == IsReplyToSession(t) /\ Live(ReplyTo[t])

\* steer(), as a reply or as a co-reply
Folded(t, s, kind) ==
    /\ stage' = [stage EXCEPT ![t] = "unread"]
    /\ into' = [into EXCEPT ![t] = s]
    /\ via' = [via EXCEPT ![t] = kind]

\* steerReplyToActiveSession: a reply to what a live session said goes to that session.
SteerReply(t) ==
    /\ stage[t] = "unseen"
    /\ TargetExists(t)
    /\ SteersReply(t)
    /\ Folded(t, ReplyTo[t], "reply")
    /\ UNCHANGED <<coordinator, registry, records>>

\* coalesceCoTargetReply, what happens to a reply that is not steered as above when c
\* is the first claim on the same message.  An image is conditioned first.
Coalescing(c, t) ==
    LET s == by[c]
    IN  IF ~Near(c, t) THEN "spawn"
        ELSE IF s # None /\ Live(s) THEN IF t \in Media THEN "condition" ELSE "steer"
        ELSE IF s # None /\ sess[s] = "interrupted" /\ t \in Media THEN "condition"
        ELSE IF SteerableSoon(c) THEN "park"
        ELSE "spawn"

Coalesce(t) ==
    /\ stage[t] = "unseen"
    /\ TargetExists(t)
    /\ ~SteersReply(t)
    /\ \E c \in Triggers :
        /\ FirstCoTarget(c, t)
        /\ \/ /\ Coalescing(c, t) = "steer"
              /\ Folded(t, by[c], "co-reply")
           \/ /\ Coalescing(c, t) = "condition"
              /\ stage' = [stage EXCEPT ![t] = "conditioning"]
              /\ into' = [into EXCEPT ![t] = by[c]]
              /\ UNCHANGED via
           \/ /\ Coalescing(c, t) = "park"
              /\ stage' = [stage EXCEPT ![t] = "parked"]
              /\ into' = [into EXCEPT ![t] = c]
              /\ UNCHANGED via
    /\ UNCHANGED <<coordinator, registry, records>>

\* Any other trigger is accepted and claimed at once; then its group is resolved.
Spawn(t) ==
    /\ stage[t] = "unseen"
    /\ TargetExists(t)
    /\ ~SteersReply(t)
    /\ \A c \in Triggers : FirstCoTarget(c, t) => Coalescing(c, t) = "spawn"
    /\ Accept(t, "grouping", "inbound")
    /\ UNCHANGED records

\* The group is resolved and launchSession begins.
GroupResolved(t) ==
    /\ stage[t] = "grouping"
    /\ stage' = [stage EXCEPT ![t] = Begun(t, stage, sess, window)]
    /\ UNCHANGED <<coordinator, registry, via, into, records>>

\* redispatchCoReply after its first await: a co-reply becomes a trigger of its own.
Regrouped(t) ==
    /\ stage[t] = "regrouping"
    /\ Accept(t, Begun(t, stage, sess, window), "redispatch")
    /\ UNCHANGED records

\* steerCoReplyWithPixels after its awaits: steered, or a trigger of its own.
Conditioned(t) ==
    /\ stage[t] = "conditioning"
    /\ IF Live(into[t])
       THEN Folded(t, into[t], "co-reply")
       ELSE /\ stage' = [stage EXCEPT ![t] = "regrouping"]
            /\ into' = [into EXCEPT ![t] = t]
            /\ UNCHANGED via
    /\ UNCHANGED <<coordinator, registry, records>>

(***************************************************************************)
(* launchSession.                                                          *)
(***************************************************************************)
\* Mutant: the claim is not attributed to the session.
Attach_Unattributed(t, s) ==
    /\ sess' = [sess EXCEPT ![s] = "building"]
    /\ serving' = [serving EXCEPT ![s] = t]
    /\ stage' = [stage EXCEPT ![t] = "working"]
    /\ UNCHANGED <<coordinator, registry, via, into, window>>

\* A session is created or adopted for t: running, without an agent yet.
Attach(t, s) ==
    /\ sess' = [sess EXCEPT ![s] = "building"]
    /\ serving' = [serving EXCEPT ![s] = t]
    /\ stage' = [stage EXCEPT ![t] = "working"]
    /\ by' = [by EXCEPT ![t] = s]
    /\ UNCHANGED <<coordinator, claims, older, via, into, window>>

\* No resume, or not any more: a fresh session.
Register(t) ==
    /\ stage[t] = "launching"
    /\ Attach(t, t)

\* Still nobody's session once its record turn is over: it may be resumed.
ResumeAwaited(t) ==
    /\ stage[t] = "resuming"
    /\ stage' = [stage EXCEPT ![t] =
                   IF Occupied(sess, window, ReplyTo[t]) THEN "launching" ELSE "accepting"]
    /\ UNCHANGED <<coordinator, registry, via, into, records>>

\* The gate and the compare-and-set on the row's status: a completed session is
\* adopted by runResumeSession.
ResumeAccepted(t) ==
    /\ stage[t] = "accepting"
    /\ sess[ReplyTo[t]] = "completed" /\ ReplyTo[t] \notin Proactive
    /\ Attach(t, ReplyTo[t])

\* The record has not settled, the gate says no, or the row is not completed.
ResumeDeclined(t) ==
    /\ stage[t] \in {"resuming", "accepting"}
    /\ stage' = [stage EXCEPT ![t] = "launching"]
    /\ UNCHANGED <<coordinator, registry, via, into, records>>

\* The write of the compare-and-set fails, so launchSession rejects: what happens to
\* the claim, the slot and the parked co-replies is up to its caller.  "leaked" is a
\* trigger nobody works on that keeps its slot.
LaunchThrows(t) ==
    /\ "launch_throws" \in Events
    /\ stage[t] = "accepting"
    /\ sess[ReplyTo[t]] = "completed"
    /\ Unclaim({t})
    /\ LET lost == [stage EXCEPT ![t] = "lost"]
       IN  \/ /\ via[t] = "inbound"
              /\ stage' = [u \in Triggers |->
                             IF stage[u] = "parked" /\ into[u] = t THEN "regrouping"
                             ELSE IF u = t THEN "leaked" ELSE stage[u]]
              /\ UNCHANGED <<coordinator, via>>
           \/ /\ via[t] = "redispatch"
              /\ Drain(lost, sess, window)
           \/ /\ via[t] = "queue"       \* complete(), whose result is discarded
              /\ queue = <<>>
              /\ SlotFreed
              /\ stage' = lost
              /\ UNCHANGED <<queue, via>>
           \/ /\ via[t] = "queue"
              /\ queue # <<>>
              /\ queue' = Tail(queue)
              /\ stage' = [lost EXCEPT ![Head(queue)] = "leaked"]
              /\ UNCHANGED <<slots, via>>
    /\ UNCHANGED <<into, records>>

\* attachAgent: the parked co-replies are steered in and the run starts.
GoLive(s) ==
    /\ sess[s] = "building"
    /\ sess' = [sess EXCEPT ![s] = "running"]
    /\ LET mine(u) == stage[u] = "parked" /\ into[u] = serving[s]
       IN  /\ stage' = [u \in Triggers |->
                          IF ~mine(u) THEN stage[u]
                          ELSE IF u \in Media THEN "conditioning" ELSE "unread"]
           /\ into' = [u \in Triggers |-> IF mine(u) THEN s ELSE into[u]]
           /\ via' = [u \in Triggers |-> IF mine(u) THEN "co-reply" ELSE via[u]]
    /\ UNCHANGED <<coordinator, registry, serving, window>>

(***************************************************************************)
(* Runs beside the triggers.                                               *)
(***************************************************************************)
\* tryAcquire, and the placeholder or the adopted record, in one synchronous step.
Begins(s, kind) ==
    /\ slots < Limit
    /\ slots' = slots + 1
    /\ sess' = [sess EXCEPT ![s] = "building"]
    /\ stage' = [stage EXCEPT ![s] = kind]
    /\ UNCHANGED <<queue, registry, via, into, serving, window>>

\* Counted by activeForTimeline: a record an operator resumes is "resuming" as yet.
Active(s) == Live(s) \/ (sess[s] = "building" /\ stage[s] # "recovering")

\* A tick of the proactive scheduler that passes its budget and its gates.
Post(p) ==
    /\ p \in Proactive
    /\ stage[p] = "unseen"
    /\ \A s \in Triggers : ~Active(s)
    /\ Begins(p, "posting")

\* Mutant: the row's status is enough, whether or not the session is in memory.
Parked_ByRow(s) == sess[s] \in {"failed", "stopped", "interrupted"}

\* Parked for an operator, and in nobody's hands.
Parked(s) == sess[s] \in {"failed", "stopped"}

\* createManualResumeSession: an operator resumes a parked session (whose last run has
\* given its slot back).
Recover(s) ==
    /\ "operator_resumes" \in Events
    /\ Parked(s) /\ stage[s] # "closing"
    /\ Begins(s, "recovering")

(***************************************************************************)
(* The end of a session.                                                   *)
(***************************************************************************)
\* Mutant: co-replies still parked on the session stay parked.
Reparked_Forgotten(u, s) == FALSE

\* redispatchPendingCoReplies, from the settle listener
Reparked(u, s) == stage[u] = "parked" /\ into[u] = serving[s]

\* Mutant: what a completed session never read is not delivered again.
Unread_Kept(s, status) == IF status # "completed" THEN "dropped" ELSE "unread"

\* A session can be revived once it has completed: a fresh one, of a message.
MayRevive(s, status) ==
    /\ Revivable /\ status = "completed"
    /\ serving[s] = s /\ stage[s] \notin {"posting", "recovering"}

\* redeliverUnreadSteers: only a completed session's unread steers live on.
Unread(s, status) ==
    IF status # "completed" THEN "dropped"
    ELSE IF MayRevive(s, status) THEN "reviving" ELSE "regrouping"

\* The stages that the settle listeners leave; the served trigger goes on to "after".
Settled(s, status, after) ==
    [u \in Triggers |->
        CASE u = serving[s] /\ stage[u] \in Runs -> after
          [] Reparked(u, s) -> "regrouping"
          [] stage[u] = "unread" /\ into[u] = s -> Unread(s, status)
          [] stage[u] = "read" /\ into[u] = s -> "done"
          [] OTHER -> stage[u]]

\* The record is evicted and the settle listeners run: the session's claim is
\* released.
Evict(s, status) ==
    /\ sess' = [sess EXCEPT ![s] = status]
    /\ serving' = [serving EXCEPT ![s] = s]
    /\ Unclaim({c \in Triggers : by[c] = s})
    /\ window' = IF MayRevive(s, status) THEN window \cup {s} ELSE window \ {s}
    /\ into' = [u \in Triggers |->
                  IF Settled(s, status, "done")[u] \in {"regrouping", "done", "dropped"}
                  THEN u ELSE into[u]]

\* Mutant: a revival without a slot gives one back all the same.
Leave_AlwaysDrains(s, status, after) ==
    /\ Evict(s, status)
    /\ Drain(Settled(s, status, after), sess', window')

\* The slot goes with the run unless a revival started without one.
Leave(s, status, after) ==
    /\ Evict(s, status)
    /\ IF stage[serving[s]] # "unslotted"
       THEN Drain(Settled(s, status, after), sess', window')
       ELSE /\ stage' = Settled(s, status, after)
            /\ UNCHANGED <<coordinator, via>>

\* Refused (no target, per-user limits, budget) or failed to build.
BuildFails(s) ==
    /\ sess[s] = "building"
    /\ Leave(s, "discarded", "done")

\* A throw in the setup of a resumed session: the reply becomes a trigger of its own.
ResumeThrows(s) ==
    /\ sess[s] = "building"
    /\ serving[s] # s
    /\ Leave(s, "discarded", "regrouping")

\* The agent reads what was steered, at a turn boundary.
ReadSteers(s) ==
    /\ sess[s] = "running"
    /\ \E u \in Triggers : stage[u] = "unread" /\ into[u] = s
    /\ stage' = [u \in Triggers |->
                   IF stage[u] = "unread" /\ into[u] = s THEN "read" ELSE stage[u]]
    /\ UNCHANGED <<coordinator, registry, via, into, records>>

\* spawn_session: the agent gives a co-reply it has read a session of its own.
SpinOff(t) ==
    /\ stage[t] = "read"
    /\ via[t] = "co-reply"
    /\ sess[into[t]] = "running"
    /\ stage' = [stage EXCEPT ![t] = "regrouping"]
    /\ into' = [into EXCEPT ![t] = t]
    /\ UNCHANGED <<coordinator, registry, via, records>>

\* The rollout has made its last check of the queue; the runner still has to take
\* the typing notice down.
RolloutEnds(s) ==
    /\ sess[s] = "running"
    /\ \A u \in Triggers : ~(stage[u] = "unread" /\ into[u] = s)
    /\ sess' = [sess EXCEPT ![s] = "ending"]
    /\ UNCHANGED <<coordinator, registry, stage, via, into, serving, window>>

\* The run promise resolves: completed, and the slot is released.
Complete(s) ==
    /\ sess[s] = "ending"
    /\ Leave(s, "completed", "done")

\* The run promise rejects; the transcript is flushed first ...
RunFails(s) ==
    /\ sess[s] = "running"
    /\ sess' = [sess EXCEPT ![s] = "failing"]
    /\ UNCHANGED <<coordinator, registry, stage, via, into, serving, window>>

\* ... then the session settles, and then its slot is released.
FailSettles(s) ==
    /\ sess[s] = "failing" /\ stage[s] # "recovering"
    /\ Evict(s, "failed")
    /\ stage' = Settled(s, "failed",
                        IF stage[serving[s]] = "unslotted" THEN "done" ELSE "closing")
    /\ UNCHANGED <<coordinator, via>>

\* A session an operator resumed is parked again, and its slot released with it.
RecoveryFails(s) ==
    /\ sess[s] \in {"building", "failing"} /\ stage[s] = "recovering"
    /\ Leave(s, "failed", "done")

Close(t) ==
    /\ stage[t] = "closing"
    /\ Drain([stage EXCEPT ![t] = "done"], sess, window)
    /\ UNCHANGED <<registry, into, records>>

\* interrupt(): an operator stops the run; what was steered is cleared.
Interrupt(s) ==
    /\ sess[s] = "running"
    /\ sess' = [sess EXCEPT ![s] = "interrupted"]
    /\ LET cleared(u) == stage[u] = "unread" /\ into[u] = s
       IN  /\ stage' = [u \in Triggers |-> IF cleared(u) THEN "dropped" ELSE stage[u]]
           /\ into' = [u \in Triggers |-> IF cleared(u) THEN u ELSE into[u]]
    /\ UNCHANGED <<coordinator, registry, via, serving, window>>

InterruptedSettles(s) ==
    /\ sess[s] = "interrupted"
    /\ Leave(s, "stopped", "done")

(***************************************************************************)
(* Revival.                                                                *)
(***************************************************************************)
\* The revival window closes (scheduleLateInputExpiry).
Expire(s) ==
    /\ s \in window
    /\ sess[s] = "completed"
    /\ window' = window \ {s}
    /\ UNCHANGED <<coordinator, registry, stage, via, into, sess, serving>>

\* revive() after its awaits: the session runs again with the messages it had not
\* read, in a slot if one is free; a session that is over gives them back.
Revive(s) ==
    LET late(u) == stage[u] = "reviving" /\ into[u] = s
    IN  /\ \E u \in Triggers : late(u)
        /\ \/ /\ s \in window
              /\ slots' = IF slots < Limit THEN slots + 1 ELSE slots
              /\ sess' = [sess EXCEPT ![s] = "running"]
              /\ serving' = [serving EXCEPT ![s] = s]
              /\ stage' = [u \in Triggers |->
                             IF late(u) THEN "read"
                             ELSE IF u # s THEN stage[u]
                             ELSE IF slots < Limit THEN "revived" ELSE "unslotted"]
              /\ via' = [u \in Triggers |-> IF late(u) THEN "revival" ELSE via[u]]
              /\ UNCHANGED <<queue, into, window>>
           \/ /\ s \notin window
              /\ stage' = [u \in Triggers |-> IF late(u) THEN "regrouping" ELSE stage[u]]
              /\ into' = [u \in Triggers |-> IF late(u) THEN u ELSE into[u]]
              /\ UNCHANGED <<coordinator, via, sess, serving, window>>
        /\ UNCHANGED registry

-----------------------------------------------------------------------------
Init ==
    /\ slots = 0 /\ queue = <<>>
    /\ claims = {}
    /\ older = [t \in Triggers |-> {}]
    /\ by = [t \in Triggers |-> None]
    /\ stage = [t \in Triggers |-> "unseen"]
    /\ via = [t \in Triggers |-> None]
    /\ into = [t \in Triggers |-> t]
    /\ sess = [s \in Triggers |-> "none"]
    /\ serving = [s \in Triggers |-> s]
    /\ window = {}

TriggerStep(t) ==
    \/ GroupResolved(t)
    \/ Regrouped(t)
    \/ Conditioned(t)
    \/ Register(t)
    \/ ResumeAwaited(t)
    \/ ResumeAccepted(t)
    \/ ResumeDeclined(t)
    \/ Close(t)

SessionStep(s) ==
    \/ GoLive(s)
    \/ BuildFails(s)
    \/ ReadSteers(s)
    \/ RolloutEnds(s)
    \/ RunFails(s)
    \/ Complete(s)
    \/ FailSettles(s)
    \/ RecoveryFails(s)
    \/ InterruptedSettles(s)
    \/ Revive(s)

Next ==
    \E t \in Triggers :
        \/ t \notin Proactive /\ (SteerReply(t) \/ Coalesce(t) \/ Spawn(t))
        \/ Post(t)
        \/ Recover(t)
        \/ TriggerStep(t)
        \/ LaunchThrows(t)
        \/ SpinOff(t)
        \/ SessionStep(t)
        \/ ResumeThrows(t)
        \/ Interrupt(t)
        \/ Expire(t)

Spec == Init /\ [][Next]_vars

\* What is awaited settles: a write, a download, a build, a run of the model (each
\* has a timeout or a budget).  No step of one trigger or session can starve another
\* for ever, so it is enough that some awaited thing settles whenever one can.
Fairness == WF_vars(\E t \in Triggers : TriggerStep(t) \/ SessionStep(t))

FairSpec == Spec /\ Fairness

-----------------------------------------------------------------------------
(***************************************************************************)
(* Properties.                                                             *)
(***************************************************************************)
Stages == Unattributed \cup Runs \cup {"unseen", "closing", "parked", "conditioning",
    "unread", "read", "reviving", "regrouping", "done", "dropped",
    "ignored", "lost", "leaked"}

\* The type invariant; the queue is never longer than max_queued_per_timeline.
TypeOK ==
    /\ slots \in Nat
    /\ queue \in Seq(Triggers) /\ Len(queue) <= MaxQueued
    /\ claims \subseteq Triggers
    /\ older \in [Triggers -> SUBSET Triggers]
    /\ by \in [Triggers -> Triggers \cup {None}]
    /\ stage \in [Triggers -> Stages]
    /\ via \in [Triggers -> {None, "inbound", "redispatch", "queue", "reply", "co-reply",
                             "revival"}]
    /\ into \in [Triggers -> Triggers]
    /\ sess \in [Triggers -> {"none", "building", "running", "ending", "failing",
                              "interrupted", "completed", "discarded", "failed", "stopped"}]
    /\ serving \in [Triggers -> Triggers]
    /\ window \subseteq Triggers

\* Triggers that occupy a slot of the timeline, given the stages.
HoldersIn(st) ==
    {t \in Triggers : st[t] \in (Unattributed \ {"queued"})
                                   \cup (Runs \ {"unslotted"}) \cup {"closing", "leaked"}}

\* Every slot belongs to exactly one trigger, from accept() to the end of its run, or to
\* one run of the proactive scheduler or of an operator: none is released twice and none
\* leaks, whatever path a launch, a run, a resume or a revival takes, but that of a
\* trigger some launch that threw has left behind; and no more run at once than
\* max_concurrent allows.
SlotAccounting == slots = Cardinality(HoldersIn(stage)) /\ slots <= Limit

\* A trigger waits in the queue only while every slot is taken: the slot that is
\* released goes to the head of the queue in the same step.
QueueMoves ==
    /\ queue # <<>> => slots = Limit
    /\ {t \in Triggers : stage[t] = "queued"} = ToSet(queue)

\* The claims are the triggers under way: an un-attributed claim is that of a trigger
\* still to be launched (or left behind by a launch that threw), an attributed one that
\* of a session in memory, which works for it.  A leaked claim would mark its message as
\* handled, and make later replies wait for a session that never comes.
ClaimsOwned ==
    /\ \A t \in claims :
        IF by[t] = None THEN stage[t] \in Unattributed \cup {"leaked"}
                        ELSE InMemory(sess, by[t]) /\ serving[by[t]] = t
    /\ \A t \in Triggers : stage[t] \in Unattributed \cup {"working"} => t \in claims

\* A launch that throws leaves no claim: "a leaked un-attributed claim can no longer
\* persist" (src/ARCHITECTURE.md).
NoClaimLeaks == \A t \in claims : stage[t] # "leaked"

\* A parked co-reply waits for a trigger that is still to be launched or whose session
\* is being built, so that it is steered in or dispatched again; only a launch that
\* throws strands it.
ParkedHaveOwner ==
    \A t \in Triggers : stage[t] = "parked" =>
        LET o == into[t]
        IN  \/ stage[o] \in Unattributed \cup {"lost", "leaked"}
            \/ \E s \in Triggers : sess[s] = "building" /\ serving[s] = o

\* A session is in the hands of one run at a time: it is neither resumed from the
\* database, by a reply or by an operator, while its agent may come back, nor revived
\* beside a resume.
OneRunPerSession ==
    [][\A s \in Triggers : InMemory(sess, s) /\ InMemory(sess', s)
            => /\ serving'[s] = serving[s]
               /\ sess'[s] = "building" => sess[s] = "building"]_vars

SameMessage(t, u) == ReplyTo[t] # None /\ ReplyTo[u] = ReplyTo[t] /\ Near(u, t)

Stopped(u) == by[u] # None /\ sess[by[u]] = "interrupted"

\* t arrives and gets a session of its own, although a trigger in one of the stages
\* "answering" replied to the same message.
Twin(t, answering) ==
    LET others == {u \in Triggers : SameMessage(t, u) /\ stage[u] \in answering}
    IN  /\ stage[t] = "unseen" /\ stage'[t] \in {"grouping", "queued"}
        /\ others # {}
        /\ \A u \in others : ~Stopped(u)

\* Two replies to the same message are not answered twice: one that arrives while
\* another's session is queued, launching, being built or live gets no session of its
\* own (an interrupted session, about to settle, is not waited for).
NoTwin == [][\A t \in Triggers : ~Twin(t, Unattributed \cup {"working"})]_vars

\* ... nor while another's session has been revived: "a reply that targets the same
\* message a running session's trigger replied to is steered into that session
\* instead of spawning a twin" (src/app.ts, handleInbound).
NoTwinOfRevived == [][\A t \in Triggers : ~Twin(t, Unattributed \cup Runs)]_vars

\* Every trigger that arrives comes to rest: answered by a session that settles,
\* refused by a full queue, or gone with a session that failed or was interrupted.
\* No chain of parking, re-dispatch, resume and revival loses it.
EveryTriggerSettles ==
    \A t \in Triggers : []<>(stage[t] \in {"unseen", "done", "dropped", "ignored"})
=============================================================================
