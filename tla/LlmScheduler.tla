---------------------------- MODULE LlmScheduler ----------------------------
(***************************************************************************)
(* The process-wide admission gate in front of every LLM request           *)
(* (src/agent/scheduler.ts).  A rate-limit group is one shared budget      *)
(* with a bounded number of slots and one priority queue; a model is one   *)
(* failure domain, healthy or unhealthy, and an unhealthy model is         *)
(* re-tested through a probe.                                              *)
(*                                                                         *)
(* One action is one run-to-completion turn of the event loop: a handler   *)
(* together with every pump it calls.  Time is abstracted to two facts,    *)
(* "the group's backoff window has not elapsed" and "the model's probe     *)
(* window is open", and to which timers are armed.                         *)
(***************************************************************************)
EXTENDS Integers, FiniteSets

CONSTANTS
    Callers,        \* sessions and fetch clients, one request at a time each
    Groups,         \* rate-limit groups, numbered in declaration order
    Models,         \* model health keys
    Keys,           \* escalation keys
    Shares,         \* names of capped shares
    None,           \* "no model", "no key", "no share"
    GroupOf, ModelOf, KeyOf, ShareOf, ClassOf,   \* what a caller asks for
    MaxInFlight,    \* max_in_flight of a group
    SharePercent,   \* a share's fraction, in percent
    Probing,        \* callers that register a background prober (agent path)
    Threshold,      \* recovery.llm_unhealthy_threshold
    BaseDelay,      \* probe backoff base, in units
    MaxDelay,       \* probe backoff cap, in units
    MaxBackground   \* bound: background probes of one model in flight at once

Ranks == 0..3       \* background_low, background, proactive, interactive

ASSUME CallersAssumption == IsFiniteSet(Callers)
ASSUME GroupsAssumption == Groups \subseteq Nat /\ IsFiniteSet(Groups)
ASSUME RequestAssumption ==
    /\ GroupOf \in [Callers -> Groups]
    /\ ModelOf \in [Callers -> Models \cup {None}]
    /\ KeyOf \in [Callers -> Keys \cup {None}]
    /\ ShareOf \in [Callers -> Shares \cup {None}]
    /\ ClassOf \in [Callers -> Ranks]
    /\ None \notin Models \cup Keys \cup Shares
ASSUME LimitsAssumption ==
    /\ MaxInFlight \in [Groups -> Nat \ {0}]
    /\ SharePercent \in [Shares -> 1..100]
    /\ Probing \subseteq {c \in Callers : ModelOf[c] # None}
    /\ Threshold \in Nat \ {0}
    /\ BaseDelay \in Nat \ {0}
    /\ MaxDelay \in Nat \ {0}
    /\ MaxBackground \in Nat \ {0}

VARIABLES
    req,        \* per caller: its queue or active entry
    group,      \* per group: GroupState
    health,     \* per model: ModelHealthState, its probe timer and prober calls
    sticky,     \* per key: the pinned rank, -1 for none
    probers,    \* models with a registered background prober
    stopped

vars == <<req, group, health, sticky, probers, stopped>>

(***************************************************************************)
(* State formulae.                                                         *)
(***************************************************************************)
Waiting(P, rq) == {c \in Callers : rq[c].status = "waiting" /\ GroupOf[c] \in P}

Holds(c, rq) == rq[c].status \in {"sending", "settled"}

\* activeEntries of a group.
ActiveIn(g, rq) == {c \in Callers : GroupOf[c] = g /\ Holds(c, rq)}

ShareHolders(sh, g, rq) == {c \in ActiveIn(g, rq) : ShareOf[c] = sh}

ShareCap(sh, g) ==
    LET slots == (MaxInFlight[g] * SharePercent[sh]) \div 100
    IN  IF slots < 1 THEN 1 ELSE slots

Gated(c, hl) == ModelOf[c] # None /\ hl[ModelOf[c]].state = "unhealthy"

\* modelAdmissible: an unhealthy model admits one request, once its window opens.
ModelAdmissible(c, hl) ==
    Gated(c, hl) => /\ ~hl[ModelOf[c]].probeInFlight
                    /\ hl[ModelOf[c]].windowOpen

\* Mutant: a plain FIFO, blind to the class.
Before_Fifo(d, c, rq) ==
    \/ GroupOf[d] < GroupOf[c]
    \/ GroupOf[d] = GroupOf[c] /\ d \in rq[c].older

\* Highest rank first, arrival order within a rank; groups pump in declaration order.
Before(d, c, rq) ==
    \/ GroupOf[d] < GroupOf[c]
    \/ /\ GroupOf[d] = GroupOf[c]
       /\ \/ rq[d].rank > rq[c].rank
          \/ rq[d].rank = rq[c].rank /\ d \in rq[c].older

Full(used, g) == used >= MaxInFlight[g]

\* Mutant: the share's cap is not checked.
SharesFit_Unchecked(mine, g, rq) == TRUE

\* No share gets more slots of the group than its cap.
SharesFit(mine, g, rq) ==
    \A sh \in Shares :
        LET more == {c \in mine : ShareOf[c] = sh}
        IN  more # {} => Cardinality(ShareHolders(sh, g, rq) \cup more) <= ShareCap(sh, g)

(***************************************************************************)
(* pump: the loop admits, one at a time, the first waiter that its model   *)
(* and its share let through.  S is the set it has admitted when it stops: *)
(* S fits, and whoever is left out was passed over because of entries      *)
(* before it.  Exactly one S satisfies both.                               *)
(***************************************************************************)
Fits(S, P, rq, gr, hl) ==
    /\ \A c \in S : ~gr[GroupOf[c]].backoff /\ ModelAdmissible(c, hl)
    /\ \A c, d \in S : Gated(c, hl) /\ ModelOf[c] = ModelOf[d] => c = d
    /\ \A g \in P :
        LET mine == {c \in S : GroupOf[c] = g}
        IN  /\ mine # {} => ~Full(gr[g].active + Cardinality(mine) - 1, g)
            /\ SharesFit(mine, g, rq)

PassedOver(c, S, rq, gr, hl) ==
    LET g == GroupOf[c]
        earlier == {d \in S : Before(d, c, rq)}
        mine == {d \in earlier : GroupOf[d] = g}
    IN  \/ gr[g].backoff
        \/ Full(gr[g].active + Cardinality(mine), g)
        \/ ~ModelAdmissible(c, hl)
        \/ Gated(c, hl) /\ \E d \in earlier : ModelOf[d] = ModelOf[c]
        \/ /\ ShareOf[c] # None
           /\ Cardinality(ShareHolders(ShareOf[c], g, rq)
                            \cup {d \in mine : ShareOf[d] = ShareOf[c]})
                >= ShareCap(ShareOf[c], g)

\* The timers the loop leaves armed when it returns (armBackoffTimer, armProbeTimer).
PumpedGroup(g, S, rq, gr, hl) ==
    LET mine == {c \in S : GroupOf[c] = g}
        left == Waiting({g}, rq) \ S
        used == gr[g].active + Cardinality(mine)
        probed(m) == hl[m].probeInFlight
                        \/ \E c \in S : ModelOf[c] = m /\ GroupOf[c] <= g
        stuck == left # {} /\ ~Full(used, g)
    IN  [gr[g] EXCEPT
            !.active = used,
            !.backoffTimer = @ \/ (stuck /\ gr[g].backoff),
            !.probeTimer = @ \/ /\ stuck
                                /\ ~gr[g].backoff
                                /\ \E c \in left : Gated(c, hl) /\ ~probed(ModelOf[c])]

PumpedReq(S, rq, hl) ==
    [c \in Callers |->
        IF c \in S
        THEN [status |-> "sending", rank |-> rq[c].rank, older |-> {},
              probe |-> Gated(c, hl), noted |-> FALSE]
        ELSE [rq[c] EXCEPT !.older = @ \ S]]

PumpedHealth(S, hl) ==
    [m \in Models |->
        [hl[m] EXCEPT !.probeInFlight = @ \/ \E c \in S : ModelOf[c] = m /\ Gated(c, hl)]]

\* The groups in P are pumped, in turn, from the entries, groups and health given.
Pump(P, rq, gr, hl) ==
    \E S \in SUBSET Waiting(P, rq) :
        /\ Fits(S, P, rq, gr, hl)
        /\ \A c \in Waiting(P, rq) \ S : PassedOver(c, S, rq, gr, hl)
        /\ req' = PumpedReq(S, rq, hl)
        /\ group' = [g \in Groups |-> IF g \in P THEN PumpedGroup(g, S, rq, gr, hl)
                                                 ELSE gr[g]]
        /\ health' = PumpedHealth(S, hl)

(***************************************************************************)
(* Health of one model.                                                    *)
(***************************************************************************)
HealthyModel == [state |-> "healthy", failures |-> 0, probeInFlight |-> FALSE,
                 windowOpen |-> TRUE, delay |-> BaseDelay, timer |-> FALSE,
                 background |-> 0]

\* Mutant: a settled probe does not re-arm the prober.
Armed_Never(m, h) == h

\* armBackgroundProbe
Armed(m, h) ==
    [h EXCEPT !.timer = @ \/ (~stopped /\ h.state = "unhealthy" /\ m \in probers)]

\* rescheduleProbe: the window closes for the current delay.
Rescheduled(m, h) == Armed(m, [h EXCEPT !.probeInFlight = FALSE, !.windowOpen = FALSE])

\* Mutant: the delay grows without its cap.
Doubled_Uncapped(d) == 2 * d

\* failProbe doubles the delay up to the cap.
Doubled(d) == IF 2 * d > MaxDelay THEN MaxDelay ELSE 2 * d

\* The streak is compared with the threshold only: it saturates there.
Counted(h) == IF h.failures < Threshold THEN h.failures + 1 ELSE Threshold

\* noteModelOutcome.  "ok": a clean success; "neutral": content, aborted,
\* refusal; "429"; "503" and "env": environmental failures.
Settled(m, h, outcome) ==
    CASE outcome = "ok" ->
            [h EXCEPT !.state = "healthy", !.failures = 0, !.probeInFlight = FALSE,
                      !.windowOpen = TRUE, !.delay = BaseDelay]
      [] outcome = "neutral" ->
            IF h.probeInFlight THEN Armed(m, [h EXCEPT !.probeInFlight = FALSE]) ELSE h
      [] outcome = "429" ->
            IF h.probeInFlight THEN Rescheduled(m, h) ELSE h
      [] outcome \in {"503", "env"} ->
            LET failed == [h EXCEPT !.failures = Counted(h)]
            IN  IF h.state = "unhealthy"
                THEN Rescheduled(m, [failed EXCEPT !.delay = Doubled(@)])
                ELSE IF failed.failures >= Threshold
                THEN Rescheduled(m, [failed EXCEPT !.state = "unhealthy", !.delay = BaseDelay])
                ELSE failed

Outcomes == {"ok", "neutral", "429", "503", "env"}

\* Mutant: the mass resume is forgotten.
Resumed_None(m, outcome) == {}

\* A recovered model's waiters may sit in any group: every group is pumped.
Resumed(m, outcome) ==
    IF outcome = "ok" /\ health[m].state = "unhealthy" THEN Groups ELSE {}

\* noteOutcome: a throttle response closes the group, then the model is settled.
NoteOutcome(c, outcome, rq) ==
    LET gr == IF outcome \in {"429", "503"}
              THEN [group EXCEPT ![GroupOf[c]].backoff = TRUE,
                                 ![GroupOf[c]].backoffTimer = TRUE]
              ELSE group
    IN  IF ModelOf[c] = None
        THEN Pump({}, rq, gr, health)
        ELSE Pump(Resumed(ModelOf[c], outcome), rq, gr,
                  [health EXCEPT ![ModelOf[c]] = Settled(ModelOf[c], @, outcome)])

(***************************************************************************)
(* Actions of the callers.                                                 *)
(***************************************************************************)
\* Mutant: an escalation recorded before the entry registers is not adopted.
StickyRank_Ignored(c) == -1

StickyRank(c) == IF KeyOf[c] = None THEN -1 ELSE sticky[KeyOf[c]]

\* Building an agent session's model chain registers the member's prober.
RegisterProber(c) ==
    /\ c \in Probing
    /\ LET m == ModelOf[c]
       IN  /\ m \notin probers
           /\ probers' = probers \cup {m}
           /\ health' = [health EXCEPT ![m].timer =
                           @ \/ (~stopped /\ health[m].state = "unhealthy")]
    /\ UNCHANGED <<req, group, sticky, stopped>>

\* acquire: the class is the larger of the requested and the pinned one.
Acquire(c) ==
    /\ ~stopped
    /\ req[c].status = "idle"
    /\ c \in Probing => ModelOf[c] \in probers
    /\ LET rank == IF StickyRank(c) > ClassOf[c] THEN StickyRank(c) ELSE ClassOf[c]
           entry == [status |-> "waiting", rank |-> rank,
                     older |-> Waiting({GroupOf[c]}, req),
                     probe |-> FALSE, noted |-> FALSE]
       IN  Pump({GroupOf[c]}, [req EXCEPT ![c] = entry], group, health)
    /\ UNCHANGED <<sticky, probers, stopped>>

IdleEntry(c) == [status |-> "idle", rank |-> ClassOf[c], older |-> {},
                 probe |-> FALSE, noted |-> FALSE]

Without(c, rq) == [d \in Callers |-> IF d = c THEN IdleEntry(c)
                                     ELSE [rq[d] EXCEPT !.older = @ \ {c}]]

\* The wait's abort signal fires: the entry leaves the queue.
AbortWait(c) ==
    /\ req[c].status = "waiting"
    /\ req' = Without(c, req)
    /\ UNCHANGED <<group, health, sticky, probers, stopped>>

\* onResponse: a throttle status seen at the HTTP layer, counted once.
Throttled(c, outcome) ==
    /\ req[c].status = "sending"
    /\ ~req[c].noted
    /\ NoteOutcome(c, outcome, [req EXCEPT ![c].noted = TRUE])
    /\ UNCHANGED <<sticky, probers, stopped>>

\* The terminal event (or the end of the stream, or a throw).  A clean done is
\* always noted, a failure only when the hook has not counted it already.
Finish(c, outcome) ==
    /\ req[c].status = "sending"
    /\ LET rq == [req EXCEPT ![c].status = "settled"]
       IN  IF req[c].noted /\ outcome # "ok"
           THEN Pump({}, rq, group, health)
           ELSE NoteOutcome(c, outcome, rq)
    /\ UNCHANGED <<sticky, probers, stopped>>

\* Mutant: no safety net on release.
StaleProbeSettled_Never(m, h) == h

\* settleStaleProbe
StaleProbeSettled(m, h) ==
    IF h.state = "unhealthy" /\ h.probeInFlight THEN Rescheduled(m, h) ELSE h

\* Mutant: the slot is not given back.
Freed_Leaks(g) == group

Freed(g) == [group EXCEPT ![g].active = @ - 1]

\* release(): from "sending" when a fetch client's abort skips noteOutcome.
Release(c) ==
    /\ Holds(c, req)
    /\ LET g == GroupOf[c]
           m == ModelOf[c]
           hl == IF req[c].probe THEN [health EXCEPT ![m] = StaleProbeSettled(m, @)]
                                 ELSE health
       IN  Pump({g}, Without(c, req), Freed(g), hl)
    /\ UNCHANGED <<sticky, probers, stopped>>

\* escalate: only ever raises; a waiting entry under the key is re-ranked in place.
Escalate(k, rank) ==
    LET pinned == IF rank > sticky[k] THEN rank ELSE sticky[k]
        raised == {c \in Waiting(Groups, req) : KeyOf[c] = k /\ req[c].rank < pinned}
    IN  /\ sticky' = [sticky EXCEPT ![k] = pinned]
        /\ Pump({GroupOf[c] : c \in raised},
                [c \in Callers |-> IF c \in raised THEN [req[c] EXCEPT !.rank = pinned]
                                                   ELSE req[c]],
                group, health)
        /\ UNCHANGED <<probers, stopped>>

ClearEscalation(k) ==
    /\ sticky[k] # -1
    /\ sticky' = [sticky EXCEPT ![k] = -1]
    /\ UNCHANGED <<req, group, health, probers, stopped>>

(***************************************************************************)
(* Time, timers and background probes.                                     *)
(***************************************************************************)
BackoffElapses(g) ==
    /\ group[g].backoff
    /\ group' = [group EXCEPT ![g].backoff = FALSE]
    /\ UNCHANGED <<req, health, sticky, probers, stopped>>

\* The backoff timer is re-armed whenever the window is extended.
BackoffTimerFires(g) ==
    /\ group[g].backoffTimer
    /\ ~group[g].backoff
    /\ Pump({g}, req, [group EXCEPT ![g].backoffTimer = FALSE], health)
    /\ UNCHANGED <<sticky, probers, stopped>>

WindowOpens(m) ==
    /\ ~health[m].windowOpen
    /\ health' = [health EXCEPT ![m].windowOpen = TRUE]
    /\ UNCHANGED <<req, group, sticky, probers, stopped>>

\* Mutant: the timer is dropped without a pump.
ProbeTimerFires_NoPump(g) ==
    /\ group[g].probeTimer
    /\ Pump({}, req, [group EXCEPT ![g].probeTimer = FALSE], health)
    /\ UNCHANGED <<sticky, probers, stopped>>

ProbeTimerFires(g) ==
    /\ group[g].probeTimer
    /\ Pump({g}, req, [group EXCEPT ![g].probeTimer = FALSE], health)
    /\ UNCHANGED <<sticky, probers, stopped>>

\* runBackgroundProbe up to its await: yields to a probe in flight, re-arms
\* when the window was pushed back, else takes the probe slot.
BackgroundProbeStarts(m) ==
    /\ health[m].timer
    /\ LET h == [health[m] EXCEPT !.timer = FALSE]
       IN  health' = [health EXCEPT ![m] =
             IF h.state = "healthy" \/ h.probeInFlight THEN h
             ELSE IF ~h.windowOpen THEN Armed(m, h)
             ELSE [h EXCEPT !.probeInFlight = TRUE, !.background = @ + 1]]
    /\ health[m].background < MaxBackground
    /\ UNCHANGED <<req, group, sticky, probers, stopped>>

\* ... and after it: a stopped scheduler ignores the answer.
BackgroundProbeSettles(m, outcome) ==
    /\ health[m].background > 0
    /\ LET h == [health EXCEPT ![m].background = @ - 1]
       IN  IF stopped
           THEN Pump({}, req, group, h)
           ELSE Pump(Resumed(m, outcome), req, group, [h EXCEPT ![m] = Settled(m, @, outcome)])
    /\ UNCHANGED <<sticky, probers, stopped>>

Stop ==
    /\ ~stopped
    /\ stopped' = TRUE
    /\ req' = [c \in Callers |-> IF req[c].status = "waiting" THEN IdleEntry(c) ELSE req[c]]
    /\ group' = [g \in Groups |-> [group[g] EXCEPT !.backoffTimer = FALSE,
                                                   !.probeTimer = FALSE]]
    /\ health' = [m \in Models |-> [health[m] EXCEPT !.timer = FALSE]]
    /\ UNCHANGED <<sticky, probers>>

-----------------------------------------------------------------------------
Init ==
    /\ req = [c \in Callers |-> IdleEntry(c)]
    /\ group = [g \in Groups |-> [active |-> 0, backoff |-> FALSE,
                                  backoffTimer |-> FALSE, probeTimer |-> FALSE]]
    /\ health = [m \in Models |-> HealthyModel]
    /\ sticky = [k \in Keys |-> -1]
    /\ probers = {}
    /\ stopped = FALSE

Next ==
    \/ \E c \in Callers : Acquire(c)
    \/ \E c \in Callers : AbortWait(c)
    \/ \E c \in Callers, outcome \in {"429", "503"} : Throttled(c, outcome)
    \/ \E c \in Callers, outcome \in Outcomes : Finish(c, outcome)
    \/ \E c \in Callers : Release(c)
    \/ \E k \in Keys, rank \in Ranks : Escalate(k, rank)
    \/ \E k \in Keys : ClearEscalation(k)
    \/ \E c \in Callers : RegisterProber(c)
    \/ \E g \in Groups : BackoffElapses(g)
    \/ \E g \in Groups : BackoffTimerFires(g)
    \/ \E m \in Models : WindowOpens(m)
    \/ \E g \in Groups : ProbeTimerFires(g)
    \/ \E m \in Models : BackgroundProbeStarts(m)
    \/ \E m \in Models, outcome \in {"ok", "429", "env"} : BackgroundProbeSettles(m, outcome)
    \/ Stop

Spec == Init /\ [][Next]_vars

\* Every request settles and is released (stall budget and HTTP timeouts end a
\* stream, release sits in a finally), time passes, and an armed timer fires.
Fairness ==
    /\ \A c \in Callers : WF_vars(Release(c) \/ \E outcome \in Outcomes : Finish(c, outcome))
    /\ \A g \in Groups : /\ WF_vars(BackoffElapses(g))
                         /\ WF_vars(BackoffTimerFires(g))
                         /\ WF_vars(ProbeTimerFires(g))
    /\ \A m \in Models : WF_vars(WindowOpens(m))

FairSpec == Spec /\ Fairness

-----------------------------------------------------------------------------
(***************************************************************************)
(* Properties.                                                             *)
(***************************************************************************)
EntryType == [status : {"idle", "waiting", "sending", "settled"}, rank : Ranks,
              older : SUBSET Callers, probe : BOOLEAN, noted : BOOLEAN]
\* A cap below the base shortens the delay.
LongestDelay == IF BaseDelay > MaxDelay THEN BaseDelay ELSE MaxDelay

GroupType == [active : Nat, backoff : BOOLEAN, backoffTimer : BOOLEAN,
              probeTimer : BOOLEAN]
HealthType == [state : {"healthy", "unhealthy"}, failures : 0..Threshold,
               probeInFlight : BOOLEAN, windowOpen : BOOLEAN,
               delay : 1..LongestDelay, timer : BOOLEAN, background : Nat]

\* The type invariant: the shape of the queue entries, group and health states.
TypeOK ==
    /\ req \in [Callers -> EntryType]
    /\ group \in [Groups -> GroupType]
    /\ health \in [Models -> HealthType]
    /\ sticky \in [Keys -> Ranks \cup {-1}]
    /\ probers \subseteq Models
    /\ stopped \in BOOLEAN

\* The slot counter that pump reads always equals the number of requests that
\* hold a slot, through every path a request can leave by (abort while waiting,
\* release after an outcome, release without one, stop).
SlotAccounting == \A g \in Groups : group[g].active = Cardinality(ActiveIn(g, req))

\* A group never has more requests outstanding than max_in_flight, nor a share
\* more than its cap, however many pumps a turn runs.
CapacityRespected ==
    \A g \in Groups :
        /\ Cardinality(ActiveIn(g, req)) <= MaxInFlight[g]
        /\ \A sh \in Shares : Cardinality(ShareHolders(sh, g, req)) <= ShareCap(sh, g)

ProbesOf(m, rq) == {c \in Callers : Holds(c, rq) /\ rq[c].probe /\ ModelOf[c] = m}

\* A model is never gated behind a probe nobody is running: while probeInFlight
\* is set, a live request admitted as the probe or a background probe is in
\* flight, and will clear it.  (Otherwise every waiter of the model would be
\* refused until restart, the failure settleStaleProbe exists for.)
ProbeOwned ==
    \A m \in Models : health[m].probeInFlight =>
        /\ health[m].state = "unhealthy"
        /\ stopped \/ ProbesOf(m, req) # {} \/ health[m].background > 0

\* An escalation is never lost, whether it came before the entry registered or
\* while it was waiting: a waiting entry ranks at least as high as its key.
EscalationHeld ==
    \A c \in Waiting(Groups, req) : KeyOf[c] # None => req[c].rank >= sticky[KeyOf[c]]

\* Work conservation: a waiter whose model is healthy is left waiting beside a
\* free slot only while the group's backoff timer is armed.  An outage of one
\* model therefore never blocks another model's waiters, and no recovery,
\* release or backoff forgets to pump.
WorkConserving ==
    \A c \in Waiting(Groups, req) :
        LET g == GroupOf[c]
            free == /\ Cardinality(ActiveIn(g, req)) < MaxInFlight[g]
                    /\ ShareOf[c] # None =>
                         Cardinality(ShareHolders(ShareOf[c], g, req)) < ShareCap(ShareOf[c], g)
        IN  ~Gated(c, health) /\ free => group[g].backoffTimer

\* No lost wakeup: for every waiter something is still to come that can admit
\* it.  A slot of its group is held (its release pumps), a timer of the group
\* is armed, a probe of its model is in flight ("blocked on in-flight probes,
\* their settle pumps", armProbeTimer), or its background prober is armed.
NoLostWakeup ==
    \A c \in Waiting(Groups, req) :
        LET g == GroupOf[c]
            m == ModelOf[c]
        IN  \/ ActiveIn(g, req) # {}
            \/ group[g].backoffTimer
            \/ group[g].probeTimer
            \/ /\ Gated(c, health)
               /\ \/ ProbesOf(m, req) # {}
                  \/ health[m].background > 0
                  \/ m \in probers /\ health[m].timer

\* Nobody jumps the queue: when d is admitted past an entry c of its group that
\* outranks it, or is older at the same rank, c was skipped because its model
\* is unhealthy or because its share is full.
NoQueueJump ==
    [][\A c, d \in Callers :
        (/\ GroupOf[c] = GroupOf[d]
         /\ req[c].status = "waiting" /\ req'[c].status = "waiting"
         /\ ~Holds(d, req) /\ Holds(d, req')
         /\ \/ req'[c].rank > req'[d].rank
            \/ /\ req'[c].rank = req'[d].rank
               /\ c \in req[d].older \/ req[d].status = "idle")
        => \/ Gated(c, health')
           \/ /\ ShareOf[c] # None
              /\ Cardinality(ShareHolders(ShareOf[c], GroupOf[c], req'))
                    >= ShareCap(ShareOf[c], GroupOf[c])]_vars

\* A caller of the top class whose model has no background prober is admitted,
\* or gives up, whatever the others do: through throttling, an outage of its
\* model and a full group.
InteractiveServed ==
    \A c \in Callers : ClassOf[c] = 3 /\ (\A d \in Probing : ModelOf[d] # ModelOf[c]) =>
        (req[c].status = "waiting" ~> req[c].status # "waiting")
=============================================================================
