------------------------- MODULE LlmSchedulerProofs -------------------------
(***************************************************************************)
(* Proofs about LlmScheduler, for every set of callers, groups and models  *)
(* and every limit.  Pump ends most actions, so what it preserves is       *)
(* proved once, for the intermediate entries, groups and health states it  *)
(* is given; each action then only accounts for what it does before it.    *)
(***************************************************************************)
EXTENDS LlmScheduler, FiniteSetTheorems, TLAPS

(***************************************************************************)
(* The conjuncts of the inductive invariant, as predicates on the three    *)
(* arguments of Pump.                                                      *)
(***************************************************************************)
Shaped(rq, gr, hl) ==
    /\ rq \in [Callers -> EntryType]
    /\ gr \in [Groups -> GroupType]
    /\ hl \in [Models -> HealthType]

Accounted(rq, gr) == \A g \in Groups : gr[g].active = Cardinality(ActiveIn(g, rq))

Within(rq) ==
    \A g \in Groups :
        /\ Cardinality(ActiveIn(g, rq)) <= MaxInFlight[g]
        /\ \A sh \in Shares : Cardinality(ShareHolders(sh, g, rq)) <= ShareCap(sh, g)

Owned(rq, hl, over) ==
    \A m \in Models : hl[m].probeInFlight =>
        /\ hl[m].state = "unhealthy"
        /\ over \/ ProbesOf(m, rq) # {} \/ hl[m].background > 0

-----------------------------------------------------------------------------
\* Every set of callers that occurs is finite.
LEMMA FiniteCallers ==
    ASSUME NEW T \in SUBSET Callers
    PROVE  IsFiniteSet(T) /\ Cardinality(T) \in Nat
BY CallersAssumption, FS_Subset, FS_CardinalityType

\* An entry after the pump: admitted, or what it was with fewer entries ahead.
LEMMA PumpedEntry ==
    ASSUME NEW rq \in [Callers -> EntryType], NEW hl, NEW S \in SUBSET Callers,
           NEW c \in Callers
    PROVE  /\ PumpedReq(S, rq, hl) \in [Callers -> EntryType]
           /\ PumpedReq(S, rq, hl)[c].status =
                IF c \in S THEN "sending" ELSE rq[c].status
           /\ PumpedReq(S, rq, hl)[c].probe =
                IF c \in S THEN Gated(c, hl) ELSE rq[c].probe
PROOF
  <1>1. ASSUME NEW x \in Callers
        PROVE  [rq[x] EXCEPT !.older = @ \ S] \in EntryType
    BY DEF EntryType
  <1>2. ASSUME NEW x \in Callers
        PROVE  [status |-> "sending", rank |-> rq[x].rank, older |-> {},
                probe |-> Gated(x, hl), noted |-> FALSE] \in EntryType
    BY DEF EntryType, Gated
  <1>3. PumpedReq(S, rq, hl) \in [Callers -> EntryType]
    BY <1>1, <1>2 DEF PumpedReq
  <1>4. CASE c \in S
    BY <1>3, <1>4 DEF PumpedReq
  <1>5. CASE c \notin S
    BY <1>3, <1>5 DEF PumpedReq, EntryType
  <1> QED
    BY <1>3, <1>4, <1>5

\* What pump admits, together with what held a slot before, holds one after.
LEMMA PumpHolders ==
    ASSUME NEW P \in SUBSET Groups, NEW rq \in [Callers -> EntryType], NEW hl,
           NEW S \in SUBSET Waiting(P, rq), NEW g \in Groups
    PROVE  /\ ActiveIn(g, PumpedReq(S, rq, hl))
                = ActiveIn(g, rq) \cup {c \in S : GroupOf[c] = g}
           /\ ActiveIn(g, rq) \cap {c \in S : GroupOf[c] = g} = {}
PROOF
  <1>0. S \subseteq Callers
    BY DEF Waiting
  <1>1. \A c \in Callers : Holds(c, PumpedReq(S, rq, hl)) <=> Holds(c, rq) \/ c \in S
    BY <1>0, PumpedEntry DEF Holds
  <1>2. \A c \in S : c \in Callers /\ ~Holds(c, rq)
    BY DEF Waiting, Holds
  <1> QED
    BY <1>1, <1>2 DEF ActiveIn

-----------------------------------------------------------------------------
\* The three results of a pump keep their types.
LEMMA PumpedHealthType ==
    ASSUME NEW hl \in [Models -> HealthType], NEW S
    PROVE  PumpedHealth(S, hl) \in [Models -> HealthType]
PROOF
  <1>1. ASSUME NEW m \in Models
        PROVE  [hl[m] EXCEPT !.probeInFlight =
                    @ \/ \E c \in S : ModelOf[c] = m /\ Gated(c, hl)] \in HealthType
    <2> DEFINE flag == hl[m].probeInFlight \/ \E c \in S : ModelOf[c] = m /\ Gated(c, hl)
    <2>1. flag \in BOOLEAN
      OBVIOUS
    <2> HIDE DEF flag
    <2>2. [hl[m] EXCEPT !.probeInFlight = flag] \in HealthType
      BY <2>1 DEF HealthType
    <2> QED
      BY <2>2 DEF flag
  <1> QED
    BY <1>1 DEF PumpedHealth

LEMMA PumpedGroupType ==
    ASSUME NEW rq, NEW gr \in [Groups -> GroupType], NEW hl, NEW g \in Groups,
           NEW S \in SUBSET Callers
    PROVE  /\ PumpedGroup(g, S, rq, gr, hl) \in GroupType
           /\ PumpedGroup(g, S, rq, gr, hl).active =
                gr[g].active + Cardinality({c \in S : GroupOf[c] = g})
PROOF
  <1> DEFINE used == gr[g].active + Cardinality({c \in S : GroupOf[c] = g})
             bt == PumpedGroup(g, S, rq, gr, hl).backoffTimer
             left == Waiting({g}, rq) \ S
             probed(m) == hl[m].probeInFlight
                            \/ \E c \in S : ModelOf[c] = m /\ GroupOf[c] <= g
             stuck == left # {} /\ ~Full(used, g)
             b == gr[g].backoffTimer \/ (stuck /\ gr[g].backoff)
             t == gr[g].probeTimer \/ /\ stuck
                                      /\ ~gr[g].backoff
                                      /\ \E c \in left : Gated(c, hl) /\ ~probed(ModelOf[c])
  <1>1. PumpedGroup(g, S, rq, gr, hl) =
          [gr[g] EXCEPT !.active = used, !.backoffTimer = b, !.probeTimer = t]
    BY DEF PumpedGroup
  <1>2. used \in Nat
    <2>1. {c \in S : GroupOf[c] = g} \in SUBSET Callers
      OBVIOUS
    <2> QED
      BY <2>1, FiniteCallers DEF GroupType
  <1>3. b \in BOOLEAN /\ t \in BOOLEAN
    OBVIOUS
  <1> HIDE DEF used, b, t
  <1>4. /\ [gr[g] EXCEPT !.active = used, !.backoffTimer = b, !.probeTimer = t] \in GroupType
        /\ [gr[g] EXCEPT !.active = used, !.backoffTimer = b, !.probeTimer = t].active = used
    BY <1>2, <1>3 DEF GroupType
  <1> QED
    BY <1>1, <1>4 DEF used

\* A pump keeps types.
LEMMA PumpShaped ==
    ASSUME NEW P \in SUBSET Groups, NEW rq, NEW gr, NEW hl, Shaped(rq, gr, hl),
           NEW S \in SUBSET Waiting(P, rq)
    PROVE  Shaped(PumpedReq(S, rq, hl),
                  [g \in Groups |-> IF g \in P THEN PumpedGroup(g, S, rq, gr, hl) ELSE gr[g]],
                  PumpedHealth(S, hl))
PROOF
  <1>1. S \in SUBSET Callers
    BY DEF Waiting
  <1>2. PumpedHealth(S, hl) \in [Models -> HealthType]
    BY PumpedHealthType DEF Shaped
  <1>3. \A g \in Groups : PumpedGroup(g, S, rq, gr, hl) \in GroupType
    BY <1>1, PumpedGroupType DEF Shaped
  <1>4. PumpedReq(S, rq, hl) \in [Callers -> EntryType]
    <2>1. CASE Callers = {}
      BY <2>1 DEF PumpedReq
    <2>2. CASE Callers # {}
      BY <2>2, <1>1, PumpedEntry DEF Shaped
    <2> QED
      BY <2>1, <2>2
  <1> QED
    BY <1>2, <1>3, <1>4 DEF Shaped

\* A pump keeps the slot counters equal to the slots held, and within the limits.
LEMMA PumpAccounted ==
    ASSUME NEW P \in SUBSET Groups, NEW rq, NEW gr, NEW hl, Shaped(rq, gr, hl),
           Accounted(rq, gr), Within(rq),
           NEW S \in SUBSET Waiting(P, rq), Fits(S, P, rq, gr, hl)
    PROVE  /\ Accounted(PumpedReq(S, rq, hl),
                        [g \in Groups |-> IF g \in P THEN PumpedGroup(g, S, rq, gr, hl)
                                                     ELSE gr[g]])
           /\ Within(PumpedReq(S, rq, hl))
PROOF
  <1> DEFINE rq2 == PumpedReq(S, rq, hl)
             Mine(g) == {c \in S : GroupOf[c] = g}
  <1>0. S \in SUBSET Callers
    BY DEF Waiting
  <1>1. ASSUME NEW g \in Groups
        PROVE  /\ ActiveIn(g, rq2) = ActiveIn(g, rq) \cup Mine(g)
               /\ Cardinality(ActiveIn(g, rq2)) = gr[g].active + Cardinality(Mine(g))
    <2>1. /\ ActiveIn(g, rq2) = ActiveIn(g, rq) \cup Mine(g)
          /\ ActiveIn(g, rq) \cap Mine(g) = {}
      BY PumpHolders DEF Shaped
    <2>2. ActiveIn(g, rq) \in SUBSET Callers /\ Mine(g) \in SUBSET Callers
      BY <1>0 DEF ActiveIn
    <2>3. IsFiniteSet(ActiveIn(g, rq)) /\ IsFiniteSet(Mine(g))
          /\ Cardinality(ActiveIn(g, rq)) \in Nat /\ Cardinality(Mine(g)) \in Nat
      BY <2>2, FiniteCallers
    <2>4. Cardinality(ActiveIn(g, rq) \cup Mine(g))
            = Cardinality(ActiveIn(g, rq)) + Cardinality(Mine(g)) - Cardinality({})
      BY <2>1, <2>3, FS_Union
    <2> QED
      BY <2>1, <2>3, <2>4, FS_EmptySet DEF Accounted
  <1>2. ASSUME NEW g \in Groups, g \notin P
        PROVE  Mine(g) = {}
    BY <1>2 DEF Waiting
  <1>3. ASSUME NEW g \in Groups
        PROVE  (IF g \in P THEN PumpedGroup(g, S, rq, gr, hl) ELSE gr[g]).active
                  = Cardinality(ActiveIn(g, rq2))
    <2>1. CASE g \in P
      <3>1. gr \in [Groups -> GroupType]
        BY DEF Shaped
      <3>2. PumpedGroup(g, S, rq, gr, hl).active = gr[g].active + Cardinality(Mine(g))
        BY <1>0, <3>1, PumpedGroupType
      <3> QED
        BY <2>1, <3>2, <1>1
    <2>2. CASE g \notin P
      <3>1. Mine(g) = {} /\ gr[g].active \in Nat
        BY <2>2, <1>2 DEF Shaped, GroupType
      <3> QED
        BY <2>2, <3>1, <1>1, FS_EmptySet
    <2> QED
      BY <2>1, <2>2
  <1>4. ASSUME NEW g \in Groups
        PROVE  Cardinality(ActiveIn(g, rq2)) <= MaxInFlight[g]
    <2>1. CASE Mine(g) = {}
      BY <2>1, <1>1 DEF Within
    <2>2. CASE Mine(g) # {}
      <3>1. g \in P
        BY <2>2, <1>2
      <3>2. ~Full(gr[g].active + Cardinality(Mine(g)) - 1, g)
        BY <2>2, <3>1 DEF Fits
      <3>3. gr[g].active \in Nat /\ Cardinality(Mine(g)) \in Nat /\ MaxInFlight[g] \in Nat
        <4>1. Mine(g) \in SUBSET Callers
          BY <1>0
        <4> QED
          BY <4>1, FiniteCallers, LimitsAssumption DEF Shaped, GroupType
      <3> QED
        BY <3>2, <3>3, <1>1 DEF Full
    <2> QED
      BY <2>1, <2>2
  <1>5. ASSUME NEW g \in Groups, NEW sh \in Shares
        PROVE  Cardinality(ShareHolders(sh, g, rq2)) <= ShareCap(sh, g)
    <2> DEFINE more == {c \in Mine(g) : ShareOf[c] = sh}
    <2>1. ShareHolders(sh, g, rq2) = ShareHolders(sh, g, rq) \cup more
      BY <1>1 DEF ShareHolders
    <2>2. CASE more = {}
      BY <2>1, <2>2 DEF Within
    <2>3. CASE more # {}
      <3>1. g \in P
        BY <2>3, <1>2
      <3> QED
        BY <2>1, <2>3, <3>1 DEF Fits, SharesFit
    <2> QED
      BY <2>2, <2>3
  <1> QED
    BY <1>3, <1>4, <1>5 DEF Accounted, Within

\* A pump that sets a probe flag has just admitted its owner.
LEMMA PumpOwned ==
    ASSUME NEW P \in SUBSET Groups, NEW rq, NEW gr, NEW hl, NEW over \in BOOLEAN,
           Shaped(rq, gr, hl), Owned(rq, hl, over),
           NEW S \in SUBSET Waiting(P, rq)
    PROVE  Owned(PumpedReq(S, rq, hl), PumpedHealth(S, hl), over)
PROOF
  <1> DEFINE rq2 == PumpedReq(S, rq, hl)
             hl2 == PumpedHealth(S, hl)
  <1>0. S \in SUBSET Callers
    BY DEF Waiting
  <1>1. ASSUME NEW m \in Models
        PROVE  /\ hl2[m].state = hl[m].state
               /\ hl2[m].background = hl[m].background
               /\ hl2[m].probeInFlight <=>
                    hl[m].probeInFlight \/ \E c \in S : ModelOf[c] = m /\ Gated(c, hl)
    BY DEF PumpedHealth, Shaped, HealthType
  <1>2. ASSUME NEW m \in Models
        PROVE  ProbesOf(m, rq) \subseteq ProbesOf(m, rq2)
    <2>1. \A c \in Callers : Holds(c, rq) => c \notin S
      BY DEF Holds, Waiting
    <2>2. \A c \in Callers : Holds(c, rq) => Holds(c, rq2) /\ rq2[c].probe = rq[c].probe
      BY <1>0, <2>1, PumpedEntry DEF Holds, Shaped
    <2> QED
      BY <2>2 DEF ProbesOf
  <1>3. ASSUME NEW m \in Models, NEW c \in S, ModelOf[c] = m, Gated(c, hl)
        PROVE  c \in ProbesOf(m, rq2) /\ hl[m].state = "unhealthy"
    <2>1. c \in Callers /\ rq2[c].status = "sending" /\ rq2[c].probe = Gated(c, hl)
      BY <1>0, PumpedEntry DEF Shaped
    <2> QED
      BY <1>3, <2>1 DEF ProbesOf, Holds, Gated
  <1> QED
    BY <1>1, <1>2, <1>3 DEF Owned

-----------------------------------------------------------------------------
\* The inductive invariant, on the arguments of Pump.
Good(rq, gr, hl, over) ==
    /\ Shaped(rq, gr, hl)
    /\ Accounted(rq, gr)
    /\ Within(rq)
    /\ Owned(rq, hl, over)

\* The inductive invariant of the scheduler.
IInv ==
    /\ Good(req, group, health, stopped)
    /\ sticky \in [Keys -> Ranks \cup {-1}]
    /\ probers \subseteq Models
    /\ stopped \in BOOLEAN

\* A pump from a good intermediate state leaves a good state.
LEMMA PumpGood ==
    ASSUME NEW STATE P, NEW STATE rq, NEW STATE gr, NEW STATE hl, P \in SUBSET Groups,
           stopped \in BOOLEAN, Good(rq, gr, hl, stopped), Pump(P, rq, gr, hl)
    PROVE  Good(req', group', health', stopped)
PROOF
  <1>1. PICK S \in SUBSET Waiting(P, rq) :
           /\ Fits(S, P, rq, gr, hl)
           /\ req' = PumpedReq(S, rq, hl)
           /\ group' = [g \in Groups |-> IF g \in P THEN PumpedGroup(g, S, rq, gr, hl)
                                                    ELSE gr[g]]
           /\ health' = PumpedHealth(S, hl)
    BY DEF Pump
  <1>2. Shaped(req', group', health')
    BY <1>1, PumpShaped DEF Good
  <1>3. Accounted(req', group') /\ Within(req')
    BY <1>1, PumpAccounted DEF Good
  <1>4. Owned(req', health', stopped)
    BY <1>1, PumpOwned DEF Good
  <1> QED
    BY <1>2, <1>3, <1>4 DEF Good

-----------------------------------------------------------------------------
(***************************************************************************)
(* What an action does before its pump.                                    *)
(***************************************************************************)
SameSlots(rq, rq2) ==
    \A d \in Callers : /\ Holds(d, rq2) <=> Holds(d, rq)
                       /\ Holds(d, rq) => rq2[d].probe = rq[d].probe

\* A health state that sets no flag, and drops no background probe under one.
NoNewFlag(hl, hl2) ==
    \A m \in Models : hl2[m].probeInFlight =>
        /\ hl[m].probeInFlight
        /\ hl2[m].state = hl[m].state
        /\ hl2[m].background = hl[m].background

\* Re-ranking, settling and timers move no slot: the state stays good.
LEMMA SameSlotsGood ==
    ASSUME NEW rq, NEW gr, NEW hl, NEW rq2, NEW gr2, NEW hl2, NEW over \in BOOLEAN,
           Good(rq, gr, hl, over), Shaped(rq2, gr2, hl2), SameSlots(rq, rq2),
           \A g \in Groups : gr2[g].active = gr[g].active,
           NoNewFlag(hl, hl2)
    PROVE  Good(rq2, gr2, hl2, over)
PROOF
  <1>1. \A g \in Groups : ActiveIn(g, rq2) = ActiveIn(g, rq)
    BY DEF SameSlots, ActiveIn
  <1>2. \A g \in Groups, sh \in Shares : ShareHolders(sh, g, rq2) = ShareHolders(sh, g, rq)
    BY <1>1 DEF ShareHolders
  <1>3. \A m \in Models : ProbesOf(m, rq2) = ProbesOf(m, rq)
    BY DEF SameSlots, ProbesOf
  <1>4. Accounted(rq2, gr2)
    BY <1>1 DEF Good, Accounted
  <1>5. Within(rq2)
    BY <1>1, <1>2 DEF Good, Within
  <1>6. Owned(rq2, hl2, over)
    BY <1>3 DEF Good, Owned, NoNewFlag
  <1> QED
    BY <1>4, <1>5, <1>6 DEF Good

\* The health operators keep the type.
LEMMA RescheduledType ==
    ASSUME NEW m \in Models, NEW h \in HealthType
    PROVE  /\ Rescheduled(m, h) \in HealthType
           /\ ~Rescheduled(m, h).probeInFlight
           /\ Rescheduled(m, h).state = h.state
           /\ Armed(m, h) \in HealthType
           /\ Armed(m, h).probeInFlight <=> h.probeInFlight
PROOF
  <1>1. ASSUME NEW k \in HealthType
        PROVE  /\ Armed(m, k) \in HealthType
               /\ Armed(m, k).probeInFlight <=> k.probeInFlight
               /\ Armed(m, k).state = k.state
    <2> DEFINE t == k.timer \/ (~stopped /\ k.state = "unhealthy" /\ m \in probers)
    <2>1. t \in BOOLEAN
      OBVIOUS
    <2>2. Armed(m, k) = [k EXCEPT !.timer = t]
      BY DEF Armed
    <2> HIDE DEF t
    <2> QED
      BY <2>1, <2>2 DEF HealthType
  <1> DEFINE k == [h EXCEPT !.probeInFlight = FALSE, !.windowOpen = FALSE]
  <1>2. k \in HealthType /\ ~k.probeInFlight /\ k.state = h.state
    BY DEF HealthType
  <1>3. Rescheduled(m, h) = Armed(m, k)
    BY DEF Rescheduled
  <1> HIDE DEF k
  <1> QED
    BY <1>1, <1>2, <1>3

\* Settling an outcome keeps the type and leaves no flag set.
LEMMA SettledType ==
    ASSUME NEW m \in Models, NEW h \in HealthType, NEW outcome \in Outcomes,
           h.probeInFlight => h.state = "unhealthy"
    PROVE  /\ Settled(m, h, outcome) \in HealthType
           /\ ~Settled(m, h, outcome).probeInFlight
PROOF
  <1>0. BaseDelay \in 1..LongestDelay /\ Threshold \in Nat
    BY LimitsAssumption DEF LongestDelay
  <1>1. CASE outcome = "ok"
    <2>1. Settled(m, h, outcome) =
            [h EXCEPT !.state = "healthy", !.failures = 0, !.probeInFlight = FALSE,
                      !.windowOpen = TRUE, !.delay = BaseDelay]
      BY <1>1 DEF Settled
    <2>2. 0 \in 0..Threshold
      BY <1>0
    <2>3. [h EXCEPT !.state = "healthy", !.failures = 0] \in HealthType
      BY <2>2 DEF HealthType
    <2>4. ASSUME NEW k \in HealthType
          PROVE  /\ [k EXCEPT !.probeInFlight = FALSE, !.windowOpen = TRUE,
                              !.delay = BaseDelay] \in HealthType
                 /\ ~[k EXCEPT !.probeInFlight = FALSE, !.windowOpen = TRUE,
                              !.delay = BaseDelay].probeInFlight
      BY <1>0 DEF HealthType
    <2>5. Settled(m, h, outcome) =
            [[h EXCEPT !.state = "healthy", !.failures = 0]
                EXCEPT !.probeInFlight = FALSE, !.windowOpen = TRUE, !.delay = BaseDelay]
      BY <2>1 DEF HealthType
    <2> QED
      BY <2>3, <2>4, <2>5
  <1>2. CASE outcome = "neutral"
    <2> DEFINE k == [h EXCEPT !.probeInFlight = FALSE]
    <2>1. k \in HealthType /\ ~k.probeInFlight
      BY DEF HealthType
    <2>2. Settled(m, h, outcome) = IF h.probeInFlight THEN Armed(m, k) ELSE h
      BY <1>2 DEF Settled
    <2>3. CASE h.probeInFlight
      <3>1. Settled(m, h, outcome) = Armed(m, k)
        BY <2>2, <2>3
      <3> HIDE DEF k
      <3> QED
        BY <2>1, <3>1, RescheduledType
    <2>4. CASE ~h.probeInFlight
      BY <2>2, <2>4
    <2> QED
      BY <2>3, <2>4
  <1>3. CASE outcome = "429"
    <2>1. Settled(m, h, outcome) = IF h.probeInFlight THEN Rescheduled(m, h) ELSE h
      BY <1>3 DEF Settled
    <2>2. CASE h.probeInFlight
      BY <2>1, <2>2, RescheduledType
    <2>3. CASE ~h.probeInFlight
      BY <2>1, <2>3
    <2> QED
      BY <2>2, <2>3
  <1>4. CASE outcome \in {"503", "env"}
    <2> DEFINE failed == [h EXCEPT !.failures = Counted(h)]
               grown == [failed EXCEPT !.delay = Doubled(@)]
               fresh == [failed EXCEPT !.state = "unhealthy", !.delay = BaseDelay]
    <2>1. Settled(m, h, outcome) =
            IF h.state = "unhealthy" THEN Rescheduled(m, grown)
            ELSE IF failed.failures >= Threshold THEN Rescheduled(m, fresh) ELSE failed
      BY <1>4 DEF Settled
    <2>2. Counted(h) \in 0..Threshold
      BY <1>0 DEF Counted, HealthType
    <2>3. failed \in HealthType /\ (failed.probeInFlight <=> h.probeInFlight)
      BY <2>2 DEF HealthType
    <2>4. \A d \in 1..LongestDelay : Doubled(d) \in 1..LongestDelay
      BY LimitsAssumption DEF Doubled, LongestDelay
    <2>5. grown \in HealthType
      <3>1. Doubled(h.delay) \in 1..LongestDelay
        BY <2>4 DEF HealthType
      <3>2. grown = [h EXCEPT !.failures = Counted(h), !.delay = Doubled(h.delay)]
        BY DEF HealthType
      <3> QED
        BY <3>1, <3>2, <2>2 DEF HealthType
    <2>6. fresh \in HealthType
      BY <1>0, <2>2 DEF HealthType
    <2> HIDE DEF failed, grown, fresh
    <2>7. CASE h.state = "unhealthy"
      <3>1. Settled(m, h, outcome) = Rescheduled(m, grown)
        BY <2>1, <2>7
      <3> QED
        BY <2>5, <3>1, RescheduledType
    <2>8. CASE h.state # "unhealthy" /\ failed.failures >= Threshold
      <3>1. Settled(m, h, outcome) = Rescheduled(m, fresh)
        BY <2>1, <2>8
      <3> QED
        BY <2>6, <3>1, RescheduledType
    <2>9. CASE h.state # "unhealthy" /\ ~(failed.failures >= Threshold)
      BY <2>1, <2>3, <2>9
    <2> QED
      BY <2>7, <2>8, <2>9
  <1> QED
    BY <1>1, <1>2, <1>3, <1>4 DEF Outcomes

-----------------------------------------------------------------------------
(***************************************************************************)
(* One lemma per action that is more than a timer.                         *)
(***************************************************************************)
\* A note from a caller whose slot does not move leaves a good state.
LEMMA NoteGood ==
    ASSUME NEW c \in Callers, NEW outcome \in Outcomes, NEW STATE rq, IInv,
           rq \in [Callers -> EntryType], SameSlots(req, rq),
           NoteOutcome(c, outcome, rq)
    PROVE  Good(req', group', health', stopped)
PROOF
  <1> DEFINE m == ModelOf[c]
             gr == IF outcome \in {"429", "503"}
                   THEN [group EXCEPT ![GroupOf[c]].backoff = TRUE,
                                      ![GroupOf[c]].backoffTimer = TRUE]
                   ELSE group
             hl == [health EXCEPT ![m] = Settled(m, @, outcome)]
  <1>0. /\ group \in [Groups -> GroupType] /\ health \in [Models -> HealthType]
        /\ Good(req, group, health, stopped) /\ stopped \in BOOLEAN
        /\ Owned(req, health, stopped)
    BY DEF IInv, Good, Shaped
  <1>1. gr \in [Groups -> GroupType] /\ \A g \in Groups : gr[g].active = group[g].active
    BY <1>0, ZenonT(60) DEF GroupType
  <1>2. CASE m = None
    <2>1. Pump({}, rq, gr, health)
      BY <1>2 DEF NoteOutcome
    <2>2. Shaped(rq, gr, health) /\ NoNewFlag(health, health)
      BY <1>0, <1>1 DEF Shaped, NoNewFlag
    <2> HIDE DEF gr
    <2>3. Good(rq, gr, health, stopped)
      BY <1>0, <1>1, <2>2, SameSlotsGood
    <2> QED
      BY <1>0, <2>1, <2>3, PumpGood
  <1>3. CASE m # None
    <2>1. m \in Models
      BY <1>3, RequestAssumption
    <2>2. Pump(Resumed(m, outcome), rq, gr, hl) /\ Resumed(m, outcome) \in SUBSET Groups
      BY <1>3 DEF NoteOutcome, Resumed
    <2>3. Settled(m, health[m], outcome) \in HealthType
          /\ ~Settled(m, health[m], outcome).probeInFlight
      BY <1>0, <2>1, SettledType DEF Owned
    <2>4. hl \in [Models -> HealthType] /\ NoNewFlag(health, hl)
      BY <1>0, <2>1, <2>3 DEF NoNewFlag
    <2>5. Shaped(rq, gr, hl)
      BY <1>1, <2>4 DEF Shaped
    <2> HIDE DEF gr, hl
    <2>6. Good(rq, gr, hl, stopped)
      BY <1>0, <1>1, <2>4, <2>5, SameSlotsGood
    <2> QED
      BY <1>0, <2>2, <2>6, PumpGood
  <1> QED
    BY <1>2, <1>3

\* A new entry, re-ranked entries: no slot moves before the pump.
LEMMA AcquireGood ==
    ASSUME NEW c \in Callers, IInv, Acquire(c)
    PROVE  Good(req', group', health', stopped)
PROOF
  <1> DEFINE rank == IF StickyRank(c) > ClassOf[c] THEN StickyRank(c) ELSE ClassOf[c]
             entry == [status |-> "waiting", rank |-> rank,
                       older |-> Waiting({GroupOf[c]}, req),
                       probe |-> FALSE, noted |-> FALSE]
             rq == [req EXCEPT ![c] = entry]
  <1>0. /\ req \in [Callers -> EntryType] /\ Shaped(req, group, health)
        /\ Good(req, group, health, stopped) /\ stopped \in BOOLEAN
    BY DEF IInv, Good, Shaped
  <1>1. rank \in Ranks
    <2>1. StickyRank(c) \in Ranks \cup {-1}
      BY RequestAssumption DEF IInv, StickyRank
    <2> QED
      BY <2>1, RequestAssumption DEF Ranks
  <1>2. entry \in EntryType
    BY <1>1 DEF EntryType, Waiting
  <1>3. rq \in [Callers -> EntryType]
    BY <1>0, <1>2
  <1>4. SameSlots(req, rq)
    BY <1>0 DEF Acquire, SameSlots, Holds
  <1>5. Shaped(rq, group, health) /\ NoNewFlag(health, health)
    BY <1>0, <1>3 DEF Shaped, NoNewFlag
  <1>6. Good(rq, group, health, stopped)
    BY <1>0, <1>4, <1>5, SameSlotsGood
  <1>7. Pump({GroupOf[c]}, rq, group, health) /\ {GroupOf[c]} \in SUBSET Groups
    BY RequestAssumption DEF Acquire
  <1> QED
    BY <1>0, <1>6, <1>7, PumpGood

LEMMA EscalateGood ==
    ASSUME NEW k \in Keys, NEW rank \in Ranks, IInv, Escalate(k, rank)
    PROVE  /\ Good(req', group', health', stopped)
           /\ sticky' \in [Keys -> Ranks \cup {-1}]
PROOF
  <1> DEFINE pinned == IF rank > sticky[k] THEN rank ELSE sticky[k]
             raised == {c \in Waiting(Groups, req) : KeyOf[c] = k /\ req[c].rank < pinned}
             rq == [c \in Callers |-> IF c \in raised THEN [req[c] EXCEPT !.rank = pinned]
                                                      ELSE req[c]]
  <1>0. /\ req \in [Callers -> EntryType] /\ Shaped(req, group, health)
        /\ Good(req, group, health, stopped) /\ stopped \in BOOLEAN
        /\ sticky \in [Keys -> Ranks \cup {-1}]
    BY DEF IInv, Good, Shaped
  <1>1. pinned \in Ranks
    BY <1>0 DEF Ranks
  <1>2. rq \in [Callers -> EntryType]
    BY <1>0, <1>1 DEF EntryType
  <1>3. SameSlots(req, rq)
    BY <1>0 DEF SameSlots, Holds, EntryType
  <1>4. Shaped(rq, group, health) /\ NoNewFlag(health, health)
    BY <1>0, <1>2 DEF Shaped, NoNewFlag
  <1>5. Good(rq, group, health, stopped)
    BY <1>0, <1>3, <1>4, SameSlotsGood
  <1>6. Pump({GroupOf[c] : c \in raised}, rq, group, health)
    BY DEF Escalate
  <1>7. {GroupOf[c] : c \in raised} \in SUBSET Groups
    BY RequestAssumption DEF Waiting
  <1>8. sticky' \in [Keys -> Ranks \cup {-1}]
    BY <1>0, <1>1 DEF Escalate
  <1> QED
    BY <1>0, <1>5, <1>6, <1>7, <1>8, PumpGood

\* Taking an entry out of the queue, or a request out of its slot.
LEMMA WithoutEntry ==
    ASSUME NEW c \in Callers, NEW rq \in [Callers -> EntryType]
    PROVE  /\ Without(c, rq) \in [Callers -> EntryType]
           /\ \A d \in Callers : /\ Holds(d, Without(c, rq)) <=> Holds(d, rq) /\ d # c
                                 /\ d # c => Without(c, rq)[d].probe = rq[d].probe
PROOF
  <1>1. IdleEntry(c) \in EntryType /\ IdleEntry(c).status = "idle"
    BY RequestAssumption DEF IdleEntry, EntryType
  <1>2. \A d \in Callers : [rq[d] EXCEPT !.older = @ \ {c}] \in EntryType
    BY DEF EntryType
  <1>3. \A d \in Callers : /\ [rq[d] EXCEPT !.older = @ \ {c}].status = rq[d].status
                           /\ [rq[d] EXCEPT !.older = @ \ {c}].probe = rq[d].probe
    BY DEF EntryType
  <1> QED
    BY <1>1, <1>2, <1>3 DEF Without, Holds

LEMMA ReleaseGood ==
    ASSUME NEW c \in Callers, IInv, Release(c)
    PROVE  Good(req', group', health', stopped)
PROOF
  <1> DEFINE h == GroupOf[c]
             m == ModelOf[c]
             rq == Without(c, req)
             gr == Freed(h)
             hl == IF req[c].probe THEN [health EXCEPT ![m] = StaleProbeSettled(m, @)]
                                   ELSE health
  <1>0. /\ req \in [Callers -> EntryType] /\ group \in [Groups -> GroupType]
        /\ health \in [Models -> HealthType] /\ stopped \in BOOLEAN
        /\ Accounted(req, group) /\ Within(req) /\ Owned(req, health, stopped)
        /\ h \in Groups
    BY RequestAssumption DEF IInv, Good, Shaped
  <1>1. rq \in [Callers -> EntryType]
        /\ \A d \in Callers : /\ Holds(d, rq) <=> Holds(d, req) /\ d # c
                              /\ d # c => rq[d].probe = req[d].probe
    BY <1>0, WithoutEntry
  <1>2. ASSUME NEW g \in Groups
        PROVE  /\ ActiveIn(g, rq) = ActiveIn(g, req) \ {c}
               /\ IsFiniteSet(ActiveIn(g, req))
               /\ Cardinality(ActiveIn(g, req)) \in Nat
               /\ Cardinality(ActiveIn(g, rq)) \in Nat
               /\ Cardinality(ActiveIn(g, rq)) =
                    IF g = h THEN Cardinality(ActiveIn(g, req)) - 1
                             ELSE Cardinality(ActiveIn(g, req))
    <2>1. ActiveIn(g, rq) = ActiveIn(g, req) \ {c}
      BY <1>1 DEF ActiveIn
    <2>2. ActiveIn(g, rq) \in SUBSET Callers /\ ActiveIn(g, req) \in SUBSET Callers
      BY DEF ActiveIn
    <2>3. /\ IsFiniteSet(ActiveIn(g, req)) /\ Cardinality(ActiveIn(g, req)) \in Nat
          /\ Cardinality(ActiveIn(g, rq)) \in Nat
      BY <2>2, FiniteCallers
    <2>4. c \in ActiveIn(g, req) <=> g = h
      BY DEF ActiveIn, Release
    <2> QED
      BY <2>1, <2>3, <2>4, FS_RemoveElement
  <1>3. gr \in [Groups -> GroupType] /\ Accounted(rq, gr)
    <2>1. \A g \in Groups : gr[g] = IF g = h THEN [group[g] EXCEPT !.active = @ - 1]
                                            ELSE group[g]
      BY <1>0 DEF Freed
    <2>2. group[h].active - 1 \in Nat
      BY <1>0, <1>2 DEF Accounted
    <2>3. gr \in [Groups -> GroupType]
      BY <1>0, <2>2 DEF Freed, GroupType
    <2>4. \A g \in Groups : gr[g].active = IF g = h THEN group[g].active - 1
                                                   ELSE group[g].active
      BY <1>0, <2>1 DEF GroupType
    <2> QED
      BY <1>0, <1>2, <2>3, <2>4 DEF Accounted
  <1>4. Within(rq)
    <2>1. ASSUME NEW g \in Groups
          PROVE  Cardinality(ActiveIn(g, rq)) <= MaxInFlight[g]
      BY <1>0, <1>2, LimitsAssumption DEF Within
    <2>2. ASSUME NEW g \in Groups, NEW sh \in Shares
          PROVE  Cardinality(ShareHolders(sh, g, rq)) <= ShareCap(sh, g)
      <3>1. ShareHolders(sh, g, rq) \in SUBSET ShareHolders(sh, g, req)
        BY <1>2 DEF ShareHolders
      <3>2. /\ ShareHolders(sh, g, req) \in SUBSET Callers
            /\ ShareHolders(sh, g, rq) \in SUBSET Callers
        BY DEF ShareHolders, ActiveIn
      <3>3. Cardinality(ShareHolders(sh, g, rq)) <= Cardinality(ShareHolders(sh, g, req))
        BY <3>1, <3>2, FiniteCallers, FS_Subset
      <3>4. /\ Cardinality(ShareHolders(sh, g, rq)) \in Nat
            /\ Cardinality(ShareHolders(sh, g, req)) \in Nat
            /\ Cardinality(ShareHolders(sh, g, req)) <= ShareCap(sh, g)
        BY <1>0, <3>2, FiniteCallers DEF Within
      <3>5. ShareCap(sh, g) \in Int
        BY LimitsAssumption DEF ShareCap
      <3> QED
        BY <3>3, <3>4, <3>5
    <2> QED
      BY <2>1, <2>2 DEF Within
  <1>5. hl \in [Models -> HealthType] /\ Owned(rq, hl, stopped)
    <2>1. CASE req[c].probe /\ m \in Models
      <3>1. /\ StaleProbeSettled(m, health[m]) \in HealthType
            /\ ~StaleProbeSettled(m, health[m]).probeInFlight
        <4>1. CASE health[m].state = "unhealthy" /\ health[m].probeInFlight
          <5>1. StaleProbeSettled(m, health[m]) = Rescheduled(m, health[m])
            BY <4>1 DEF StaleProbeSettled
          <5> QED
            BY <1>0, <2>1, <5>1, RescheduledType
        <4>2. CASE ~(health[m].state = "unhealthy" /\ health[m].probeInFlight)
          <5>1. StaleProbeSettled(m, health[m]) = health[m]
            BY <4>2 DEF StaleProbeSettled
          <5>2. ~health[m].probeInFlight
            BY <1>0, <2>1, <4>2 DEF Owned
          <5> QED
            BY <1>0, <2>1, <5>1, <5>2
        <4> QED
          BY <4>1, <4>2
      <3>2. hl \in [Models -> HealthType]
        BY <1>0, <2>1, <3>1
      <3>3. \A n \in Models \ {m} : hl[n] = health[n] /\ ProbesOf(n, req) = ProbesOf(n, rq)
        BY <1>0, <1>1, <2>1 DEF ProbesOf
      <3>4. ~hl[m].probeInFlight
        BY <1>0, <2>1, <3>1
      <3> QED
        BY <1>0, <3>2, <3>3, <3>4 DEF Owned
    <2>2. CASE ~(req[c].probe /\ m \in Models)
      <3>1. hl = health
        BY <1>0, <2>2
      <3>2. \A n \in Models : ProbesOf(n, req) = ProbesOf(n, rq)
        BY <1>1, <2>2 DEF ProbesOf
      <3> QED
        BY <1>0, <3>1, <3>2 DEF Owned
    <2> QED
      BY <2>1, <2>2
  <1>6. Good(rq, gr, hl, stopped)
    BY <1>1, <1>3, <1>4, <1>5 DEF Good, Shaped
  <1>7. Pump({h}, rq, gr, hl)
    BY DEF Release
  <1> QED
    BY <1>0, <1>6, <1>7, PumpGood

\* A handler that pumps with unchanged entries and the same counters.
LEMMA TimerGood ==
    ASSUME NEW STATE P, NEW STATE gr, NEW STATE hl, P \in SUBSET Groups, IInv,
           gr \in [Groups -> GroupType], hl \in [Models -> HealthType],
           \A g \in Groups : gr[g].active = group[g].active,
           NoNewFlag(health, hl), Pump(P, req, gr, hl)
    PROVE  Good(req', group', health', stopped)
PROOF
  <1>0. /\ Good(req, group, health, stopped) /\ stopped \in BOOLEAN
        /\ req \in [Callers -> EntryType]
    BY DEF IInv, Good, Shaped
  <1>1. Shaped(req, gr, hl) /\ SameSlots(req, req)
    BY <1>0 DEF Shaped, SameSlots
  <1>2. Good(req, gr, hl, stopped)
    BY <1>0, <1>1, SameSlotsGood
  <1> QED
    BY <1>0, <1>2, PumpGood

\* A background probe that starts owns the flag it sets; one that settles
\* clears the flag.
LEMMA BackgroundGood ==
    ASSUME NEW m \in Models, IInv
    PROVE  /\ BackgroundProbeStarts(m) => Good(req', group', health', stopped)
           /\ \A outcome \in {"ok", "429", "env"} :
                BackgroundProbeSettles(m, outcome) => Good(req', group', health', stopped)
PROOF
  <1>0. /\ Good(req, group, health, stopped) /\ stopped \in BOOLEAN
        /\ Shaped(req, group, health) /\ Accounted(req, group) /\ Within(req)
        /\ health \in [Models -> HealthType] /\ group \in [Groups -> GroupType]
        /\ Owned(req, health, stopped)
    BY DEF IInv, Good, Shaped
  <1>1. ASSUME BackgroundProbeStarts(m)
        PROVE  Good(req', group', health', stopped)
    <2> DEFINE h == [health[m] EXCEPT !.timer = FALSE]
               busy == [h EXCEPT !.probeInFlight = TRUE, !.background = @ + 1]
               h2 == IF h.state = "healthy" \/ h.probeInFlight THEN h
                     ELSE IF ~h.windowOpen THEN Armed(m, h) ELSE busy
    <2>1. /\ health' = [health EXCEPT ![m] = h2] /\ req' = req /\ group' = group
      BY <1>1 DEF BackgroundProbeStarts
    <2>2. h \in HealthType /\ h.state = health[m].state /\ h.background = health[m].background
          /\ (h.probeInFlight <=> health[m].probeInFlight)
      <3>1. ASSUME NEW k \in HealthType
            PROVE  /\ [k EXCEPT !.timer = FALSE] \in HealthType
                   /\ [k EXCEPT !.timer = FALSE].state = k.state
                   /\ [k EXCEPT !.timer = FALSE].background = k.background
                   /\ [k EXCEPT !.timer = FALSE].probeInFlight <=> k.probeInFlight
        BY DEF HealthType
      <3> QED
        BY <1>0, <3>1
    <2> HIDE DEF h
    <2>3. busy \in HealthType /\ busy.state = h.state /\ busy.background = h.background + 1
      <3>1. ASSUME NEW k \in HealthType, NEW n \in Nat
            PROVE  /\ [k EXCEPT !.probeInFlight = TRUE, !.background = n] \in HealthType
                   /\ [k EXCEPT !.probeInFlight = TRUE, !.background = n].state = k.state
                   /\ [k EXCEPT !.probeInFlight = TRUE, !.background = n].background = n
        BY DEF HealthType
      <3>2. h.background + 1 \in Nat
        BY <2>2 DEF HealthType
      <3> QED
        BY <2>2, <3>1, <3>2
    <2>4. /\ h2 \in HealthType
          /\ h2.probeInFlight =>
                h2.state = "unhealthy"
                /\ (stopped \/ ProbesOf(m, req) # {} \/ h2.background > 0)
      <3>1. CASE h.state = "healthy" \/ h.probeInFlight
        BY <1>0, <2>2, <3>1 DEF Owned
      <3>2. CASE ~(h.state = "healthy" \/ h.probeInFlight) /\ ~h.windowOpen
        <4>1. h2 = Armed(m, h)
          BY <3>2
        <4> QED
          BY <2>2, <3>2, <4>1, RescheduledType
      <3>3. CASE ~(h.state = "healthy" \/ h.probeInFlight) /\ h.windowOpen
        <4>1. h2 = busy
          BY <3>3
        <4>2. h.state = "unhealthy" /\ h.background \in Nat
          BY <2>2, <3>3 DEF HealthType
        <4> HIDE DEF busy
        <4>3. busy.background > 0
          BY <2>3, <4>2
        <4> HIDE DEF h2
        <4> QED
          BY <2>3, <4>1, <4>2, <4>3
      <3> QED
        BY <3>1, <3>2, <3>3
    <2> HIDE DEF h2
    <2>5. Shaped(req', group', health')
      BY <1>0, <2>1, <2>4 DEF Shaped
    <2>6. Owned(req', health', stopped)
      BY <1>0, <2>1, <2>4 DEF Owned
    <2> QED
      BY <1>0, <2>1, <2>5, <2>6 DEF Good
  <1>2. ASSUME NEW outcome \in {"ok", "429", "env"}, BackgroundProbeSettles(m, outcome)
        PROVE  Good(req', group', health', stopped)
    <2> DEFINE h == [health EXCEPT ![m].background = @ - 1]
               hl == [h EXCEPT ![m] = Settled(m, @, outcome)]
    <2>1. h[m] \in HealthType /\ h[m].state = health[m].state
          /\ (h[m].probeInFlight <=> health[m].probeInFlight)
          /\ h \in [Models -> HealthType] /\ \A n \in Models \ {m} : h[n] = health[n]
      <3> DEFINE less == [health[m] EXCEPT !.background = @ - 1]
      <3>1. health[m].background - 1 \in Nat
        BY <1>0, <1>2 DEF BackgroundProbeSettles, HealthType
      <3>2. less \in HealthType /\ less.state = health[m].state
            /\ (less.probeInFlight <=> health[m].probeInFlight)
        BY <1>0, <3>1 DEF HealthType
      <3>3. h = [health EXCEPT ![m] = less]
        BY <1>0
      <3> HIDE DEF less
      <3> QED
        BY <1>0, <3>2, <3>3
    <2>2. CASE stopped
      <3>1. Pump({}, req, group, h)
        BY <1>2, <2>2 DEF BackgroundProbeSettles
      <3>2. Shaped(req, group, h)
        BY <1>0, <2>1 DEF Shaped
      <3>3. Owned(req, h, stopped)
        BY <1>0, <2>1, <2>2 DEF Owned
      <3>4. Good(req, group, h, stopped)
        BY <1>0, <3>2, <3>3 DEF Good
      <3> QED
        BY <1>0, <3>1, <3>4, PumpGood
    <2>3. CASE ~stopped
      <3>1. Pump(Resumed(m, outcome), req, group, hl)
            /\ Resumed(m, outcome) \in SUBSET Groups
        BY <1>2, <2>3 DEF BackgroundProbeSettles, Resumed
      <3>2. Settled(m, h[m], outcome) \in HealthType
            /\ ~Settled(m, h[m], outcome).probeInFlight
        <4>1. outcome \in Outcomes /\ (h[m].probeInFlight => h[m].state = "unhealthy")
          BY <1>0, <2>1 DEF Owned, Outcomes
        <4> QED
          BY <2>1, <4>1, SettledType
      <3>3. hl \in [Models -> HealthType] /\ NoNewFlag(health, hl)
        BY <1>0, <2>1, <3>2 DEF NoNewFlag
      <3> HIDE DEF hl
      <3> QED
        BY <1>0, <3>1, <3>3, TimerGood
    <2> QED
      BY <2>2, <2>3
  <1> QED
    BY <1>1, <1>2

-----------------------------------------------------------------------------
(***************************************************************************)
(* The invariant.                                                          *)
(***************************************************************************)
LEMMA InitGood == Init => IInv
PROOF
  <1> SUFFICES ASSUME Init
               PROVE  IInv
    OBVIOUS
  <1>1. \A c \in Callers : IdleEntry(c) \in EntryType /\ IdleEntry(c).status = "idle"
    BY RequestAssumption DEF IdleEntry, EntryType
  <1>2. req \in [Callers -> EntryType] /\ \A c \in Callers : ~Holds(c, req)
    BY <1>1 DEF Init, Holds
  <1>3. HealthyModel \in HealthType /\ ~HealthyModel.probeInFlight
    BY LimitsAssumption DEF HealthyModel, HealthType, LongestDelay
  <1>4. Shaped(req, group, health)
    BY <1>2, <1>3 DEF Init, Shaped, GroupType
  <1>5. /\ \A g \in Groups : ActiveIn(g, req) = {}
        /\ \A g \in Groups, sh \in Shares : ShareHolders(sh, g, req) = {}
    BY <1>2 DEF ActiveIn, ShareHolders
  <1>6. Accounted(req, group)
    BY <1>5, FS_EmptySet DEF Init, Accounted
  <1>7. Within(req)
    <2>1. \A g \in Groups, sh \in Shares : ShareCap(sh, g) \in Int /\ ShareCap(sh, g) >= 1
      BY LimitsAssumption DEF ShareCap
    <2>2. \A g \in Groups : MaxInFlight[g] \in Int /\ MaxInFlight[g] >= 1
      BY LimitsAssumption
    <2>3. Cardinality({}) = 0
      BY FS_EmptySet
    <2>4. ASSUME NEW g \in Groups PROVE Cardinality(ActiveIn(g, req)) <= MaxInFlight[g]
      <3>1. Cardinality(ActiveIn(g, req)) = 0
        BY <1>5, <2>3, Zenon
      <3> QED
        BY <3>1, <2>2
    <2>5. ASSUME NEW g \in Groups, NEW sh \in Shares
          PROVE  Cardinality(ShareHolders(sh, g, req)) <= ShareCap(sh, g)
      <3>1. Cardinality(ShareHolders(sh, g, req)) = 0
        BY <1>5, <2>3, Zenon
      <3> QED
        BY <3>1, <2>1
    <2> QED
      BY <2>4, <2>5 DEF Within
  <1>8. Owned(req, health, stopped)
    BY <1>3 DEF Init, Owned
  <1> QED
    BY <1>4, <1>6, <1>7, <1>8 DEF Init, IInv, Good

\* Every step keeps the inductive invariant.
LEMMA NextGood == IInv /\ [Next]_vars => IInv'
PROOF
  <1> SUFFICES ASSUME IInv, [Next]_vars
               PROVE  IInv'
    OBVIOUS
  <1>0. /\ Good(req, group, health, stopped) /\ Shaped(req, group, health)
        /\ req \in [Callers -> EntryType] /\ group \in [Groups -> GroupType]
        /\ health \in [Models -> HealthType]
        /\ Accounted(req, group) /\ Within(req) /\ Owned(req, health, stopped)
        /\ sticky \in [Keys -> Ranks \cup {-1}] /\ probers \subseteq Models
        /\ stopped \in BOOLEAN
    BY DEF IInv, Good, Shaped
  <1>1. ASSUME Good(req', group', health', stopped), sticky' = sticky,
               probers' = probers, stopped' = stopped
        PROVE  IInv'
    BY <1>0, <1>1 DEF IInv
  <1>2. ASSUME NEW c \in Callers, Acquire(c)
        PROVE  IInv'
    BY <1>1, <1>2, AcquireGood DEF Acquire
  <1>3. ASSUME NEW c \in Callers, AbortWait(c)
        PROVE  IInv'
    <2>1. Without(c, req) \in [Callers -> EntryType] /\ SameSlots(req, Without(c, req))
      BY <1>0, <1>3, WithoutEntry DEF AbortWait, SameSlots, Holds
    <2>2. Shaped(Without(c, req), group, health) /\ NoNewFlag(health, health)
      BY <1>0, <2>1 DEF Shaped, NoNewFlag
    <2>3. Good(Without(c, req), group, health, stopped)
      BY <1>0, <2>1, <2>2, SameSlotsGood
    <2> QED
      BY <1>1, <1>3, <2>3 DEF AbortWait
  <1>4. ASSUME NEW c \in Callers, NEW outcome \in {"429", "503"}, Throttled(c, outcome)
        PROVE  IInv'
    <2> DEFINE rq == [req EXCEPT ![c].noted = TRUE]
    <2>1. rq \in [Callers -> EntryType] /\ SameSlots(req, rq)
      <3>1. ASSUME NEW e \in EntryType
            PROVE  /\ [e EXCEPT !.noted = TRUE] \in EntryType
                   /\ [e EXCEPT !.noted = TRUE].status = e.status
                   /\ [e EXCEPT !.noted = TRUE].probe = e.probe
        BY DEF EntryType
      <3> QED
        BY <1>0, <3>1 DEF SameSlots, Holds
    <2>2. NoteOutcome(c, outcome, rq) /\ outcome \in Outcomes
      BY <1>4 DEF Throttled, Outcomes
    <2> HIDE DEF rq
    <2>3. Good(req', group', health', stopped)
      BY <2>1, <2>2, NoteGood
    <2> QED
      BY <1>1, <1>4, <2>3 DEF Throttled
  <1>5. ASSUME NEW c \in Callers, NEW outcome \in Outcomes, Finish(c, outcome)
        PROVE  IInv'
    <2> DEFINE rq == [req EXCEPT ![c].status = "settled"]
    <2>1. rq \in [Callers -> EntryType] /\ SameSlots(req, rq)
      BY <1>0, <1>5 DEF Finish, SameSlots, Holds, EntryType
    <2>2. Pump({}, rq, group, health) \/ NoteOutcome(c, outcome, rq)
      BY <1>5 DEF Finish
    <2>3. Shaped(rq, group, health) /\ NoNewFlag(health, health)
      BY <1>0, <2>1 DEF Shaped, NoNewFlag
    <2> HIDE DEF rq
    <2>4. Good(rq, group, health, stopped)
      BY <1>0, <2>1, <2>3, SameSlotsGood
    <2>5. Good(req', group', health', stopped)
      BY <1>0, <2>1, <2>2, <2>4, NoteGood, PumpGood
    <2> QED
      BY <1>1, <1>5, <2>5 DEF Finish
  <1>6. ASSUME NEW c \in Callers, Release(c)
        PROVE  IInv'
    BY <1>1, <1>6, ReleaseGood DEF Release
  <1>7. ASSUME NEW k \in Keys, NEW rank \in Ranks, Escalate(k, rank)
        PROVE  IInv'
    <2>1. probers' = probers /\ stopped' = stopped
      BY <1>7 DEF Escalate
    <2> QED
      BY <1>0, <1>7, <2>1, EscalateGood DEF IInv
  <1>8. ASSUME NEW k \in Keys, ClearEscalation(k)
        PROVE  IInv'
    BY <1>0, <1>8 DEF ClearEscalation, IInv
  <1>9. ASSUME NEW c \in Callers, RegisterProber(c)
        PROVE  IInv'
    <2> DEFINE m == ModelOf[c]
               t == health[m].timer \/ (~stopped /\ health[m].state = "unhealthy")
    <2>1. m \in Models
      BY <1>9, RequestAssumption, LimitsAssumption DEF RegisterProber
    <2>2. t \in BOOLEAN
      OBVIOUS
    <2>3. /\ health' = [health EXCEPT ![m].timer = t] /\ probers' = probers \cup {m}
          /\ UNCHANGED <<req, group, sticky, stopped>>
      BY <1>9 DEF RegisterProber
    <2> HIDE DEF t
    <2>4. health' \in [Models -> HealthType]
      BY <1>0, <2>1, <2>2, <2>3 DEF HealthType
    <2>5. \A n \in Models : /\ health'[n].probeInFlight <=> health[n].probeInFlight
                            /\ health'[n].state = health[n].state
                            /\ health'[n].background = health[n].background
      BY <1>0, <2>1, <2>3 DEF HealthType
    <2>6. Owned(req', health', stopped)
      BY <1>0, <2>3, <2>5 DEF Owned
    <2>7. Good(req', group', health', stopped)
      BY <1>0, <2>3, <2>4, <2>6 DEF Good, Shaped
    <2> QED
      BY <1>0, <2>1, <2>3, <2>7 DEF IInv
  <1>10. ASSUME NEW g \in Groups,
                BackoffElapses(g) \/ BackoffTimerFires(g) \/ ProbeTimerFires(g)
         PROVE  IInv'
    <2>1. CASE BackoffElapses(g)
      <3>1. group' \in [Groups -> GroupType]
            /\ \A x \in Groups : group'[x].active = group[x].active
        BY <1>0, <2>1 DEF BackoffElapses, GroupType
      <3>2. Good(req', group', health', stopped)
        BY <1>0, <2>1, <3>1 DEF BackoffElapses, Good, Shaped, Accounted
      <3> QED
        BY <1>1, <2>1, <3>2 DEF BackoffElapses
    <2>2. CASE BackoffTimerFires(g)
      <3> DEFINE gr == [group EXCEPT ![g].backoffTimer = FALSE]
      <3>1. gr \in [Groups -> GroupType] /\ \A x \in Groups : gr[x].active = group[x].active
        BY <1>0 DEF GroupType
      <3>2. Pump({g}, req, gr, health) /\ NoNewFlag(health, health)
        BY <2>2 DEF BackoffTimerFires, NoNewFlag
      <3> HIDE DEF gr
      <3>3. Good(req', group', health', stopped)
        BY <1>0, <3>1, <3>2, TimerGood
      <3> QED
        BY <1>1, <2>2, <3>3 DEF BackoffTimerFires
    <2>3. CASE ProbeTimerFires(g)
      <3> DEFINE gr == [group EXCEPT ![g].probeTimer = FALSE]
      <3>1. gr \in [Groups -> GroupType] /\ \A x \in Groups : gr[x].active = group[x].active
        BY <1>0 DEF GroupType
      <3>2. Pump({g}, req, gr, health) /\ NoNewFlag(health, health)
        BY <2>3 DEF ProbeTimerFires, NoNewFlag
      <3> HIDE DEF gr
      <3>3. Good(req', group', health', stopped)
        BY <1>0, <3>1, <3>2, TimerGood
      <3> QED
        BY <1>1, <2>3, <3>3 DEF ProbeTimerFires
    <2> QED
      BY <1>10, <2>1, <2>2, <2>3
  <1>11. ASSUME NEW m \in Models, WindowOpens(m)
         PROVE  IInv'
    <2>1. /\ health' \in [Models -> HealthType]
          /\ \A n \in Models : /\ health'[n].probeInFlight <=> health[n].probeInFlight
                               /\ health'[n].state = health[n].state
                               /\ health'[n].background = health[n].background
      BY <1>0, <1>11, ZenonT(60) DEF WindowOpens, HealthType
    <2>2. Owned(req', health', stopped)
      BY <1>0, <1>11, <2>1 DEF WindowOpens, Owned
    <2>3. Good(req', group', health', stopped)
      BY <1>0, <1>11, <2>1, <2>2 DEF WindowOpens, Good, Shaped
    <2> QED
      BY <1>1, <1>11, <2>3 DEF WindowOpens
  <1>12. ASSUME NEW m \in Models, BackgroundProbeStarts(m)
         PROVE  IInv'
    BY <1>1, <1>12, BackgroundGood DEF BackgroundProbeStarts
  <1>13. ASSUME NEW m \in Models, NEW outcome \in {"ok", "429", "env"},
                BackgroundProbeSettles(m, outcome)
         PROVE  IInv'
    BY <1>1, <1>13, BackgroundGood DEF BackgroundProbeSettles
  <1>14. ASSUME Stop
         PROVE  IInv'
    <2>1. \A c \in Callers : IdleEntry(c) \in EntryType /\ IdleEntry(c).status = "idle"
      BY RequestAssumption DEF IdleEntry, EntryType
    <2>2. req' \in [Callers -> EntryType]
      BY <1>0, <1>14, <2>1 DEF Stop
    <2>3. \A c \in Callers : Holds(c, req') <=> Holds(c, req)
      BY <1>0, <1>14, <2>1 DEF Stop, Holds
    <2>4. group' \in [Groups -> GroupType] /\ \A g \in Groups : group'[g].active = group[g].active
      BY <1>0, <1>14 DEF Stop, GroupType
    <2>5. /\ health' \in [Models -> HealthType]
          /\ \A n \in Models : /\ health'[n].probeInFlight <=> health[n].probeInFlight
                               /\ health'[n].state = health[n].state
      BY <1>0, <1>14 DEF Stop, HealthType
    <2>6. \A g \in Groups : ActiveIn(g, req') = ActiveIn(g, req)
      BY <2>3 DEF ActiveIn
    <2>7. Accounted(req', group')
      BY <1>0, <2>4, <2>6 DEF Accounted
    <2>8. Within(req')
      BY <1>0, <2>6 DEF Within, ShareHolders
    <2>9. Owned(req', health', stopped')
      BY <1>0, <1>14, <2>5 DEF Stop, Owned
    <2> QED
      BY <1>0, <1>14, <2>2, <2>4, <2>5, <2>7, <2>8, <2>9 DEF Stop, IInv, Good, Shaped
  <1>15. CASE UNCHANGED vars
    BY <1>0, <1>15 DEF vars, IInv
  <1> QED
    BY <1>2, <1>3, <1>4, <1>5, <1>6, <1>7, <1>8, <1>9, <1>10, <1>11, <1>12, <1>13,
       <1>14, <1>15 DEF Next

\* The inductive invariant holds throughout every behaviour.
THEOREM Invariant == Spec => []IInv
  <1> QED
    BY InitGood, NextGood, PTL DEF Spec

\* The queue entries, groups and health states keep their types.
THEOREM TypeCorrect == Spec => []TypeOK
PROOF
  <1>1. IInv => TypeOK
    BY DEF IInv, Good, Shaped, TypeOK
  <1> QED
    BY <1>1, Invariant, PTL

\* The slot counter never drifts from the slots held: for any callers, groups
\* and limits, and through aborts, releases without an outcome, and stop.
THEOREM SlotsAccounted == Spec => []SlotAccounting
PROOF
  <1>1. IInv => SlotAccounting
    BY DEF IInv, Good, Accounted, SlotAccounting
  <1> QED
    BY <1>1, Invariant, PTL

\* No group exceeds max_in_flight and no share its cap.
THEOREM NeverOverCapacity == Spec => []CapacityRespected
PROOF
  <1>1. IInv => CapacityRespected
    BY DEF IInv, Good, Within, CapacityRespected
  <1> QED
    BY <1>1, Invariant, PTL

\* A set probe flag always has a probe in flight that will clear it.
THEOREM NeverGatedByNobody == Spec => []ProbeOwned
PROOF
  <1>1. IInv => ProbeOwned
    BY DEF IInv, Good, Owned, ProbeOwned
  <1> QED
    BY <1>1, Invariant, PTL

-----------------------------------------------------------------------------
(***************************************************************************)
(* The waiters.  A second invariant, inductive beside the first: the order *)
(* of the entries, their ranks, and what is still to come for each.        *)
(***************************************************************************)
\* Who is ahead of an entry at its rank: entries that wait, and not behind it.
Ordered(rq) ==
    \A c \in Callers :
        /\ rq[c].status # "waiting" => rq[c].older = {}
        /\ \A d \in rq[c].older : d \in Waiting(Groups, rq) /\ c \notin rq[d].older

Ranked(rq, st) ==
    \A c \in Waiting(Groups, rq) : KeyOf[c] # None => rq[c].rank >= st[KeyOf[c]]

\* The background probers: an unhealthy model that has one is due for a probe or under one.
ProbedBy(m, h, pr, over) ==
    /\ h.timer \/ h.background > 0 => m \in pr
    /\ m \in pr /\ h.state = "unhealthy" /\ ~over => h.timer \/ h.probeInFlight

Probed(hl, pr, over) == \A m \in Models : ProbedBy(m, hl[m], pr, over)

\* Nobody waits for a stopped scheduler, nor before its prober is registered.
Admitted(rq, pr, over) ==
    \A c \in Waiting(Groups, rq) : ~over /\ (c \in Probing => ModelOf[c] \in pr)

Free(c, rq) ==
    /\ Cardinality(ActiveIn(GroupOf[c], rq)) < MaxInFlight[GroupOf[c]]
    /\ ShareOf[c] # None =>
         Cardinality(ShareHolders(ShareOf[c], GroupOf[c], rq)) < ShareCap(ShareOf[c], GroupOf[c])

Blocked(c, rq, gr, hl) == ~Gated(c, hl) /\ Free(c, rq) => gr[GroupOf[c]].backoffTimer

\* A model is used from one group, unless those who use it register a background prober.
OneGroupUnlessProbed ==
    \A c, d \in Callers :
        ModelOf[c] # None /\ ModelOf[d] = ModelOf[c] /\ c \notin Probing => GroupOf[d] = GroupOf[c]

Awake(c, rq, gr, hl, pr) ==
    \/ ActiveIn(GroupOf[c], rq) # {}
    \/ gr[GroupOf[c]].backoffTimer
    \/ gr[GroupOf[c]].probeTimer
    \/ Gated(c, hl) /\ ModelOf[c] \in pr

WaitersSound ==
    /\ Ordered(req)
    /\ Ranked(req, sticky)
    /\ Probed(health, probers, stopped)
    /\ Admitted(req, probers, stopped)
    /\ \A c \in Waiting(Groups, req) : Blocked(c, req, group, health)
    /\ OneGroupUnlessProbed =>
        \A c \in Waiting(Groups, req) : Awake(c, req, group, health, probers)

\* A turn of the event loop up to its pump: what it leaves of the waiters' invariant for
\* the groups it pumps, and untouched for the others.  (A turn that pumps nothing pumps
\* no group.)
Prepared(P, rq, gr, hl) ==
    /\ P \in SUBSET Groups /\ Shaped(rq, gr, hl) /\ Pump(P, rq, gr, hl)
    /\ Ordered(rq) /\ Ranked(rq, sticky') /\ Probed(hl, probers', stopped')
    /\ Admitted(rq, probers', stopped') /\ probers \subseteq probers'
    /\ \A c \in Waiting(Groups, rq) : GroupOf[c] \notin P =>
        /\ c \in Waiting(Groups, req)
        /\ ActiveIn(GroupOf[c], rq) = ActiveIn(GroupOf[c], req)
        /\ group[GroupOf[c]].backoffTimer => gr[GroupOf[c]].backoffTimer
        /\ group[GroupOf[c]].probeTimer => gr[GroupOf[c]].probeTimer
        /\ Gated(c, health) => Gated(c, hl)
    /\ \A c \in Callers : Holds(c, rq) => Holds(c, req)
    /\ \A c \in Waiting(Groups, rq) :
        c \in Waiting(Groups, req) => rq[c].older \subseteq req[c].older

\* A turn without a pump.
LEMMA PumpNone ==
    ASSUME NEW rq, NEW gr, NEW hl, Shaped(rq, gr, hl),
           req' = rq, group' = gr, health' = hl
    PROVE  Pump({}, rq, gr, hl)
PROOF
  <1>1. Waiting({}, rq) = {}
    BY DEF Waiting
  <1>2. PumpedReq({}, rq, hl) = rq
    <2>1. \A c \in Callers : [rq[c] EXCEPT !.older = @ \ {}] = rq[c]
      BY DEF Shaped, EntryType
    <2> QED
      BY <2>1 DEF PumpedReq, Shaped
  <1>3. PumpedHealth({}, hl) = hl
    <2>1. ASSUME NEW m \in Models
          PROVE  [hl[m] EXCEPT !.probeInFlight =
                    @ \/ \E c \in {} : ModelOf[c] = m /\ Gated(c, hl)] = hl[m]
      <3>1. (hl[m].probeInFlight \/ \E c \in {} : ModelOf[c] = m /\ Gated(c, hl))
                = hl[m].probeInFlight
        BY DEF Shaped, HealthType
      <3> QED
        BY <3>1 DEF Shaped, HealthType
    <2> QED
      BY <2>1 DEF PumpedHealth, Shaped
  <1>4. [g \in Groups |-> IF g \in {} THEN PumpedGroup(g, {}, rq, gr, hl) ELSE gr[g]] = gr
    BY DEF Shaped
  <1>5. Fits({}, {}, rq, gr, hl)
    BY DEF Fits
  <1> QED
    BY <1>1, <1>2, <1>3, <1>4, <1>5 DEF Pump

\* The entries after a pump that admits S.
LEMMA PumpedWaiters ==
    ASSUME NEW rq \in [Callers -> EntryType], NEW hl, NEW S \in SUBSET Callers, NEW c \in Callers
    PROVE  /\ PumpedReq(S, rq, hl)[c].rank = rq[c].rank
           /\ c \in S => PumpedReq(S, rq, hl)[c].older = {}
           /\ c \notin S => PumpedReq(S, rq, hl)[c].older = rq[c].older \ S
           /\ c \in Waiting(Groups, PumpedReq(S, rq, hl))
                <=> c \in Waiting(Groups, rq) /\ c \notin S
PROOF
  <1>1. CASE c \in S
    BY <1>1, PumpedEntry DEF PumpedReq, Waiting
  <1>2. CASE c \notin S
    <2>1. PumpedReq(S, rq, hl)[c] = [rq[c] EXCEPT !.older = @ \ S]
      BY <1>2 DEF PumpedReq
    <2>2. rq[c] \in EntryType
      OBVIOUS
    <2>3. /\ PumpedReq(S, rq, hl)[c].rank = rq[c].rank
          /\ PumpedReq(S, rq, hl)[c].older = rq[c].older \ S
      BY <2>1, <2>2 DEF EntryType
    <2> QED
      BY <1>2, <2>3, PumpedEntry DEF Waiting
  <1> QED
    BY <1>1, <1>2

LEMMA PumpOrdered ==
    ASSUME NEW rq \in [Callers -> EntryType], NEW hl, NEW S \in SUBSET Callers, Ordered(rq)
    PROVE  Ordered(PumpedReq(S, rq, hl))
PROOF
  <1> DEFINE rq2 == PumpedReq(S, rq, hl)
  <1>1. \A c \in Callers : rq[c].older \subseteq Callers
    BY DEF EntryType
  <1>2. ASSUME NEW c \in Callers
        PROVE  /\ c \in S => rq2[c].older = {}
               /\ c \notin S => rq2[c].older = rq[c].older \ S
               /\ c \in Waiting(Groups, rq2) <=> c \in Waiting(Groups, rq) /\ c \notin S
               /\ rq2[c].status = IF c \in S THEN "sending" ELSE rq[c].status
    <2>1. rq2[c].status = IF c \in S THEN "sending" ELSE rq[c].status
      BY PumpedEntry
    <2>2. /\ c \in S => rq2[c].older = {}
          /\ c \notin S => rq2[c].older = rq[c].older \ S
          /\ c \in Waiting(Groups, rq2) <=> c \in Waiting(Groups, rq) /\ c \notin S
      BY PumpedWaiters
    <2> QED
      BY <2>1, <2>2
  <1> HIDE DEF rq2
  <1>3. ASSUME NEW c \in Callers
        PROVE  /\ rq2[c].status # "waiting" => rq2[c].older = {}
               /\ \A d \in rq2[c].older : d \in Waiting(Groups, rq2) /\ c \notin rq2[d].older
    <2>1. rq2[c].status # "waiting" => rq2[c].older = {}
      <3>1. CASE c \in S
        BY <1>2, <3>1
      <3>2. CASE c \notin S
        BY <1>2, <3>2 DEF Ordered
      <3> QED
        BY <3>1, <3>2
    <2>2. ASSUME NEW d \in rq2[c].older
          PROVE  d \in Waiting(Groups, rq2) /\ c \notin rq2[d].older
      <3>1. d \in rq[c].older /\ d \notin S /\ d \in Callers
        BY <1>1, <1>2
      <3>2. d \in Waiting(Groups, rq) /\ c \notin rq[d].older
        BY <3>1 DEF Ordered
      <3> QED
        BY <1>2, <3>1, <3>2
    <2> QED
      BY <2>1, <2>2
  <1>4. Ordered(rq2)
    BY <1>3 DEF Ordered
  <1> QED
    BY <1>4 DEF rq2

\* The timers a pump leaves armed for an entry c that it leaves waiting in a group with a
\* free slot.
LEMMA PumpedTimers ==
    ASSUME NEW rq, NEW gr \in [Groups -> GroupType], NEW hl, NEW g \in Groups,
           NEW S \in SUBSET Callers, NEW c \in Waiting({g}, rq) \ S,
           NEW new, new = PumpedGroup(g, S, rq, gr, hl)
    PROVE  /\ gr[g].backoffTimer => new.backoffTimer
           /\ gr[g].probeTimer => new.probeTimer
           /\ ~Full(new.active, g) /\ gr[g].backoff => new.backoffTimer
           /\ /\ ~Full(new.active, g) /\ ~gr[g].backoff
              /\ Gated(c, hl) /\ ~hl[ModelOf[c]].probeInFlight
              /\ \A d \in S : ModelOf[d] # ModelOf[c]
              => new.probeTimer
PROOF
  <1> DEFINE used == gr[g].active + Cardinality({d \in S : GroupOf[d] = g})
             left == Waiting({g}, rq) \ S
             probed(m) == hl[m].probeInFlight \/ \E d \in S : ModelOf[d] = m /\ GroupOf[d] <= g
             stuck == left # {} /\ ~Full(used, g)
             bt == gr[g].backoffTimer \/ (stuck /\ gr[g].backoff)
             pt == gr[g].probeTimer \/ /\ stuck
                                       /\ ~gr[g].backoff
                                       /\ \E d \in left : Gated(d, hl) /\ ~probed(ModelOf[d])
  <1>1. new = [gr[g] EXCEPT !.active = used, !.backoffTimer = bt, !.probeTimer = pt]
    BY DEF PumpedGroup
  <1>2. bt \in BOOLEAN /\ pt \in BOOLEAN
    OBVIOUS
  <1>3. (gr[g].backoffTimer => bt) /\ (gr[g].probeTimer => pt) /\ c \in left
    OBVIOUS
  <1>4. ~Full(used, g) /\ gr[g].backoff => bt
    BY <1>3
  <1>5. /\ ~Full(used, g) /\ ~gr[g].backoff
        /\ Gated(c, hl) /\ ~hl[ModelOf[c]].probeInFlight
        /\ \A d \in S : ModelOf[d] # ModelOf[c]
        => pt
    BY <1>3
  <1> HIDE DEF used, bt, pt
  <1>6. new.active = used /\ new.backoffTimer = bt /\ new.probeTimer = pt
    BY <1>1 DEF GroupType
  <1> QED
    BY <1>3, <1>4, <1>5, <1>6

\* An entry the pump passes over: no free slot for it, a timer armed, a gated model; and
\* something to come that will admit it.
LEMMA LeftWaiting ==
    ASSUME IInv', NEW P \in SUBSET Groups, NEW rq, NEW gr, NEW hl, Shaped(rq, gr, hl),
           NEW S \in SUBSET Waiting(P, rq), Fits(S, P, rq, gr, hl),
           req' = PumpedReq(S, rq, hl),
           group' = [g \in Groups |-> IF g \in P THEN PumpedGroup(g, S, rq, gr, hl)
                                                 ELSE gr[g]],
           health' = PumpedHealth(S, hl),
           Probed(hl, probers', stopped'), Admitted(rq, probers', stopped'),
           NEW c \in Waiting(P, rq) \ S, PassedOver(c, S, rq, gr, hl)
    PROVE  /\ Blocked(c, req', group', health')
           /\ OneGroupUnlessProbed => Awake(c, req', group', health', probers')
PROOF
  <1> DEFINE g == GroupOf[c]
             m == ModelOf[c]
             Sg == {e \in S : GroupOf[e] = g}
             used == group'[g].active
  <1>0. /\ c \in Callers /\ g \in Groups /\ g \in P /\ S \in SUBSET Callers
        /\ c \in Waiting({g}, rq) \ S /\ c \in Waiting(Groups, rq)
        /\ rq \in [Callers -> EntryType] /\ gr \in [Groups -> GroupType]
        /\ hl \in [Models -> HealthType]
    BY RequestAssumption DEF Waiting, Shaped
  <1>1. /\ ActiveIn(g, req') = ActiveIn(g, rq) \cup Sg
    BY <1>0, PumpHolders
  <1>2. /\ group'[g] = PumpedGroup(g, S, rq, gr, hl)
        /\ used = gr[g].active + Cardinality(Sg)
    <2>1. group'[g] = PumpedGroup(g, S, rq, gr, hl)
      BY <1>0
    <2> HIDE DEF g
    <2>2. PumpedGroup(g, S, rq, gr, hl).active
            = gr[g].active + Cardinality({e \in S : GroupOf[e] = g})
      BY <1>0, PumpedGroupType
    <2> QED
      BY <2>1, <2>2
  <1>3. used = Cardinality(ActiveIn(g, req')) /\ used \in Nat
    <2>1. Accounted(req', group')
      BY DEF IInv, Good
    <2>2. ActiveIn(g, req') \in SUBSET Callers
      BY DEF ActiveIn
    <2> QED
      BY <1>0, <2>1, <2>2, FiniteCallers DEF Accounted
  <1>4. MaxInFlight[g] \in Nat \ {0}
    BY <1>0, LimitsAssumption
  <1>5. /\ Gated(c, health') <=> Gated(c, hl)
        /\ \A n \in Models : /\ health'[n].state = hl[n].state
                             /\ health'[n].background = hl[n].background
                             /\ hl[n].probeInFlight => health'[n].probeInFlight
    <2>1. \A n \in Models : /\ health'[n].state = hl[n].state
                            /\ health'[n].background = hl[n].background
                            /\ hl[n].probeInFlight => health'[n].probeInFlight
      BY <1>0 DEF PumpedHealth, HealthType
    <2> QED
      BY <1>0, <2>1, RequestAssumption DEF Gated
  <1> HIDE DEF used
  <1>6. CASE Full(used, g)
    <2>1. ~Free(c, req')
      BY <1>3, <1>4, <1>6 DEF Full, Free
    <2>2. ActiveIn(g, req') # {}
      BY <1>3, <1>4, <1>6, FS_EmptySet DEF Full
    <2> QED
      BY <2>1, <2>2 DEF Blocked, Awake
  <1>7. CASE gr[g].backoff /\ ~Full(used, g)
    <2>1. group'[g].backoffTimer
      BY <1>0, <1>2, <1>7, PumpedTimers DEF used
    <2> QED
      BY <2>1 DEF Blocked, Awake
  <1>8. ASSUME Gated(c, hl), m \in probers'
        PROVE  Blocked(c, req', group', health') /\ Awake(c, req', group', health', probers')
    BY <1>5, <1>8 DEF Blocked, Awake
  <1>9. ASSUME OneGroupUnlessProbed, m \notin probers', NEW e \in Callers, ModelOf[e] = m,
               m # None
        PROVE  GroupOf[e] = g
    <2>1. c \notin Probing
      BY <1>0, <1>9 DEF Admitted
    <2> QED
      BY <1>0, <1>9, <2>1 DEF OneGroupUnlessProbed
  <1>10. ASSUME OneGroupUnlessProbed, Gated(c, hl), NEW d \in S, ModelOf[d] = m
         PROVE  Awake(c, req', group', health', probers')
    <2>1. CASE m \in probers'
      BY <1>8, <1>10, <2>1
    <2>2. CASE m \notin probers'
      <3>1. d \in Sg
        BY <1>0, <1>9, <1>10, <2>2 DEF Gated
      <3> QED
        BY <1>1, <3>1 DEF Awake
    <2> QED
      BY <2>1, <2>2
  <1>11. ASSUME Gated(c, hl) PROVE Blocked(c, req', group', health')
    BY <1>5, <1>11 DEF Blocked
  <1>12. CASE ~ModelAdmissible(c, hl) /\ ~Full(used, g) /\ ~gr[g].backoff
    <2>1. Gated(c, hl) /\ m \in Models /\ m # None
          /\ (hl[m].probeInFlight \/ ~hl[m].windowOpen)
      BY <1>0, <1>12, RequestAssumption DEF ModelAdmissible, Gated
    <2>2. ASSUME OneGroupUnlessProbed, m \notin probers', hl[m].probeInFlight
          PROVE  Awake(c, req', group', health', probers')
      <3>1. health'[m].probeInFlight /\ ~(health'[m].background > 0)
        BY <1>5, <2>1, <2>2 DEF Probed, ProbedBy
      <3>2. ~stopped'
        BY <1>0 DEF Admitted
      <3>3. ProbesOf(m, req') # {}
        BY <2>1, <3>1, <3>2 DEF IInv, Good, Owned
      <3>4. PICK e \in Callers : Holds(e, req') /\ ModelOf[e] = m
        BY <3>3 DEF ProbesOf
      <3>5. GroupOf[e] = g
        BY <1>9, <2>1, <2>2, <3>4
      <3> QED
        BY <3>4, <3>5 DEF Awake, ActiveIn
    <2>3. ASSUME ~hl[m].probeInFlight, OneGroupUnlessProbed
          PROVE  Awake(c, req', group', health', probers')
      <3>1. CASE \E d \in S : ModelOf[d] = m
        BY <1>10, <2>1, <2>3, <3>1
      <3>2. CASE \A d \in S : ModelOf[d] # m
        <4>1. group'[g].probeTimer
          BY <1>0, <1>2, <1>12, <2>1, <2>3, <3>2, PumpedTimers DEF used
        <4> QED
          BY <4>1 DEF Awake
      <3> QED
        BY <3>1, <3>2
    <2> QED
      BY <1>8, <1>11, <2>1, <2>2, <2>3
  <1>13. CASE Gated(c, hl) /\ \E d \in S : ModelOf[d] = m
    BY <1>10, <1>11, <1>13
  <1>14. ASSUME NEW mine \in SUBSET Sg, Full(gr[g].active + Cardinality(mine), g)
         PROVE  Full(used, g)
    <2>1. Sg \in SUBSET Callers /\ IsFiniteSet(Sg) /\ Cardinality(Sg) \in Nat
      BY <1>0, FiniteCallers
    <2>2. Cardinality(mine) <= Cardinality(Sg) /\ Cardinality(mine) \in Nat
      <3>1. mine \in SUBSET Callers
        BY <2>1
      <3> QED
        BY <2>1, <3>1, FS_Subset, FiniteCallers
    <2>3. gr[g].active \in Nat
      BY <1>0 DEF GroupType
    <2> QED
      BY <1>2, <1>4, <1>14, <2>1, <2>2, <2>3 DEF Full
  <1>15. ASSUME ShareOf[c] # None, NEW mine \in SUBSET Sg,
                Cardinality(ShareHolders(ShareOf[c], g, rq)
                              \cup {d \in mine : ShareOf[d] = ShareOf[c]})
                    >= ShareCap(ShareOf[c], g)
         PROVE  Blocked(c, req', group', health') /\ Awake(c, req', group', health', probers')
    <2> DEFINE T == ShareHolders(ShareOf[c], g, rq) \cup {d \in mine : ShareOf[d] = ShareOf[c]}
               U == ShareHolders(ShareOf[c], g, req')
    <2>1. T \in SUBSET U /\ U \in SUBSET Callers /\ U \subseteq ActiveIn(g, req')
      BY <1>0, <1>1 DEF ShareHolders, ActiveIn
    <2> HIDE DEF T, U
    <2>2. T \in SUBSET Callers
      BY <2>1
    <2>3. /\ Cardinality(T) <= Cardinality(U)
          /\ Cardinality(T) \in Nat /\ Cardinality(U) \in Nat
      BY <2>1, <2>2, FiniteCallers, FS_Subset
    <2>4. ShareCap(ShareOf[c], g) \in Nat \ {0}
      <3>1. SharePercent[ShareOf[c]] \in 1..100
        BY <1>0, <1>15, RequestAssumption, LimitsAssumption
      <3>2. ((MaxInFlight[g] * SharePercent[ShareOf[c]]) \div 100) \in Int
        BY <1>4, <3>1
      <3> QED
        BY <3>2 DEF ShareCap
    <2>5. Cardinality(T) >= ShareCap(ShareOf[c], g)
      BY <1>15 DEF T
    <2>6. ~Free(c, req')
      BY <1>15, <2>3, <2>4, <2>5 DEF Free, U
    <2>7. U # {}
      BY <2>3, <2>4, <2>5, FS_EmptySet
    <2> QED
      BY <2>1, <2>6, <2>7 DEF Blocked, Awake
  <1> DEFINE earlier == {d \in S : Before(d, c, rq)}
             mine == {d \in earlier : GroupOf[d] = g}
  <1>16. \/ gr[g].backoff
         \/ Full(gr[g].active + Cardinality(mine), g)
         \/ ~ModelAdmissible(c, hl)
         \/ Gated(c, hl) /\ \E d \in earlier : ModelOf[d] = m
         \/ /\ ShareOf[c] # None
            /\ Cardinality(ShareHolders(ShareOf[c], g, rq)
                             \cup {d \in mine : ShareOf[d] = ShareOf[c]})
                 >= ShareCap(ShareOf[c], g)
    BY DEF PassedOver
  <1>17. mine \in SUBSET Sg /\ earlier \subseteq S
    OBVIOUS
  <1> HIDE DEF mine, earlier
  <1> QED
    BY <1>6, <1>7, <1>12, <1>13, <1>14, <1>15, <1>16, <1>17

LEMMA PreparedSound ==
    ASSUME IInv', WaitersSound, NEW P, NEW rq, NEW gr, NEW hl, Prepared(P, rq, gr, hl)
    PROVE  WaitersSound'
PROOF
  <1>0. /\ P \in SUBSET Groups /\ Shaped(rq, gr, hl)
        /\ rq \in [Callers -> EntryType] /\ gr \in [Groups -> GroupType]
        /\ hl \in [Models -> HealthType]
        /\ Ordered(rq) /\ Ranked(rq, sticky') /\ Probed(hl, probers', stopped')
        /\ Admitted(rq, probers', stopped') /\ probers \subseteq probers'
    BY DEF Prepared, Shaped
  <1>1. PICK S \in SUBSET Waiting(P, rq) :
           /\ Fits(S, P, rq, gr, hl)
           /\ \A c \in Waiting(P, rq) \ S : PassedOver(c, S, rq, gr, hl)
           /\ req' = PumpedReq(S, rq, hl)
           /\ group' = [g \in Groups |-> IF g \in P THEN PumpedGroup(g, S, rq, gr, hl)
                                                    ELSE gr[g]]
           /\ health' = PumpedHealth(S, hl)
    BY DEF Prepared, Pump
  <1>2. S \in SUBSET Callers
    BY DEF Waiting
  <1>3. \A c \in Callers : /\ req'[c].rank = rq[c].rank
                           /\ c \in Waiting(Groups, req')
                                <=> c \in Waiting(Groups, rq) /\ c \notin S
    BY <1>0, <1>1, <1>2, PumpedWaiters
  <1>4. Ordered(req')
    BY <1>0, <1>1, <1>2, PumpOrdered
  <1>5. Ranked(req', sticky') /\ Admitted(req', probers', stopped')
    BY <1>0, <1>3 DEF Ranked, Admitted, Waiting
  <1>6. \A n \in Models : /\ health'[n].state = hl[n].state
                          /\ health'[n].background = hl[n].background
                          /\ health'[n].timer = hl[n].timer
                          /\ hl[n].probeInFlight => health'[n].probeInFlight
    BY <1>0, <1>1 DEF PumpedHealth, HealthType
  <1>7. Probed(health', probers', stopped')
    BY <1>0, <1>6 DEF Probed, ProbedBy
  <1>8. ASSUME NEW c \in Waiting(Groups, req')
        PROVE  /\ Blocked(c, req', group', health')
               /\ OneGroupUnlessProbed => Awake(c, req', group', health', probers')
    <2> DEFINE g == GroupOf[c]
    <2>1. c \in Callers /\ c \in Waiting(Groups, rq) /\ c \notin S /\ g \in Groups
      BY <1>3, RequestAssumption DEF Waiting
    <2>2. CASE g \in P
      <3>1. c \in Waiting(P, rq) \ S
        BY <2>1, <2>2 DEF Waiting
      <3> QED
        BY <1>0, <1>1, <3>1, LeftWaiting
    <2>3. CASE g \notin P
      <3>1. /\ c \in Waiting(Groups, req)
            /\ ActiveIn(g, rq) = ActiveIn(g, req)
            /\ group[g].backoffTimer => gr[g].backoffTimer
            /\ group[g].probeTimer => gr[g].probeTimer
            /\ Gated(c, health) => Gated(c, hl)
        BY <2>1, <2>3 DEF Prepared
      <3>2. {e \in S : GroupOf[e] = g} = {}
        BY <2>3 DEF Waiting
      <3>3. ActiveIn(g, req') = ActiveIn(g, req)
        <4> HIDE DEF g
        <4>1. ActiveIn(g, PumpedReq(S, rq, hl)) = ActiveIn(g, rq) \cup {e \in S : GroupOf[e] = g}
          BY <1>0, <2>1, PumpHolders
        <4> QED
          BY <1>1, <3>1, <3>2, <4>1
      <3>4. group'[g] = gr[g]
        BY <1>1, <2>1, <2>3
      <3>5. Gated(c, health') <=> Gated(c, hl)
        BY <1>6, <2>1, RequestAssumption DEF Gated
      <3>6. Blocked(c, req, group, health)
        BY <3>1 DEF WaitersSound
      <3>7. OneGroupUnlessProbed => Awake(c, req, group, health, probers)
        BY <3>1 DEF WaitersSound
      <3>8. Free(c, req') <=> Free(c, req)
        BY <3>3 DEF Free, ShareHolders
      <3>9. Blocked(c, req', group', health')
        BY <3>1, <3>4, <3>5, <3>6, <3>8 DEF Blocked
      <3>10. OneGroupUnlessProbed => Awake(c, req', group', health', probers')
        BY <1>0, <3>1, <3>3, <3>4, <3>5, <3>7 DEF Awake
      <3> QED
        BY <3>9, <3>10
    <2> QED
      BY <2>2, <2>3
  <1> QED
    BY <1>4, <1>5, <1>7, <1>8 DEF WaitersSound

\* d gets a slot although c is ahead of it in its group.
Overtaken(c, d) ==
    /\ GroupOf[c] = GroupOf[d]
    /\ req[c].status = "waiting" /\ req'[c].status = "waiting"
    /\ ~Holds(d, req) /\ Holds(d, req')
    /\ \/ req'[c].rank > req'[d].rank
       \/ /\ req'[c].rank = req'[d].rank
          /\ c \in req[d].older \/ req[d].status = "idle"

Skipped(c) ==
    \/ Gated(c, health')
    \/ /\ ShareOf[c] # None
       /\ Cardinality(ShareHolders(ShareOf[c], GroupOf[c], req'))
             >= ShareCap(ShareOf[c], GroupOf[c])

LEMMA PreparedInOrder ==
    ASSUME IInv', WaitersSound, NEW P, NEW rq, NEW gr, NEW hl, Prepared(P, rq, gr, hl),
           NEW c \in Callers, NEW d \in Callers, Overtaken(c, d)
    PROVE  Skipped(c)
PROOF
  <1> DEFINE g == GroupOf[c]
             sh == ShareOf[c]
  <1>0. /\ P \in SUBSET Groups /\ Shaped(rq, gr, hl)
        /\ rq \in [Callers -> EntryType] /\ gr \in [Groups -> GroupType]
        /\ hl \in [Models -> HealthType] /\ g \in Groups
    BY RequestAssumption DEF Prepared, Shaped
  <1>1. PICK S \in SUBSET Waiting(P, rq) :
           /\ Fits(S, P, rq, gr, hl)
           /\ \A e \in Waiting(P, rq) \ S : PassedOver(e, S, rq, gr, hl)
           /\ req' = PumpedReq(S, rq, hl)
           /\ health' = PumpedHealth(S, hl)
    BY DEF Prepared, Pump
  <1> DEFINE Sg == {e \in S : GroupOf[e] = g}
             earlier == {e \in S : Before(e, c, rq)}
             mine == {e \in earlier : GroupOf[e] = g}
  <1>2. S \in SUBSET Callers
    BY DEF Waiting
  <1>3. /\ req'[d].status = IF d \in S THEN "sending" ELSE rq[d].status
        /\ req'[c].status = IF c \in S THEN "sending" ELSE rq[c].status
    BY <1>0, <1>1, <1>2, PumpedEntry
  <1>4. req'[d].rank = rq[d].rank /\ req'[c].rank = rq[c].rank
    BY <1>0, <1>1, <1>2, PumpedWaiters
  <1>5. d \in Sg
    <2>1. ~Holds(d, rq)
      BY DEF Overtaken, Prepared
    <2>2. d \in S
      BY <1>3, <2>1 DEF Overtaken, Holds
    <2> QED
      BY <2>2 DEF Overtaken
  <1>6. c \in Waiting(P, rq) \ S /\ g \in P /\ c \in Waiting(Groups, rq) /\ c \in Waiting(Groups, req)
    BY <1>0, <1>3, <1>5 DEF Overtaken, Waiting
  <1>7. d \notin mine
    <2>1. ~(GroupOf[d] < GroupOf[c])
      <3>1. GroupOf[d] = GroupOf[c]
        BY DEF Overtaken
      <3>2. GroupOf[c] \in Nat
        <4>1. \A x \in Groups : x \in Nat
          BY GroupsAssumption
        <4>2. GroupOf[c] \in Groups
          BY <1>0
        <4> QED
          BY <4>1, <4>2
      <3> QED
        BY <3>1, <3>2
    <2>2. rq[c].rank \in Int /\ rq[d].rank \in Int
      BY <1>0 DEF EntryType, Ranks
    <2>3. ~(rq[d].rank > rq[c].rank)
      BY <1>4, <2>2 DEF Overtaken
    <2>4. ASSUME rq[d].rank = rq[c].rank, d \in rq[c].older
          PROVE  FALSE
      <3>1. c \in req[d].older \/ req[d].status = "idle"
        BY <1>4, <2>2, <2>4 DEF Overtaken
      <3>2. d \in req[c].older
        BY <1>6, <2>4 DEF Prepared
      <3>3. d \in Waiting(Groups, req) /\ c \notin req[d].older
        BY <3>2 DEF WaitersSound, Ordered
      <3> QED
        BY <3>1, <3>3 DEF Waiting
    <2> QED
      BY <2>1, <2>3, <2>4 DEF Before
  <1>8. PassedOver(c, S, rq, gr, hl)
    BY <1>1, <1>6
  <1>9. ~gr[g].backoff
    BY <1>1, <1>5 DEF Fits
  <1>10. ~Full(gr[g].active + Cardinality(mine), g)
    <2>1. Sg # {} => ~Full(gr[g].active + Cardinality(Sg) - 1, g)
      BY <1>1, <1>6 DEF Fits
    <2>2. Sg \ {d} \in SUBSET Callers /\ Sg \in SUBSET Callers /\ mine \in SUBSET (Sg \ {d})
      BY <1>2, <1>7
    <2>3. mine \in SUBSET Callers
      BY <2>2
    <2> HIDE DEF mine, Sg
    <2>4. Cardinality(Sg \ {d}) = Cardinality(Sg) - 1
      BY <1>5, <2>2, FiniteCallers, FS_RemoveElement
    <2>5. Cardinality(mine) <= Cardinality(Sg \ {d})
      BY <2>2, FiniteCallers, FS_Subset
    <2>6. Cardinality(mine) \in Nat /\ Cardinality(Sg) \in Nat
      BY <2>2, <2>3, FiniteCallers
    <2>7. gr[g].active \in Nat /\ MaxInFlight[g] \in Nat
      BY <1>0, LimitsAssumption DEF GroupType
    <2> QED
      BY <1>5, <2>1, <2>4, <2>5, <2>6, <2>7 DEF Full
  <1>11. Gated(c, hl) => Gated(c, health')
    <2>1. \A n \in Models : health'[n].state = hl[n].state
      BY <1>0, <1>1 DEF PumpedHealth, HealthType
    <2> QED
      BY <1>0, <2>1, RequestAssumption DEF Gated
  <1>12. CASE Gated(c, hl)
    BY <1>11, <1>12 DEF Skipped
  <1>13. CASE sh # None /\ Cardinality(ShareHolders(sh, g, rq)
                                        \cup {e \in mine : ShareOf[e] = sh}) >= ShareCap(sh, g)
    <2> DEFINE T == ShareHolders(sh, g, rq) \cup {e \in mine : ShareOf[e] = sh}
               U == ShareHolders(sh, g, req')
    <2>1. ActiveIn(g, req') = ActiveIn(g, rq) \cup Sg
      <3> HIDE DEF g
      <3>1. ActiveIn(g, PumpedReq(S, rq, hl)) = ActiveIn(g, rq) \cup {e \in S : GroupOf[e] = g}
        BY <1>0, <1>1, PumpHolders DEF Prepared
      <3> QED
        BY <1>1, <3>1
    <2>2. T \in SUBSET U /\ U \in SUBSET Callers
      BY <1>2, <2>1 DEF ShareHolders, ActiveIn
    <2>3. T \in SUBSET Callers
      BY <2>2
    <2> HIDE DEF T, U
    <2>4. /\ Cardinality(T) <= Cardinality(U)
          /\ Cardinality(T) \in Nat /\ Cardinality(U) \in Nat
      BY <2>2, <2>3, FiniteCallers, FS_Subset
    <2>5. ShareCap(sh, g) \in Int
      <3>1. SharePercent[sh] \in 1..100 /\ MaxInFlight[g] \in Nat
        BY <1>0, <1>13, RequestAssumption, LimitsAssumption
      <3>2. ((MaxInFlight[g] * SharePercent[sh]) \div 100) \in Int
        BY <3>1
      <3> QED
        BY <3>2 DEF ShareCap
    <2>6. Cardinality(T) >= ShareCap(sh, g)
      BY <1>13 DEF T
    <2>7. Cardinality(U) >= ShareCap(sh, g)
      BY <2>4, <2>5, <2>6
    <2> QED
      BY <1>13, <2>7 DEF Skipped, U
  <1>14. \/ gr[g].backoff
         \/ Full(gr[g].active + Cardinality(mine), g)
         \/ ~ModelAdmissible(c, hl)
         \/ Gated(c, hl)
         \/ sh # None /\ Cardinality(ShareHolders(sh, g, rq)
                                      \cup {e \in mine : ShareOf[e] = sh}) >= ShareCap(sh, g)
    BY <1>8 DEF PassedOver
  <1> HIDE DEF mine
  <1> QED
    BY <1>9, <1>10, <1>12, <1>13, <1>14 DEF ModelAdmissible

\* What every turn guarantees: the waiters' invariant, and the order of admission.
Orderly ==
    /\ WaitersSound'
    /\ \A c, d \in Callers : Overtaken(c, d) => Skipped(c)

LEMMA PreparedOrderly ==
    ASSUME IInv', WaitersSound, NEW P, NEW rq, NEW gr, NEW hl, Prepared(P, rq, gr, hl)
    PROVE  Orderly
BY PreparedSound, PreparedInOrder DEF Orderly

-----------------------------------------------------------------------------
(***************************************************************************)
(* The probers under the health operators.                                 *)
(***************************************************************************)
LEMMA ArmedProbed ==
    ASSUME NEW m \in Models, NEW h \in HealthType,
           h.timer \/ h.background > 0 => m \in probers
    PROVE  /\ ProbedBy(m, Armed(m, h), probers, stopped)
           /\ Armed(m, h).state = h.state
PROOF
  <1> DEFINE t == h.timer \/ (~stopped /\ h.state = "unhealthy" /\ m \in probers)
  <1>1. t \in BOOLEAN /\ Armed(m, h) = [h EXCEPT !.timer = t]
    BY DEF Armed
  <1>2. /\ t \/ h.background > 0 => m \in probers
        /\ m \in probers /\ h.state = "unhealthy" /\ ~stopped => t
    OBVIOUS
  <1> HIDE DEF t
  <1>3. /\ Armed(m, h).timer = t /\ Armed(m, h).state = h.state
        /\ Armed(m, h).background = h.background
    BY <1>1 DEF HealthType
  <1> QED
    BY <1>2, <1>3 DEF ProbedBy

LEMMA RescheduledProbed ==
    ASSUME NEW m \in Models, NEW h \in HealthType,
           h.timer \/ h.background > 0 => m \in probers
    PROVE  /\ ProbedBy(m, Rescheduled(m, h), probers, stopped)
           /\ Rescheduled(m, h).state = h.state
PROOF
  <1> DEFINE k == [h EXCEPT !.probeInFlight = FALSE, !.windowOpen = FALSE]
  <1>1. /\ k \in HealthType /\ k.state = h.state
        /\ k.timer = h.timer /\ k.background = h.background
    BY DEF HealthType
  <1>2. Rescheduled(m, h) = Armed(m, k)
    BY DEF Rescheduled
  <1> HIDE DEF k
  <1> QED
    BY <1>1, <1>2, ArmedProbed

\* Whatever the outcome, an unhealthy model with a prober stays due or under a probe; only
\* "ok" heals.
LEMMA SettledProbed ==
    ASSUME NEW m \in Models, NEW h \in HealthType, NEW outcome \in Outcomes,
           ProbedBy(m, h, probers, stopped)
    PROVE  /\ ProbedBy(m, Settled(m, h, outcome), probers, stopped)
           /\ outcome # "ok" /\ h.state = "unhealthy"
                => Settled(m, h, outcome).state = "unhealthy"
PROOF
  <1>0. h.timer \/ h.background > 0 => m \in probers
    BY DEF ProbedBy
  <1>1. CASE outcome = "ok"
    <2> DEFINE k == [h EXCEPT !.state = "healthy", !.failures = 0, !.probeInFlight = FALSE,
                              !.windowOpen = TRUE, !.delay = BaseDelay]
    <2>1. Settled(m, h, outcome) = k
      BY <1>1 DEF Settled
    <2>2. k.state = "healthy" /\ k.timer = h.timer /\ k.background = h.background
      BY DEF HealthType
    <2> HIDE DEF k
    <2> QED
      BY <1>0, <1>1, <2>1, <2>2 DEF ProbedBy
  <1>2. CASE outcome = "neutral"
    <2> DEFINE k == [h EXCEPT !.probeInFlight = FALSE]
    <2>1. /\ k \in HealthType /\ k.state = h.state /\ k.timer = h.timer
          /\ k.background = h.background
      BY DEF HealthType
    <2>2. Settled(m, h, outcome) = IF h.probeInFlight THEN Armed(m, k) ELSE h
      BY <1>2 DEF Settled
    <2> HIDE DEF k
    <2>3. CASE h.probeInFlight
      BY <1>0, <2>1, <2>2, <2>3, ArmedProbed
    <2> QED
      BY <2>2, <2>3
  <1>3. CASE outcome = "429"
    <2>1. Settled(m, h, outcome) = IF h.probeInFlight THEN Rescheduled(m, h) ELSE h
      BY <1>3 DEF Settled
    <2>2. CASE h.probeInFlight
      BY <1>0, <2>1, <2>2, RescheduledProbed
    <2> QED
      BY <2>1, <2>2
  <1>4. CASE outcome \in {"503", "env"}
    <2> DEFINE failed == [h EXCEPT !.failures = Counted(h)]
               grown == [failed EXCEPT !.delay = Doubled(@)]
               fresh == [failed EXCEPT !.state = "unhealthy", !.delay = BaseDelay]
    <2>1. Settled(m, h, outcome) =
            IF h.state = "unhealthy" THEN Rescheduled(m, grown)
            ELSE IF failed.failures >= Threshold THEN Rescheduled(m, fresh) ELSE failed
      BY <1>4 DEF Settled
    <2>2. Counted(h) \in 0..Threshold
      BY LimitsAssumption DEF Counted, HealthType
    <2>3. /\ failed \in HealthType /\ failed.state = h.state /\ failed.timer = h.timer
          /\ failed.background = h.background /\ failed.delay = h.delay
      BY <2>2 DEF HealthType
    <2>4. /\ Doubled(h.delay) \in 1..LongestDelay /\ BaseDelay \in 1..LongestDelay
      <3>1. h.delay \in 1..LongestDelay
        BY DEF HealthType
      <3> QED
        BY <3>1, LimitsAssumption DEF Doubled, LongestDelay
    <2>5. ASSUME NEW k \in HealthType, NEW e \in 1..LongestDelay
          PROVE  /\ [k EXCEPT !.delay = e] \in HealthType
                 /\ [k EXCEPT !.delay = e].state = k.state
                 /\ [k EXCEPT !.delay = e].timer = k.timer
                 /\ [k EXCEPT !.delay = e].background = k.background
                 /\ [k EXCEPT !.state = "unhealthy", !.delay = e] \in HealthType
                 /\ [k EXCEPT !.state = "unhealthy", !.delay = e].timer = k.timer
                 /\ [k EXCEPT !.state = "unhealthy", !.delay = e].background = k.background
      BY DEF HealthType
    <2>6. grown = [failed EXCEPT !.delay = Doubled(h.delay)]
      BY <2>3
    <2> HIDE DEF failed
    <2>7. /\ grown \in HealthType /\ grown.state = h.state /\ grown.timer = h.timer
          /\ grown.background = h.background
      <3> HIDE DEF grown
      <3> QED
        BY <2>3, <2>4, <2>5, <2>6
    <2>8. fresh \in HealthType /\ fresh.timer = h.timer /\ fresh.background = h.background
      BY <2>3, <2>4, <2>5
    <2> HIDE DEF grown, fresh
    <2>9. CASE h.state = "unhealthy"
      BY <1>0, <2>1, <2>7, <2>9, RescheduledProbed
    <2>10. CASE h.state # "unhealthy" /\ failed.failures >= Threshold
      BY <1>0, <2>1, <2>8, <2>10, RescheduledProbed
    <2>11. CASE h.state # "unhealthy" /\ ~(failed.failures >= Threshold)
      BY <1>0, <2>1, <2>3, <2>11 DEF ProbedBy
    <2> QED
      BY <2>9, <2>10, <2>11
  <1> QED
    BY <1>1, <1>2, <1>3, <1>4 DEF Outcomes

-----------------------------------------------------------------------------
(***************************************************************************)
(* Turns that leave the queue entries where they are.                      *)
(***************************************************************************)
SamePlaces(rq, rq2) ==
    \A c \in Callers :
        /\ rq2[c].status = "waiting" <=> rq[c].status = "waiting"
        /\ rq2[c].rank = rq[c].rank /\ rq2[c].older = rq[c].older
        /\ Holds(c, rq2) <=> Holds(c, rq)

LEMMA PlacesKept ==
    ASSUME NEW rq, NEW rq2, NEW st, NEW pr, NEW over, SamePlaces(rq, rq2)
    PROVE  /\ Waiting(Groups, rq2) = Waiting(Groups, rq)
           /\ \A g \in Groups : ActiveIn(g, rq2) = ActiveIn(g, rq)
           /\ Ordered(rq) => Ordered(rq2)
           /\ Ranked(rq, st) => Ranked(rq2, st)
           /\ Admitted(rq, pr, over) => Admitted(rq2, pr, over)
PROOF
  <1>1. Waiting(Groups, rq2) = Waiting(Groups, rq)
    BY DEF SamePlaces, Waiting
  <1>2. \A g \in Groups : ActiveIn(g, rq2) = ActiveIn(g, rq)
    BY DEF SamePlaces, ActiveIn
  <1>3. Ordered(rq) => Ordered(rq2)
    <2>1. ASSUME Ordered(rq), NEW c \in Callers
          PROVE  /\ rq2[c].status # "waiting" => rq2[c].older = {}
                 /\ \A d \in rq2[c].older : d \in Waiting(Groups, rq2) /\ c \notin rq2[d].older
      <3>1. /\ rq2[c].status # "waiting" => rq2[c].older = {}
            /\ rq2[c].older = rq[c].older
        BY <2>1 DEF SamePlaces, Ordered
      <3>2. ASSUME NEW d \in rq[c].older
            PROVE  d \in Waiting(Groups, rq2) /\ c \notin rq2[d].older
        <4>1. d \in Waiting(Groups, rq) /\ c \notin rq[d].older
          BY <2>1 DEF Ordered
        <4>2. d \in Callers
          BY <4>1 DEF Waiting
        <4> QED
          BY <1>1, <4>1, <4>2 DEF SamePlaces
      <3> QED
        BY <3>1, <3>2
    <2> QED
      BY <2>1 DEF Ordered
  <1>4. Ranked(rq, st) => Ranked(rq2, st)
    BY <1>1 DEF SamePlaces, Ranked, Waiting
  <1>5. Admitted(rq, pr, over) => Admitted(rq2, pr, over)
    BY <1>1 DEF Admitted
  <1> QED
    BY <1>1, <1>2, <1>3, <1>4, <1>5

LEMMA QuietOrderly ==
    ASSUME IInv, IInv', WaitersSound, NEW P, NEW rq, NEW gr, NEW hl,
           P \in SUBSET Groups, Shaped(rq, gr, hl), Pump(P, rq, gr, hl),
           SamePlaces(req, rq), Ranked(req, sticky'), Probed(hl, probers', stopped'),
           probers \subseteq probers', stopped' = stopped,
           \A g \in Groups \ P : /\ group[g].backoffTimer => gr[g].backoffTimer
                                 /\ group[g].probeTimer => gr[g].probeTimer,
           P = Groups \/ \A m \in Models : health[m].state = "unhealthy" => hl[m].state = "unhealthy"
    PROVE  Orderly
PROOF
  <1>2. Ordered(req) /\ Admitted(req, probers, stopped)
    BY DEF WaitersSound
  <1>3. Admitted(req, probers', stopped')
    BY <1>2 DEF Admitted
  <1>4. /\ Waiting(Groups, rq) = Waiting(Groups, req)
        /\ \A g \in Groups : ActiveIn(g, rq) = ActiveIn(g, req)
        /\ Ordered(rq) /\ Ranked(rq, sticky') /\ Admitted(rq, probers', stopped')
    BY <1>2, <1>3, PlacesKept
  <1>5. ASSUME NEW c \in Waiting(Groups, rq), GroupOf[c] \notin P
        PROVE  /\ c \in Waiting(Groups, req)
               /\ ActiveIn(GroupOf[c], rq) = ActiveIn(GroupOf[c], req)
               /\ group[GroupOf[c]].backoffTimer => gr[GroupOf[c]].backoffTimer
               /\ group[GroupOf[c]].probeTimer => gr[GroupOf[c]].probeTimer
               /\ Gated(c, health) => Gated(c, hl)
    <2>1. c \in Callers /\ GroupOf[c] \in Groups \ P
      BY <1>5, RequestAssumption DEF Waiting
    <2>2. Gated(c, health) => Gated(c, hl)
      BY <1>5, <2>1, RequestAssumption DEF Gated
    <2> QED
      BY <1>4, <1>5, <2>1, <2>2
  <1>6. \A c \in Callers : /\ Holds(c, rq) => Holds(c, req)
                           /\ rq[c].older \subseteq req[c].older
    BY DEF SamePlaces
  <1>7. Waiting(Groups, rq) \subseteq Callers
    BY DEF Waiting
  <1>8. Prepared(P, rq, gr, hl)
    BY <1>4, <1>5, <1>6, <1>7 DEF Prepared
  <1> QED
    BY <1>8, PreparedOrderly

\* A turn that pumps nothing and moves no entry.
LEMMA IdleOrderly ==
    ASSUME IInv, IInv', WaitersSound, SamePlaces(req, req'), Ranked(req, sticky'),
           Probed(health', probers', stopped'), probers \subseteq probers', stopped' = stopped,
           \A g \in Groups : /\ group[g].backoffTimer => group'[g].backoffTimer
                             /\ group[g].probeTimer => group'[g].probeTimer,
           \A m \in Models : health[m].state = "unhealthy" => health'[m].state = "unhealthy"
    PROVE  Orderly
PROOF
  <1>1. Shaped(req', group', health')
    BY DEF IInv, Good
  <1>2. Pump({}, req', group', health')
    BY <1>1, PumpNone
  <1>3. {} \in SUBSET Groups
    OBVIOUS
  <1>4. \A g \in Groups \ {} : /\ group[g].backoffTimer => group'[g].backoffTimer
                               /\ group[g].probeTimer => group'[g].probeTimer
    OBVIOUS
  <1> QED
    BY <1>1, <1>2, <1>3, <1>4, QuietOrderly

LEMMA SettledHealthProbed ==
    ASSUME NEW h0 \in [Models -> HealthType], NEW m \in Models, NEW outcome \in Outcomes,
           Probed(h0, probers, stopped), h0[m].state = health[m].state
    PROVE  LET hl == [h0 EXCEPT ![m] = Settled(m, @, outcome)]
           IN  /\ Probed(hl, probers, stopped)
               /\ \/ Resumed(m, outcome) = Groups
                  \/ \A n \in Models : h0[n].state = "unhealthy" => hl[n].state = "unhealthy"
PROOF
  <1> DEFINE hl == [h0 EXCEPT ![m] = Settled(m, @, outcome)]
  <1>1. /\ ProbedBy(m, Settled(m, h0[m], outcome), probers, stopped)
        /\ outcome # "ok" /\ h0[m].state = "unhealthy"
                => Settled(m, h0[m], outcome).state = "unhealthy"
    BY SettledProbed DEF Probed
  <1>2. hl[m] = Settled(m, h0[m], outcome) /\ \A n \in Models \ {m} : hl[n] = h0[n]
    OBVIOUS
  <1> HIDE DEF hl
  <1>3. Probed(hl, probers, stopped)
    BY <1>1, <1>2 DEF Probed
  <1>4. \/ Resumed(m, outcome) = Groups
        \/ \A n \in Models : h0[n].state = "unhealthy" => hl[n].state = "unhealthy"
    BY <1>1, <1>2 DEF Resumed
  <1> QED
    BY <1>3, <1>4 DEF hl

\* Noting an outcome: a throttle arms the backoff timer, a recovery pumps every group.
LEMMA NoteOrderly ==
    ASSUME IInv, IInv', WaitersSound, NEW c \in Callers, NEW outcome \in Outcomes,
           NEW rq \in [Callers -> EntryType], SamePlaces(req, rq),
           NoteOutcome(c, outcome, rq), UNCHANGED <<sticky, probers, stopped>>
    PROVE  Orderly
PROOF
  <1> DEFINE m == ModelOf[c]
             gr == IF outcome \in {"429", "503"}
                   THEN [group EXCEPT ![GroupOf[c]].backoff = TRUE,
                                      ![GroupOf[c]].backoffTimer = TRUE]
                   ELSE group
             hl == [health EXCEPT ![m] = Settled(m, @, outcome)]
  <1>0. /\ group \in [Groups -> GroupType] /\ health \in [Models -> HealthType]
        /\ Owned(req, health, stopped) /\ GroupOf[c] \in Groups
        /\ Ranked(req, sticky') /\ Probed(health, probers, stopped)
        /\ probers' = probers /\ stopped' = stopped
    BY RequestAssumption DEF IInv, Good, Shaped, WaitersSound
  <1>1. /\ gr \in [Groups -> GroupType]
        /\ \A g \in Groups : /\ group[g].backoffTimer => gr[g].backoffTimer
                             /\ group[g].probeTimer => gr[g].probeTimer
    BY <1>0 DEF GroupType
  <1>2. CASE m = None
    <2>1. Pump({}, rq, gr, health) /\ {} \in SUBSET Groups
      BY <1>2 DEF NoteOutcome
    <2>2. Shaped(rq, gr, health)
      BY <1>0, <1>1 DEF Shaped
    <2> HIDE DEF gr
    <2> QED
      BY <1>0, <1>1, <2>1, <2>2, QuietOrderly
  <1>3. CASE m # None
    <2>1. m \in Models
      BY <1>3, RequestAssumption
    <2>2. Pump(Resumed(m, outcome), rq, gr, hl) /\ Resumed(m, outcome) \in SUBSET Groups
      BY <1>3 DEF NoteOutcome, Resumed
    <2>3. Settled(m, health[m], outcome) \in HealthType
      BY <1>0, <2>1, SettledType DEF Owned
    <2>4. hl \in [Models -> HealthType]
      BY <1>0, <2>1, <2>3
    <2>5. /\ Probed(hl, probers, stopped)
          /\ \/ Resumed(m, outcome) = Groups
             \/ \A n \in Models : health[n].state = "unhealthy" => hl[n].state = "unhealthy"
      <3> HIDE DEF m
      <3> QED
        BY <1>0, <2>1, SettledHealthProbed
    <2>6. Shaped(rq, gr, hl)
      BY <1>1, <2>4 DEF Shaped
    <2> HIDE DEF gr, hl
    <2> QED
      BY <1>0, <1>1, <2>2, <2>5, <2>6, QuietOrderly
  <1> QED
    BY <1>2, <1>3

LEMMA ThrottledOrderly ==
    ASSUME IInv, IInv', WaitersSound, NEW c \in Callers, NEW outcome \in {"429", "503"},
           Throttled(c, outcome)
    PROVE  Orderly
PROOF
  <1> DEFINE rq == [req EXCEPT ![c].noted = TRUE]
  <1>1. req \in [Callers -> EntryType]
    BY DEF IInv, Good, Shaped
  <1>2. rq \in [Callers -> EntryType] /\ SamePlaces(req, rq)
    <2>1. ASSUME NEW e \in EntryType
          PROVE  /\ [e EXCEPT !.noted = TRUE] \in EntryType
                 /\ [e EXCEPT !.noted = TRUE].status = e.status
                 /\ [e EXCEPT !.noted = TRUE].rank = e.rank
                 /\ [e EXCEPT !.noted = TRUE].older = e.older
      BY DEF EntryType
    <2> QED
      BY <1>1, <2>1 DEF SamePlaces, Holds
  <1>3. /\ NoteOutcome(c, outcome, rq) /\ outcome \in Outcomes
        /\ UNCHANGED <<sticky, probers, stopped>>
    BY DEF Throttled, Outcomes
  <1> HIDE DEF rq
  <1> QED
    BY <1>2, <1>3, NoteOrderly

LEMMA FinishOrderly ==
    ASSUME IInv, IInv', WaitersSound, NEW c \in Callers, NEW outcome \in Outcomes,
           Finish(c, outcome)
    PROVE  Orderly
PROOF
  <1> DEFINE rq == [req EXCEPT ![c].status = "settled"]
  <1>1. /\ req \in [Callers -> EntryType] /\ group \in [Groups -> GroupType]
        /\ health \in [Models -> HealthType] /\ req[c].status = "sending"
    BY DEF IInv, Good, Shaped, Finish
  <1>2. rq \in [Callers -> EntryType] /\ SamePlaces(req, rq)
    <2>1. ASSUME NEW e \in EntryType
          PROVE  /\ [e EXCEPT !.status = "settled"] \in EntryType
                 /\ [e EXCEPT !.status = "settled"].status = "settled"
                 /\ [e EXCEPT !.status = "settled"].rank = e.rank
                 /\ [e EXCEPT !.status = "settled"].older = e.older
      BY DEF EntryType
    <2> QED
      BY <1>1, <2>1 DEF SamePlaces, Holds
  <1>3. /\ Pump({}, rq, group, health) \/ NoteOutcome(c, outcome, rq)
        /\ UNCHANGED <<sticky, probers, stopped>>
    BY DEF Finish
  <1>4. Shaped(rq, group, health)
    BY <1>1, <1>2 DEF Shaped
  <1>5. Ranked(req, sticky') /\ Probed(health, probers', stopped')
    BY <1>3 DEF WaitersSound
  <1> HIDE DEF rq
  <1>6. CASE NoteOutcome(c, outcome, rq)
    BY <1>2, <1>3, <1>6, NoteOrderly
  <1>7. CASE Pump({}, rq, group, health)
    <2>1. {} \in SUBSET Groups /\ probers \subseteq probers' /\ stopped' = stopped
      BY <1>3
    <2> QED
      BY <1>2, <1>4, <1>5, <1>7, <2>1, QuietOrderly
  <1> QED
    BY <1>3, <1>6, <1>7

\* Timers, windows, escalations cleared and probers registered move no entry.
LEMMA TimersOrderly ==
    ASSUME IInv, IInv', WaitersSound, NEW g \in Groups,
           BackoffElapses(g) \/ BackoffTimerFires(g) \/ ProbeTimerFires(g)
    PROVE  Orderly
PROOF
  <1>0. /\ req \in [Callers -> EntryType] /\ group \in [Groups -> GroupType]
        /\ health \in [Models -> HealthType]
        /\ Ranked(req, sticky) /\ Probed(health, probers, stopped) /\ SamePlaces(req, req)
        /\ UNCHANGED <<sticky, probers, stopped>>
    BY DEF IInv, Good, Shaped, WaitersSound, SamePlaces, BackoffElapses, BackoffTimerFires,
           ProbeTimerFires
  <1>1. ASSUME NEW gr \in [Groups -> GroupType], Pump({g}, req, gr, health),
               \A x \in Groups \ {g} : gr[x] = group[x]
        PROVE  Orderly
    <2>1. Shaped(req, gr, health)
      BY <1>0 DEF Shaped
    <2>2. Ranked(req, sticky') /\ Probed(health, probers', stopped') /\ stopped' = stopped
          /\ probers \subseteq probers' /\ {g} \in SUBSET Groups
      BY <1>0
    <2> QED
      BY <1>0, <1>1, <2>1, <2>2, QuietOrderly
  <1>2. CASE BackoffElapses(g)
    <2>1. /\ req' = req /\ health' = health
          /\ \A x \in Groups : /\ group'[x].backoffTimer = group[x].backoffTimer
                               /\ group'[x].probeTimer = group[x].probeTimer
      BY <1>0, <1>2 DEF BackoffElapses, GroupType
    <2>2. /\ SamePlaces(req, req') /\ Ranked(req, sticky') /\ probers \subseteq probers'
          /\ Probed(health', probers', stopped')
      BY <1>0, <2>1
    <2> QED
      BY <1>0, <2>1, <2>2, IdleOrderly
  <1>3. CASE BackoffTimerFires(g)
    <2> DEFINE gr == [group EXCEPT ![g].backoffTimer = FALSE]
    <2>1. gr \in [Groups -> GroupType] /\ \A x \in Groups \ {g} : gr[x] = group[x]
      BY <1>0 DEF GroupType
    <2>2. Pump({g}, req, gr, health)
      BY <1>3 DEF BackoffTimerFires
    <2> HIDE DEF gr
    <2> QED
      BY <1>1, <2>1, <2>2
  <1>4. CASE ProbeTimerFires(g)
    <2> DEFINE gr == [group EXCEPT ![g].probeTimer = FALSE]
    <2>1. gr \in [Groups -> GroupType] /\ \A x \in Groups \ {g} : gr[x] = group[x]
      BY <1>0 DEF GroupType
    <2>2. Pump({g}, req, gr, health)
      BY <1>4 DEF ProbeTimerFires
    <2> HIDE DEF gr
    <2> QED
      BY <1>1, <2>1, <2>2
  <1> QED
    BY <1>2, <1>3, <1>4

LEMMA WindowOrderly ==
    ASSUME IInv, IInv', WaitersSound, NEW m \in Models, WindowOpens(m)
    PROVE  Orderly
PROOF
  <1>0. /\ UNCHANGED <<req, group, sticky, probers, stopped>>
        /\ Ranked(req, sticky) /\ Probed(health, probers, stopped) /\ SamePlaces(req, req)
    BY DEF WindowOpens, WaitersSound, SamePlaces
  <1>1. \A n \in Models : /\ health'[n].state = health[n].state
                          /\ health'[n].timer = health[n].timer
                          /\ health'[n].background = health[n].background
                          /\ health'[n].probeInFlight = health[n].probeInFlight
    BY DEF IInv, Good, Shaped, WindowOpens, HealthType
  <1>2. /\ Probed(health', probers', stopped') /\ SamePlaces(req, req') /\ Ranked(req, sticky')
        /\ probers \subseteq probers'
    BY <1>0, <1>1 DEF Probed, ProbedBy
  <1> QED
    BY <1>0, <1>1, <1>2, IdleOrderly

LEMMA ClearOrderly ==
    ASSUME IInv, IInv', WaitersSound, NEW k \in Keys, ClearEscalation(k)
    PROVE  Orderly
PROOF
  <1>0. /\ UNCHANGED <<req, group, health, probers, stopped>>
        /\ Ranked(req, sticky) /\ Probed(health, probers, stopped) /\ SamePlaces(req, req)
        /\ sticky' = [sticky EXCEPT ![k] = -1] /\ sticky \in [Keys -> Ranks \cup {-1}]
        /\ req \in [Callers -> EntryType]
    BY DEF ClearEscalation, WaitersSound, SamePlaces, IInv, Good, Shaped
  <1>1. Ranked(req, sticky')
    <2>1. ASSUME NEW c \in Waiting(Groups, req), KeyOf[c] # None
          PROVE  req[c].rank >= sticky'[KeyOf[c]]
      <3>1. c \in Callers /\ req[c].rank \in Ranks
        BY <1>0 DEF Waiting, EntryType
      <3>2. KeyOf[c] \in Keys
        BY <2>1, <3>1, RequestAssumption
      <3>3. req[c].rank >= sticky[KeyOf[c]]
        BY <1>0, <2>1 DEF Ranked
      <3> QED
        BY <1>0, <3>1, <3>2, <3>3 DEF Ranks
    <2> QED
      BY <2>1 DEF Ranked
  <1>2. Probed(health', probers', stopped') /\ SamePlaces(req, req') /\ probers \subseteq probers'
    BY <1>0
  <1> QED
    BY <1>0, <1>1, <1>2, IdleOrderly

LEMMA RegisterOrderly ==
    ASSUME IInv, IInv', WaitersSound, NEW c \in Callers, RegisterProber(c)
    PROVE  Orderly
PROOF
  <1> DEFINE m == ModelOf[c]
             t == health[m].timer \/ (~stopped /\ health[m].state = "unhealthy")
  <1>0. /\ UNCHANGED <<req, group, sticky, stopped>> /\ probers' = probers \cup {m}
        /\ health' = [health EXCEPT ![m].timer = t]
        /\ Ranked(req, sticky) /\ Probed(health, probers, stopped) /\ SamePlaces(req, req)
        /\ health \in [Models -> HealthType] /\ m \in Models /\ t \in BOOLEAN
    BY RequestAssumption, LimitsAssumption
       DEF RegisterProber, WaitersSound, SamePlaces, IInv, Good, Shaped
  <1>1. ~stopped /\ health[m].state = "unhealthy" => t
    OBVIOUS
  <1> HIDE DEF t, m
  <1>2. \A n \in Models : /\ health'[n].state = health[n].state
                          /\ health'[n].background = health[n].background
                          /\ health'[n].probeInFlight = health[n].probeInFlight
                          /\ health'[n].timer = IF n = m THEN t ELSE health[n].timer
    BY <1>0 DEF HealthType
  <1>3. Probed(health', probers', stopped')
    BY <1>0, <1>1, <1>2 DEF Probed, ProbedBy
  <1>4. SamePlaces(req, req') /\ Ranked(req, sticky') /\ probers \subseteq probers'
    BY <1>0
  <1> QED
    BY <1>0, <1>2, <1>3, <1>4, IdleOrderly

LEMMA ProbeStartsOrderly ==
    ASSUME IInv, IInv', WaitersSound, NEW m \in Models, BackgroundProbeStarts(m)
    PROVE  Orderly
PROOF
  <1> DEFINE h == [health[m] EXCEPT !.timer = FALSE]
             busy == [h EXCEPT !.probeInFlight = TRUE, !.background = @ + 1]
             h2 == IF h.state = "healthy" \/ h.probeInFlight THEN h
                   ELSE IF ~h.windowOpen THEN Armed(m, h) ELSE busy
  <1>0. /\ health' = [health EXCEPT ![m] = h2]
        /\ UNCHANGED <<req, group, sticky, probers, stopped>>
        /\ Ranked(req, sticky) /\ Probed(health, probers, stopped) /\ SamePlaces(req, req)
        /\ health \in [Models -> HealthType] /\ health[m].timer
    BY DEF BackgroundProbeStarts, WaitersSound, SamePlaces, IInv, Good, Shaped
  <1>1. m \in probers
    BY <1>0 DEF Probed, ProbedBy
  <1>2. h \in HealthType /\ h.state = health[m].state /\ ~h.timer
    BY <1>0 DEF HealthType
  <1> HIDE DEF h
  <1>3. busy.state = h.state /\ busy.probeInFlight
    BY <1>2 DEF HealthType
  <1> HIDE DEF busy
  <1>4. ProbedBy(m, h2, probers, stopped) /\ h2.state = h.state
    <2>1. CASE h.state = "healthy" \/ h.probeInFlight
      BY <1>1, <2>1 DEF ProbedBy
    <2>2. CASE ~(h.state = "healthy" \/ h.probeInFlight) /\ ~h.windowOpen
      BY <1>1, <1>2, <2>2, ArmedProbed
    <2>3. CASE ~(h.state = "healthy" \/ h.probeInFlight) /\ h.windowOpen
      BY <1>1, <1>3, <2>3 DEF ProbedBy
    <2> QED
      BY <2>1, <2>2, <2>3
  <1> HIDE DEF h2
  <1>5. /\ Probed(health', probers', stopped')
        /\ \A n \in Models : health[n].state = "unhealthy" => health'[n].state = "unhealthy"
    BY <1>0, <1>2, <1>4 DEF Probed
  <1>6. SamePlaces(req, req') /\ Ranked(req, sticky') /\ probers \subseteq probers'
    BY <1>0
  <1> QED
    BY <1>0, <1>5, <1>6, IdleOrderly

LEMMA ProbeSettlesOrderly ==
    ASSUME IInv, IInv', WaitersSound, NEW m \in Models, NEW outcome \in {"ok", "429", "env"},
           BackgroundProbeSettles(m, outcome)
    PROVE  Orderly
PROOF
  <1> DEFINE less == [health[m] EXCEPT !.background = @ - 1]
             h0 == [health EXCEPT ![m].background = @ - 1]
             hl == [h0 EXCEPT ![m] = Settled(m, @, outcome)]
  <1>0. /\ UNCHANGED <<sticky, probers, stopped>> /\ health[m].background > 0
        /\ Ranked(req, sticky) /\ Probed(health, probers, stopped) /\ SamePlaces(req, req)
        /\ req \in [Callers -> EntryType] /\ group \in [Groups -> GroupType]
        /\ health \in [Models -> HealthType] /\ Owned(req, health, stopped)
        /\ outcome \in Outcomes
    BY DEF BackgroundProbeSettles, WaitersSound, SamePlaces, IInv, Good, Shaped, Outcomes
  <1>1. /\ less \in HealthType /\ less.state = health[m].state /\ less.timer = health[m].timer
        /\ less.probeInFlight = health[m].probeInFlight
    <2>1. health[m].background - 1 \in Nat
      BY <1>0 DEF HealthType
    <2> QED
      BY <1>0, <2>1 DEF HealthType
  <1>2. h0 = [health EXCEPT ![m] = less]
    BY <1>0
  <1> HIDE DEF less, h0
  <1>3. /\ h0 \in [Models -> HealthType] /\ h0[m] = less
        /\ \A n \in Models \ {m} : h0[n] = health[n]
    BY <1>0, <1>1, <1>2
  <1>4. Probed(h0, probers, stopped) /\ \A n \in Models : h0[n].state = health[n].state
    BY <1>0, <1>1, <1>3 DEF Probed, ProbedBy
  <1>5. CASE stopped
    <2>1. Pump({}, req, group, h0) /\ {} \in SUBSET Groups
      BY <1>5 DEF BackgroundProbeSettles, h0
    <2>2. Shaped(req, group, h0) /\ Ranked(req, sticky') /\ Probed(h0, probers', stopped')
          /\ probers \subseteq probers' /\ stopped' = stopped
      BY <1>0, <1>3, <1>4 DEF Shaped
    <2> QED
      BY <1>0, <1>4, <2>1, <2>2, QuietOrderly
  <1>6. CASE ~stopped
    <2>1. Pump(Resumed(m, outcome), req, group, hl) /\ Resumed(m, outcome) \in SUBSET Groups
      BY <1>6 DEF BackgroundProbeSettles, Resumed, h0
    <2>2. /\ Probed(hl, probers, stopped)
          /\ \/ Resumed(m, outcome) = Groups
             \/ \A n \in Models : h0[n].state = "unhealthy" => hl[n].state = "unhealthy"
      <3>1. h0[m].state = health[m].state /\ h0 \in [Models -> HealthType]
            /\ Probed(h0, probers, stopped) /\ outcome \in Outcomes
        BY <1>0, <1>3, <1>4
      <3> QED
        BY <3>1, SettledHealthProbed, ZenonT(60)
    <2>3. Settled(m, h0[m], outcome) \in HealthType
      BY <1>0, <1>1, <1>3, SettledType DEF Owned
    <2>4. hl \in [Models -> HealthType]
      BY <1>3, <2>3
    <2> HIDE DEF hl
    <2>5. Shaped(req, group, hl) /\ Ranked(req, sticky') /\ Probed(hl, probers', stopped')
          /\ probers \subseteq probers' /\ stopped' = stopped
          /\ (Resumed(m, outcome) = Groups
                \/ \A n \in Models : health[n].state = "unhealthy" => hl[n].state = "unhealthy")
      BY <1>0, <1>4, <2>2, <2>4 DEF Shaped
    <2> QED
      BY <1>0, <2>1, <2>5, QuietOrderly
  <1> QED
    BY <1>5, <1>6

-----------------------------------------------------------------------------
(***************************************************************************)
(* Turns that add, remove or re-rank entries.                              *)
(***************************************************************************)
LEMMA AcquireOrderly ==
    ASSUME IInv, IInv', WaitersSound, NEW c \in Callers, Acquire(c)
    PROVE  Orderly
PROOF
  <1> DEFINE rank == IF StickyRank(c) > ClassOf[c] THEN StickyRank(c) ELSE ClassOf[c]
             entry == [status |-> "waiting", rank |-> rank,
                       older |-> Waiting({GroupOf[c]}, req),
                       probe |-> FALSE, noted |-> FALSE]
             rq == [req EXCEPT ![c] = entry]
  <1>0. /\ req \in [Callers -> EntryType] /\ group \in [Groups -> GroupType]
        /\ health \in [Models -> HealthType] /\ sticky \in [Keys -> Ranks \cup {-1}]
        /\ Ordered(req) /\ Ranked(req, sticky) /\ Probed(health, probers, stopped)
        /\ Admitted(req, probers, stopped) /\ UNCHANGED <<sticky, probers, stopped>>
        /\ ~stopped /\ req[c].status = "idle" /\ (c \in Probing => ModelOf[c] \in probers)
        /\ Pump({GroupOf[c]}, rq, group, health) /\ GroupOf[c] \in Groups
    BY RequestAssumption DEF IInv, Good, Shaped, WaitersSound, Acquire
  <1>1. /\ rank \in Ranks
        /\ KeyOf[c] # None => rank >= sticky[KeyOf[c]]
    <2>1. /\ StickyRank(c) \in Ranks \cup {-1}
          /\ KeyOf[c] # None => StickyRank(c) = sticky[KeyOf[c]]
      BY <1>0, RequestAssumption DEF StickyRank
    <2>2. ClassOf[c] \in Ranks
      BY RequestAssumption
    <2> QED
      BY <2>1, <2>2 DEF Ranks
  <1>2. entry \in EntryType
    BY <1>1 DEF EntryType, Waiting
  <1>3. /\ rq \in [Callers -> EntryType] /\ rq[c].status = "waiting" /\ rq[c].rank = rank
        /\ rq[c].older = Waiting({GroupOf[c]}, req) /\ ~Holds(c, rq) /\ ~Holds(c, req)
        /\ \A d \in Callers \ {c} : rq[d] = req[d]
    BY <1>0, <1>2 DEF Holds
  <1> HIDE DEF rank, entry, rq
  <1>4. /\ Waiting(Groups, rq) = Waiting(Groups, req) \cup {c}
        /\ c \notin Waiting(Groups, req)
        /\ \A g \in Groups : ActiveIn(g, rq) = ActiveIn(g, req)
        /\ \A d \in Callers : Holds(d, rq) <=> Holds(d, req)
    BY <1>0, <1>3 DEF Waiting, ActiveIn, Holds
  <1>5. \A d \in Callers : req[d].older \subseteq Waiting(Groups, req)
                           /\ req[d].older \subseteq Callers
    BY <1>0 DEF Ordered, Waiting
  <1>6. Ordered(rq)
    <2>1. ASSUME NEW d \in Callers
          PROVE  rq[d].status # "waiting" => rq[d].older = {}
      BY <1>0, <1>3 DEF Ordered
    <2>2. ASSUME NEW d \in Callers, NEW e \in rq[d].older
          PROVE  e \in Waiting(Groups, rq) /\ d \notin rq[e].older
      <3>1. CASE d = c
        <4>1. e \in Waiting(Groups, req) /\ e \in Callers \ {c}
          BY <1>0, <1>3, <1>4, <2>2, <3>1 DEF Waiting
        <4> QED
          BY <1>3, <1>4, <1>5, <3>1, <4>1
      <3>2. CASE d # c
        <4>1. e \in req[d].older
          BY <1>3, <2>2, <3>2
        <4>2. e \in Waiting(Groups, req) /\ d \notin req[e].older /\ e \in Callers \ {c}
          BY <1>0, <1>4, <1>5, <4>1 DEF Ordered
        <4> QED
          BY <1>3, <1>4, <4>2
      <3> QED
        BY <3>1, <3>2
    <2> QED
      BY <2>1, <2>2 DEF Ordered
  <1>7. Ranked(rq, sticky')
    BY <1>0, <1>1, <1>3, <1>4 DEF Ranked, Waiting
  <1>8. Admitted(rq, probers', stopped')
    BY <1>0, <1>4 DEF Admitted
  <1>9. \A d \in Waiting(Groups, rq) : d \in Waiting(Groups, req) =>
            rq[d].older \subseteq req[d].older
    BY <1>3, <1>4 DEF Waiting
  <1>10. Shaped(rq, group, health) /\ Probed(health, probers', stopped')
    BY <1>0, <1>3 DEF Shaped
  <1>11. \A d \in Waiting(Groups, rq) : GroupOf[d] \notin {GroupOf[c]} =>
            d \in Waiting(Groups, req) /\ GroupOf[d] \in Groups
    BY <1>4, RequestAssumption DEF Waiting
  <1>12. Prepared({GroupOf[c]}, rq, group, health)
    BY <1>0, <1>4, <1>6, <1>7, <1>8, <1>9, <1>10, <1>11 DEF Prepared
  <1> QED
    BY <1>12, PreparedOrderly

\* An entry taken out of the queue, or a request out of its slot.
LEMMA WithoutPlaces ==
    ASSUME NEW c \in Callers, NEW rq \in [Callers -> EntryType], NEW st, NEW pr, NEW over,
           Ordered(rq), Ranked(rq, st), Admitted(rq, pr, over)
    PROVE  LET rq2 == Without(c, rq)
           IN  /\ Ordered(rq2) /\ Ranked(rq2, st) /\ Admitted(rq2, pr, over)
               /\ Waiting(Groups, rq2) = Waiting(Groups, rq) \ {c}
               /\ \A d \in Callers : Holds(d, rq2) <=> Holds(d, rq) /\ d # c
               /\ \A d \in Callers : rq2[d].older \subseteq rq[d].older
PROOF
  <1> DEFINE rq2 == Without(c, rq)
  <1>1. IdleEntry(c).status = "idle" /\ IdleEntry(c).older = {}
    BY DEF IdleEntry
  <1>2. \A d \in Callers : /\ [rq[d] EXCEPT !.older = @ \ {c}].status = rq[d].status
                           /\ [rq[d] EXCEPT !.older = @ \ {c}].rank = rq[d].rank
                           /\ [rq[d] EXCEPT !.older = @ \ {c}].older = rq[d].older \ {c}
    BY DEF EntryType
  <1>3. /\ rq2[c].status = "idle" /\ rq2[c].older = {}
        /\ \A d \in Callers \ {c} : /\ rq2[d].status = rq[d].status
                                    /\ rq2[d].rank = rq[d].rank
                                    /\ rq2[d].older = rq[d].older \ {c}
    BY <1>1, <1>2 DEF Without
  <1> HIDE DEF rq2
  <1>4. Waiting(Groups, rq2) = Waiting(Groups, rq) \ {c}
    BY <1>3 DEF Waiting
  <1>5. \A d \in Callers : Holds(d, rq2) <=> Holds(d, rq) /\ d # c
    BY <1>3 DEF Holds
  <1>6. \A d \in Callers : rq2[d].older \subseteq rq[d].older
    BY <1>3
  <1>7. Ordered(rq2)
    <2>1. ASSUME NEW d \in Callers
          PROVE  rq2[d].status # "waiting" => rq2[d].older = {}
      BY <1>3 DEF Ordered
    <2>2. ASSUME NEW d \in Callers, NEW e \in rq2[d].older
          PROVE  e \in Waiting(Groups, rq2) /\ d \notin rq2[e].older
      <3>1. d # c /\ e \in rq[d].older /\ e # c
        BY <1>3, <2>2
      <3>2. e \in Waiting(Groups, rq) /\ d \notin rq[e].older
        BY <3>1 DEF Ordered
      <3>3. e \in Callers
        BY <3>2 DEF Waiting
      <3> QED
        BY <1>4, <1>6, <3>1, <3>2, <3>3
    <2> QED
      BY <2>1, <2>2 DEF Ordered
  <1>8. Ranked(rq2, st)
    BY <1>3, <1>4 DEF Ranked, Waiting
  <1>9. Admitted(rq2, pr, over)
    BY <1>4 DEF Admitted
  <1> QED
    BY <1>4, <1>5, <1>6, <1>7, <1>8, <1>9 DEF rq2

LEMMA AbortOrderly ==
    ASSUME IInv, IInv', WaitersSound, NEW c \in Callers, AbortWait(c)
    PROVE  Orderly
PROOF
  <1>0. /\ req \in [Callers -> EntryType] /\ Shaped(req', group', health')
        /\ Ordered(req) /\ Ranked(req, sticky) /\ Probed(health, probers, stopped)
        /\ Admitted(req, probers, stopped)
        /\ UNCHANGED <<group, health, sticky, probers, stopped>>
        /\ req' = Without(c, req) /\ req[c].status = "waiting"
    BY DEF IInv, Good, Shaped, WaitersSound, AbortWait
  <1>1. /\ Ordered(req') /\ Ranked(req', sticky) /\ Admitted(req', probers, stopped)
        /\ Waiting(Groups, req') = Waiting(Groups, req) \ {c}
        /\ \A d \in Callers : Holds(d, req') <=> Holds(d, req) /\ d # c
        /\ \A d \in Callers : req'[d].older \subseteq req[d].older
    BY <1>0, WithoutPlaces
  <1>2. \A d \in Callers : Holds(d, req') <=> Holds(d, req)
    BY <1>0, <1>1 DEF Holds
  <1>3. \A g \in Groups : ActiveIn(g, req') = ActiveIn(g, req)
    BY <1>2 DEF ActiveIn
  <1>4. Pump({}, req', group', health')
    BY <1>0, PumpNone
  <1>5. \A d \in Waiting(Groups, req') : d \in Callers /\ GroupOf[d] \in Groups
    BY RequestAssumption DEF Waiting
  <1>6. Prepared({}, req', group', health')
    BY <1>0, <1>1, <1>2, <1>3, <1>4, <1>5 DEF Prepared
  <1> QED
    BY <1>6, PreparedOrderly

LEMMA ReleaseOrderly ==
    ASSUME IInv, IInv', WaitersSound, NEW c \in Callers, Release(c)
    PROVE  Orderly
PROOF
  <1> DEFINE g == GroupOf[c]
             m == ModelOf[c]
             rq == Without(c, req)
             gr == Freed(g)
             hl == IF req[c].probe THEN [health EXCEPT ![m] = StaleProbeSettled(m, @)]
                                   ELSE health
  <1>0. /\ req \in [Callers -> EntryType] /\ group \in [Groups -> GroupType]
        /\ health \in [Models -> HealthType] /\ Accounted(req, group)
        /\ Ordered(req) /\ Ranked(req, sticky) /\ Probed(health, probers, stopped)
        /\ Admitted(req, probers, stopped) /\ UNCHANGED <<sticky, probers, stopped>>
        /\ Holds(c, req) /\ g \in Groups /\ Pump({g}, rq, gr, hl)
    BY RequestAssumption DEF IInv, Good, Shaped, WaitersSound, Release
  <1>1. rq \in [Callers -> EntryType]
    BY <1>0, WithoutEntry
  <1>2. /\ Ordered(rq) /\ Ranked(rq, sticky) /\ Admitted(rq, probers, stopped)
        /\ Waiting(Groups, rq) = Waiting(Groups, req) \ {c}
        /\ \A d \in Callers : Holds(d, rq) <=> Holds(d, req) /\ d # c
        /\ \A d \in Callers : rq[d].older \subseteq req[d].older
    BY <1>0, WithoutPlaces
  <1>3. \A x \in Groups \ {g} : ActiveIn(x, rq) = ActiveIn(x, req)
    BY <1>2 DEF ActiveIn
  <1>4. gr \in [Groups -> GroupType] /\ \A x \in Groups \ {g} : gr[x] = group[x]
    <2>1. c \in ActiveIn(g, req) /\ ActiveIn(g, req) \in SUBSET Callers
      BY <1>0 DEF ActiveIn
    <2>2. group[g].active # 0 /\ group[g].active \in Nat
      <3>1. IsFiniteSet(ActiveIn(g, req))
        BY <2>1, FiniteCallers
      <3> QED
        BY <1>0, <2>1, <3>1, FS_EmptySet DEF Accounted, GroupType
    <2>3. group[g].active - 1 \in Nat
      BY <2>2
    <2> QED
      BY <1>0, <2>3 DEF Freed, GroupType
  <1>5. /\ hl \in [Models -> HealthType] /\ Probed(hl, probers, stopped)
        /\ \A n \in Models : hl[n].state = health[n].state
    <2>1. CASE req[c].probe /\ m \in Models
      <3>1. health[m].timer \/ health[m].background > 0 => m \in probers
        BY <1>0, <2>1 DEF Probed, ProbedBy
      <3>2. /\ StaleProbeSettled(m, health[m]) \in HealthType
            /\ StaleProbeSettled(m, health[m]).state = health[m].state
            /\ ProbedBy(m, StaleProbeSettled(m, health[m]), probers, stopped)
        <4>1. CASE health[m].state = "unhealthy" /\ health[m].probeInFlight
          <5>1. StaleProbeSettled(m, health[m]) = Rescheduled(m, health[m])
            BY <4>1 DEF StaleProbeSettled
          <5>2. health[m] \in HealthType
            BY <1>0, <2>1
          <5> HIDE DEF m
          <5> QED
            BY <2>1, <3>1, <5>1, <5>2, RescheduledType, RescheduledProbed
        <4>2. CASE ~(health[m].state = "unhealthy" /\ health[m].probeInFlight)
          BY <1>0, <2>1, <4>2 DEF StaleProbeSettled, Probed
        <4> QED
          BY <4>1, <4>2
      <3>3. hl = [health EXCEPT ![m] = StaleProbeSettled(m, health[m])]
        BY <2>1
      <3> HIDE DEF hl
      <3> QED
        BY <1>0, <2>1, <3>2, <3>3 DEF Probed
    <2>2. CASE ~(req[c].probe /\ m \in Models)
      <3>1. hl = health
        BY <1>0, <2>2
      <3> QED
        BY <1>0, <3>1
    <2> QED
      BY <2>1, <2>2
  <1> HIDE DEF rq, gr, hl
  <1>6. Shaped(rq, gr, hl)
    BY <1>1, <1>4, <1>5 DEF Shaped
  <1>7. \A d \in Waiting(Groups, rq) : GroupOf[d] \notin {g} =>
            /\ d \in Waiting(Groups, req) /\ GroupOf[d] \in Groups \ {g}
            /\ Gated(d, health) => Gated(d, hl)
    BY <1>2, <1>5, RequestAssumption DEF Waiting, Gated
  <1>8. \A d \in Waiting(Groups, rq) : d \in Callers
    BY DEF Waiting
  <1> HIDE DEF g
  <1>9. Prepared({g}, rq, gr, hl)
    BY <1>0, <1>2, <1>3, <1>4, <1>5, <1>6, <1>7, <1>8 DEF Prepared
  <1> QED
    BY <1>9, PreparedOrderly

LEMMA EscalateOrderly ==
    ASSUME IInv, IInv', WaitersSound, NEW k \in Keys, NEW rank \in Ranks, Escalate(k, rank)
    PROVE  Orderly
PROOF
  <1> DEFINE pinned == IF rank > sticky[k] THEN rank ELSE sticky[k]
             raised == {c \in Waiting(Groups, req) : KeyOf[c] = k /\ req[c].rank < pinned}
             rq == [c \in Callers |-> IF c \in raised THEN [req[c] EXCEPT !.rank = pinned]
                                                      ELSE req[c]]
             P == {GroupOf[c] : c \in raised}
  <1>0. /\ req \in [Callers -> EntryType] /\ group \in [Groups -> GroupType]
        /\ health \in [Models -> HealthType] /\ sticky \in [Keys -> Ranks \cup {-1}]
        /\ Ordered(req) /\ Ranked(req, sticky) /\ Probed(health, probers, stopped)
        /\ Admitted(req, probers, stopped) /\ UNCHANGED <<probers, stopped>>
        /\ Pump(P, rq, group, health) /\ sticky' = [sticky EXCEPT ![k] = pinned]
    BY DEF IInv, Good, Shaped, WaitersSound, Escalate
  <1>1. pinned \in Ranks
    BY <1>0 DEF Ranks
  <1>2. raised \subseteq Callers /\ P \in SUBSET Groups
    BY RequestAssumption DEF Waiting
  <1>3. \A c \in Callers : c \in Waiting(Groups, req) /\ KeyOf[c] = k /\ c \notin raised
                                => req[c].rank >= pinned
    <2>1. \A c \in Callers : req[c].rank \in Int
      BY <1>0 DEF EntryType, Ranks
    <2>2. pinned \in Int
      BY <1>1 DEF Ranks
    <2> HIDE DEF pinned
    <2> QED
      BY <2>1, <2>2
  <1> HIDE DEF pinned
  <1>4. \A c \in Callers : /\ [req[c] EXCEPT !.rank = pinned] \in EntryType
                           /\ [req[c] EXCEPT !.rank = pinned].rank = pinned
                           /\ [req[c] EXCEPT !.rank = pinned].status = req[c].status
                           /\ [req[c] EXCEPT !.rank = pinned].older = req[c].older
    BY <1>0, <1>1, SMTT(30) DEF EntryType
  <1>5. \A c \in Callers : /\ rq[c] \in EntryType
                           /\ rq[c].status = req[c].status /\ rq[c].older = req[c].older
                           /\ c \in raised => rq[c].rank = pinned
                           /\ c \notin raised => rq[c].rank = req[c].rank
    BY <1>0, <1>4
  <1>6. rq \in [Callers -> EntryType]
    BY <1>5
  <1> HIDE DEF raised, rq
  <1>7. /\ Waiting(Groups, rq) = Waiting(Groups, req)
        /\ \A g \in Groups : ActiveIn(g, rq) = ActiveIn(g, req)
        /\ \A c \in Callers : Holds(c, rq) <=> Holds(c, req)
    BY <1>5 DEF Waiting, ActiveIn, Holds
  <1>8. Ordered(rq)
    <2>1. ASSUME NEW c \in Callers
          PROVE  rq[c].status # "waiting" => rq[c].older = {}
      BY <1>0, <1>5 DEF Ordered
    <2>2. ASSUME NEW c \in Callers, NEW d \in rq[c].older
          PROVE  d \in Waiting(Groups, rq) /\ c \notin rq[d].older
      <3>1. d \in Waiting(Groups, req) /\ c \notin req[d].older
        BY <1>0, <1>5, <2>2 DEF Ordered
      <3>2. d \in Callers
        BY <3>1 DEF Waiting
      <3> QED
        BY <1>5, <1>7, <3>1, <3>2
    <2> QED
      BY <2>1, <2>2 DEF Ordered
  <1>9. Ranked(rq, sticky')
    <2>1. ASSUME NEW c \in Waiting(Groups, rq), KeyOf[c] # None
          PROVE  rq[c].rank >= sticky'[KeyOf[c]]
      <3>1. c \in Callers /\ c \in Waiting(Groups, req)
        BY <1>7 DEF Waiting
      <3>2. KeyOf[c] \in Keys
        BY <2>1, <3>1, RequestAssumption
      <3>3. CASE KeyOf[c] = k
        <4>1. sticky'[k] = pinned /\ pinned >= pinned
          BY <1>0, <1>1 DEF Ranks
        <4> QED
          BY <1>3, <1>5, <3>1, <3>3, <4>1
      <3>4. CASE KeyOf[c] # k
        <4>1. c \notin raised
          BY <3>4 DEF raised
        <4>2. sticky'[KeyOf[c]] = sticky[KeyOf[c]]
          BY <1>0, <3>2, <3>4
        <4> QED
          BY <1>0, <1>5, <2>1, <3>1, <4>1, <4>2 DEF Ranked
      <3> QED
        BY <3>3, <3>4
    <2> QED
      BY <2>1 DEF Ranked
  <1>10. Admitted(rq, probers', stopped')
    BY <1>0, <1>7 DEF Admitted
  <1>11. \A c \in Waiting(Groups, rq) : /\ rq[c].older \subseteq req[c].older
                                        /\ GroupOf[c] \in Groups
    BY <1>5, RequestAssumption DEF Waiting
  <1>12. Shaped(rq, group, health) /\ Probed(health, probers', stopped')
    BY <1>0, <1>6 DEF Shaped
  <1> HIDE DEF P
  <1>13. Prepared(P, rq, group, health)
    BY <1>0, <1>2, <1>7, <1>8, <1>9, <1>10, <1>11, <1>12 DEF Prepared
  <1> QED
    BY <1>13, PreparedOrderly

\* stop() settles every waiter: nobody waits for a stopped scheduler.
LEMMA StopOrderly ==
    ASSUME IInv, IInv', WaitersSound, Stop
    PROVE  Orderly
PROOF
  <1>0. /\ req \in [Callers -> EntryType] /\ health \in [Models -> HealthType]
        /\ Ordered(req) /\ Probed(health, probers, stopped)
        /\ UNCHANGED <<sticky, probers>> /\ stopped'
        /\ req' = [c \in Callers |-> IF req[c].status = "waiting" THEN IdleEntry(c)
                                                                 ELSE req[c]]
        /\ health' = [m \in Models |-> [health[m] EXCEPT !.timer = FALSE]]
        /\ Shaped(req', group', health')
    BY DEF IInv, Good, Shaped, WaitersSound, Stop
  <1>1. \A c \in Callers : IdleEntry(c).status = "idle" /\ IdleEntry(c).older = {}
    BY DEF IdleEntry
  <1>2. \A c \in Callers : /\ req'[c].status # "waiting" /\ req'[c].older = {}
                           /\ Holds(c, req') => Holds(c, req)
    BY <1>0, <1>1 DEF Ordered, Holds
  <1>3. Waiting(Groups, req') = {}
    BY <1>2 DEF Waiting
  <1>4. Ordered(req') /\ Ranked(req', sticky') /\ Admitted(req', probers', stopped')
    BY <1>2, <1>3 DEF Ordered, Ranked, Admitted
  <1>5. Probed(health', probers', stopped')
    <2>1. \A m \in Models : ~health'[m].timer /\ health'[m].background = health[m].background
      BY <1>0 DEF HealthType
    <2> QED
      BY <1>0, <2>1 DEF Probed, ProbedBy
  <1>6. Pump({}, req', group', health')
    BY <1>0, PumpNone
  <1>7. Prepared({}, req', group', health')
    BY <1>0, <1>2, <1>3, <1>4, <1>5, <1>6 DEF Prepared
  <1> QED
    BY <1>7, PreparedOrderly

-----------------------------------------------------------------------------
\* Every turn of the event loop is orderly.
LEMMA NextOrderly ==
    ASSUME IInv, WaitersSound, Next
    PROVE  Orderly
PROOF
  <1>0. IInv'
    BY NextGood
  <1>1. ASSUME NEW c \in Callers, Acquire(c) \/ AbortWait(c) \/ Release(c) \/ RegisterProber(c)
        PROVE  Orderly
    BY <1>0, <1>1, AcquireOrderly, AbortOrderly, ReleaseOrderly, RegisterOrderly
  <1>2. ASSUME NEW c \in Callers, NEW outcome \in {"429", "503"}, Throttled(c, outcome)
        PROVE  Orderly
    BY <1>0, <1>2, ThrottledOrderly
  <1>3. ASSUME NEW c \in Callers, NEW outcome \in Outcomes, Finish(c, outcome)
        PROVE  Orderly
    BY <1>0, <1>3, FinishOrderly
  <1>4. ASSUME NEW k \in Keys, NEW rank \in Ranks, Escalate(k, rank)
        PROVE  Orderly
    BY <1>0, <1>4, EscalateOrderly
  <1>5. ASSUME NEW k \in Keys, ClearEscalation(k)
        PROVE  Orderly
    BY <1>0, <1>5, ClearOrderly
  <1>6. ASSUME NEW g \in Groups,
               BackoffElapses(g) \/ BackoffTimerFires(g) \/ ProbeTimerFires(g)
        PROVE  Orderly
    BY <1>0, <1>6, TimersOrderly
  <1>7. ASSUME NEW m \in Models, WindowOpens(m) \/ BackgroundProbeStarts(m)
        PROVE  Orderly
    BY <1>0, <1>7, WindowOrderly, ProbeStartsOrderly
  <1>8. ASSUME NEW m \in Models, NEW outcome \in {"ok", "429", "env"},
               BackgroundProbeSettles(m, outcome)
        PROVE  Orderly
    BY <1>0, <1>8, ProbeSettlesOrderly
  <1>9. CASE Stop
    BY <1>0, <1>9, StopOrderly
  <1> QED
    BY <1>1, <1>2, <1>3, <1>4, <1>5, <1>6, <1>7, <1>8, <1>9 DEF Next

LEMMA InitSound == Init => WaitersSound
PROOF
  <1> SUFFICES ASSUME Init
               PROVE  WaitersSound
    OBVIOUS
  <1>1. \A c \in Callers : req[c].status = "idle" /\ req[c].older = {}
    BY DEF Init, IdleEntry
  <1>2. Waiting(Groups, req) = {}
    BY <1>1 DEF Waiting
  <1>3. Probed(health, probers, stopped)
    BY DEF Init, HealthyModel, Probed, ProbedBy
  <1> QED
    BY <1>1, <1>2, <1>3 DEF WaitersSound, Ordered, Ranked, Admitted

\* The waiters' invariant holds throughout every behaviour.
THEOREM WaitersInvariant == Spec => []WaitersSound
PROOF
  <1>1. IInv /\ WaitersSound /\ [Next]_vars => WaitersSound'
    <2> SUFFICES ASSUME IInv, WaitersSound, [Next]_vars
                 PROVE  WaitersSound'
      OBVIOUS
    <2>1. CASE Next
      BY <2>1, NextOrderly DEF Orderly
    <2>2. CASE UNCHANGED vars
      BY <2>2 DEF vars, WaitersSound
    <2> QED
      BY <2>1, <2>2
  <1> QED
    BY <1>1, InitSound, Invariant, PTL DEF Spec

\* A waiting entry always ranks at least as high as its escalated key, whether the
\* escalation came before the entry or while it waited.
THEOREM EscalationsHeld == Spec => []EscalationHeld
PROOF
  <1>1. WaitersSound => EscalationHeld
    BY DEF WaitersSound, Ranked, EscalationHeld
  <1> QED
    BY <1>1, WaitersInvariant, PTL

\* No healthy waiter is left beside a free slot, unless its group's backoff timer is armed.
THEOREM NoSlotIdle == Spec => []WorkConserving
PROOF
  <1>1. WaitersSound => WorkConserving
    BY DEF WaitersSound, Blocked, Free, WorkConserving
  <1> QED
    BY <1>1, WaitersInvariant, PTL

\* Every waiter has a wakeup to come, for every configuration in which a model shared by
\* several rate-limit groups has a background prober.  (Without one the property is false:
\* a probe admitted in one group leaves the waiters of another without a timer.)
THEOREM WakeupsKept == ASSUME OneGroupUnlessProbed
                       PROVE  Spec => []NoLostWakeup
PROOF
  <1>1. IInv /\ WaitersSound => NoLostWakeup
    <2> SUFFICES ASSUME IInv, WaitersSound, NEW c \in Waiting(Groups, req)
                 PROVE  \/ ActiveIn(GroupOf[c], req) # {}
                        \/ group[GroupOf[c]].backoffTimer
                        \/ group[GroupOf[c]].probeTimer
                        \/ /\ Gated(c, health)
                           /\ \/ ProbesOf(ModelOf[c], req) # {}
                              \/ health[ModelOf[c]].background > 0
                              \/ ModelOf[c] \in probers /\ health[ModelOf[c]].timer
      BY DEF NoLostWakeup
    <2>1. Awake(c, req, group, health, probers)
      BY OneGroupUnlessProbed DEF WaitersSound
    <2>2. ASSUME Gated(c, health), ModelOf[c] \in probers
          PROVE  \/ ProbesOf(ModelOf[c], req) # {}
                 \/ health[ModelOf[c]].background > 0
                 \/ ModelOf[c] \in probers /\ health[ModelOf[c]].timer
      <3>1. ModelOf[c] \in Models /\ ~stopped
        BY <2>2 DEF IInv, WaitersSound, Admitted
      <3>2. health[ModelOf[c]].timer \/ health[ModelOf[c]].probeInFlight
        BY <2>2, <3>1 DEF WaitersSound, Probed, ProbedBy, Gated
      <3> QED
        BY <2>2, <3>1, <3>2 DEF IInv, Good, Owned
    <2> QED
      BY <2>1, <2>2 DEF Awake
  <1> QED
    BY <1>1, Invariant, WaitersInvariant, PTL

\* Nobody is admitted past an entry of its group that outranks it, or is older at its rank,
\* unless that entry's model is unhealthy or its share is full.
THEOREM InOrder == Spec => NoQueueJump
PROOF
  <1>1. IInv /\ WaitersSound /\ [Next]_vars =>
            [\A c, d \in Callers : Overtaken(c, d) => Skipped(c)]_vars
    BY NextOrderly DEF Orderly
  <1>2. (\A c, d \in Callers : Overtaken(c, d) => Skipped(c)) =>
          \A c, d \in Callers :
            (/\ GroupOf[c] = GroupOf[d]
             /\ req[c].status = "waiting" /\ req'[c].status = "waiting"
             /\ ~Holds(d, req) /\ Holds(d, req')
             /\ \/ req'[c].rank > req'[d].rank
                \/ /\ req'[c].rank = req'[d].rank
                   /\ c \in req[d].older \/ req[d].status = "idle")
            => \/ Gated(c, health')
               \/ /\ ShareOf[c] # None
                  /\ Cardinality(ShareHolders(ShareOf[c], GroupOf[c], req'))
                        >= ShareCap(ShareOf[c], GroupOf[c])
    BY DEF Overtaken, Skipped
  <1> QED
    BY <1>1, <1>2, Invariant, WaitersInvariant, PTL DEF Spec, NoQueueJump
=============================================================================
