---------------------------- MODULE RequestChain ----------------------------
(***************************************************************************)
(* One request of a session over a chain of models: Layer 0 repeats it     *)
(* (src/agent/request-retry.ts), and at every attempt the resolver         *)
(* chooses the member that serves it (src/agent/model-fallback.ts)         *)
(* from the health of the models, which other requests and the probers     *)
(* change at any time.  The resolver also notes, at dispatch, what a       *)
(* failure may do next; Layer 0 reads those notes when the attempt ends.   *)
(* Three things cut an attempt short: the caller's abort, the first-token  *)
(* deadline, and the wall-clock budget.                                    *)
(*                                                                         *)
(* Left out: the reasons a member is chosen, accounting, the scheduler's   *)
(* queue (see LlmScheduler), the wrapper's strikes (a health that changes  *)
(* at any time), per-user selection, and chains of one member.             *)
(***************************************************************************)
EXTENDS Naturals, FiniteSets, FiniteSetsExt

CONSTANTS
    ChainLength,    \* survivors of the build, the head first
    GroupOf,        \* failure_group of each member
    Quota,          \* primaryAttemptsPerRequest
    MaxTrips,       \* MAX_DEGENERATE_TRIPS_PER_REQUEST
    MaxFlips, MaxReissues   \* bounds

Members == 1..ChainLength

RequestChainAssumption ==
    /\ ChainLength \in Nat /\ ChainLength >= 2
    /\ DOMAIN GroupOf = Members
    /\ Quota \in Nat \ {0}
    /\ {MaxTrips, MaxFlips, MaxReissues} \subseteq Nat

VARIABLES
    health,         \* well: healthy, in budget and fits; due: the head's canary may go; down
    phase,          \* choosing, admission, silent, producing, sleeping or ended
    served,         \* servedKey of the last dispatch, 0 before the first
    used,           \* attempts of this pass, counted up to the quota
    refused, excluded, failedGroups,
    notes,          \* failoverOnFailure, falloverAvailable, refusalFalloverAvailable,
                    \* servedExhausted
    clock,          \* the wall-clock budget: off, running or expired
    cut,            \* why the attempt's controller was aborted
    callerAborted,
    trips,          \* degenerateTrips
    result,         \* how the request ended
    steady, total,  \* history: never unwell; dispatches since a redo, up to Quota + 1
    flips, reissues

passVars == <<used, refused, excluded, failedGroups>>
historyVars == <<steady, total>>
vars == <<health, phase, served, used, refused, excluded, failedGroups, notes, clock,
          cut, callerAborted, trips, result, steady, total, flips, reissues>>

Nobody == 0
Unused == [m \in Members |-> 0]
Counted(f, m, cap) == [f EXCEPT ![m] = IF @ < cap THEN @ + 1 ELSE @]

(***************************************************************************)
(* The resolver.                                                           *)
(***************************************************************************)
\* Mutant: a member keeps its place however often it was asked.
ChooseMember_NoQuota(p) ==
    LET Viable == {m \in Members \ (p.refused \cup p.excluded) : health[m] = "well"}
    IN  IF Viable = {} THEN Nobody ELSE Min(Viable)

\* chooseChainMember: the head, or the head as canary, else the first viable member, those
\* of a failed group last.
ChooseMember(p) ==
    LET Open == {m \in Members \ (p.refused \cup p.excluded) : p.used[m] < Quota}
        Skipped == {m \in Members : GroupOf[m] \in p.failed}
        Viable == {m \in Open : health[m] = "well"}
        Canary == 1 \in Open \ Skipped /\ health[1] = "due"
        First(S) == IF S = {} THEN Nobody ELSE Min(S)
    IN  IF 1 \in Viable \ Skipped \/ Canary THEN 1
        ELSE IF Viable \ Skipped # {} THEN First(Viable \ Skipped)
        ELSE First(Viable)

\* Mutant: a request nobody can serve always goes to the head.
AllUnhealthy_Head == 1

\* The member asked when none is viable.
AllUnhealthy ==
    LET Spared == Members \ refused
        Fresh == Spared \ excluded
    IN  IF Fresh # {} THEN Min(Fresh) ELSE IF Spared # {} THEN Min(Spared) ELSE 1

Pass == [used |-> used, failed |-> failedGroups, refused |-> refused, excluded |-> excluded]
\* The choice without this pass's counts and groups.
Anew == [Pass EXCEPT !.used = Unused, !.failed = {}]

\* Mutant: the notes count the serving member's quota against the others.
Notes_WithPass(m, p) ==
    [moves  |-> ChooseMember(p) \notin {Nobody, m},
     falls  |-> ChooseMember([p EXCEPT !.excluded = @ \cup {m}]) # Nobody,
     yields |-> ChooseMember([Anew EXCEPT !.refused = @ \cup {m}]) # Nobody,
     last   |-> p.used[m] >= Quota]

Notes(m, p) ==
    [moves  |-> ChooseMember(p) \notin {Nobody, m},
     falls  |-> ChooseMember([Anew EXCEPT !.excluded = @ \cup {m}]) # Nobody,
     yields |-> ChooseMember([Anew EXCEPT !.refused = @ \cup {m}]) # Nobody,
     last   |-> p.used[m] >= Quota]

NoNotes == [moves |-> FALSE, falls |-> FALSE, yields |-> FALSE, last |-> FALSE]

\* The notes and the controller are the attempt's: they go with it.
AttemptOver == notes' = NoNotes /\ cut' = "none"

Armed(c) == IF c = "off" THEN "off" ELSE "running"

\* The member is named, the notes are taken, and Layer 0 gives another member than the
\* last one a fresh budget.
Serve(m, anew) ==
    LET p == [(IF anew THEN Anew ELSE Pass) EXCEPT !.used = Counted(@, m, Quota)]
    IN  /\ used' = p.used /\ failedGroups' = p.failed
        /\ notes' = Notes(m, p)
        /\ served' = m
        /\ clock' = IF served # 0 /\ served # m THEN Armed(clock) ELSE clock
        /\ total' = Counted(total, m, Quota + 1)

\* An attempt begins: its controller takes over the signals that are aborted already.
Dispatch ==
    /\ phase = "choosing"
    /\ LET chosen == ChooseMember(Pass)
           anew == chosen = Nobody /\ used # Unused /\ ChooseMember(Anew) # Nobody
       IN  CASE chosen # Nobody -> Serve(chosen, FALSE)
             [] anew            -> Serve(ChooseMember(Anew), TRUE)
             [] OTHER           -> Serve(AllUnhealthy, FALSE)
    /\ cut' = IF callerAborted THEN "caller" ELSE IF clock = "expired" THEN "budget" ELSE "none"
    /\ phase' = "admission"
    /\ UNCHANGED <<health, refused, excluded, callerAborted, trips, result, steady,
                   flips, reissues>>

Ends(r) ==
    /\ phase' = "ended"
    /\ result' = r

\* checkContextBudget, checkCostBudget: surfaced in the class of a content error.
OverBudget ==
    /\ phase = "choosing"
    /\ Ends("over_budget")
    /\ UNCHANGED <<health, served, passVars, notes, clock, cut, callerAborted, trips,
                   historyVars, flips, reissues>>

(***************************************************************************)
(* An attempt, until it ends.                                              *)
(***************************************************************************)
Admitted ==
    /\ phase = "admission" /\ cut = "none"
    /\ phase' = "silent"
    /\ UNCHANGED <<health, served, passVars, notes, clock, cut, callerAborted, trips, result,
                   historyVars, flips, reissues>>

\* The first event the model produced: from now on only the caller can end the attempt.
FirstToken ==
    /\ phase = "silent"
    /\ phase' = "producing"
    /\ UNCHANGED <<health, served, passVars, notes, clock, cut, callerAborted, trips, result,
                   historyVars, flips, reissues>>

StallTimer ==
    /\ phase = "silent" /\ cut = "none"
    /\ cut' = "stall"
    /\ UNCHANGED <<health, phase, served, passVars, notes, clock, callerAborted, trips, result,
                   historyVars, flips, reissues>>

\* Mutant: the budget ends an attempt that has produced tokens.
BudgetExpires_Always ==
    /\ clock = "running"
    /\ phase \in {"admission", "silent", "producing"}
    /\ clock' = "expired"
    /\ cut' = IF cut = "none" THEN "budget" ELSE cut
    /\ UNCHANGED <<health, phase, served, passVars, notes, callerAborted, trips, result,
                   historyVars, flips, reissues>>

\* The budget ends an attempt that has produced nothing, or the sleep before the next.
BudgetExpires ==
    /\ clock = "running"
    /\ phase \in {"admission", "silent", "producing", "sleeping"}
    /\ clock' = "expired"
    /\ cut' = IF phase \in {"admission", "silent"} /\ cut = "none" THEN "budget" ELSE cut
    /\ phase' = IF phase = "sleeping" /\ ~callerAborted THEN "choosing" ELSE phase
    /\ UNCHANGED <<health, served, passVars, notes, callerAborted, trips, result,
                   historyVars, flips, reissues>>

CallerAborts ==
    /\ phase # "ended" /\ ~callerAborted
    /\ callerAborted' = TRUE
    /\ cut' = IF cut = "none" THEN "caller" ELSE cut
    /\ UNCHANGED <<health, phase, served, passVars, notes, clock, trips, result,
                   historyVars, flips, reissues>>

\* The backoff is over ...
Wake ==
    /\ phase = "sleeping" /\ ~callerAborted
    /\ phase' = "choosing"
    /\ UNCHANGED <<health, served, passVars, notes, clock, cut, callerAborted, trips, result,
                   historyVars, flips, reissues>>

\* Mutant: an abort during the backoff is taken up by the next attempt, if there is one.
WakeAborted_Waits ==
    /\ phase = "sleeping" /\ callerAborted /\ clock = "expired"
    /\ Ends("aborted")
    /\ UNCHANGED <<health, served, passVars, notes, clock, cut, callerAborted, trips,
                   historyVars, flips, reissues>>

\* ... or the caller cut it short.
WakeAborted ==
    /\ phase = "sleeping" /\ callerAborted
    /\ Ends("aborted")
    /\ UNCHANGED <<health, served, passVars, notes, clock, cut, callerAborted, trips,
                   historyVars, flips, reissues>>

(***************************************************************************)
(* An attempt ends.                                                        *)
(***************************************************************************)
OnWire == phase \in {"silent", "producing"}

Done ==
    /\ OnWire
    /\ Ends("done") /\ AttemptOver
    /\ UNCHANGED <<health, served, passVars, clock, callerAborted, trips,
                   historyVars, flips, reissues>>

\* A turn the user's budget truncated is asked again of a cheaper model.
Truncated ==
    /\ OnWire /\ reissues < MaxReissues
    /\ reissues' = reissues + 1
    /\ phase' = "choosing" /\ AttemptOver
    /\ UNCHANGED <<health, served, passVars, clock, callerAborted, trips, result,
                   historyVars, flips>>

\* Mutant: a spent budget ends the request although another member can take it.
FallsOver_NotSpent(stall, spent, out) ==
    (stall \/ out) /\ ~callerAborted /\ notes.falls

FallsOver(stall, spent, out) ==
    (stall \/ spent \/ out) /\ ~callerAborted /\ notes.falls

\* Mutant: the member that takes over is charged with the trips of the one before.
TripsAfter_Kept(count, falls, out) == count

TripsAfter(count, falls, out) == IF falls /\ out THEN 0 ELSE count

\* An environmental failure: a stall, a trip of the repetition guard, or an error with a
\* status that may fail its group.  The member is excluded and another takes over, or the
\* request ends, or it is repeated; it sleeps unless the queue is where it waits
\* (isQueueWaitPoint: the head is unhealthy, or its rate limit group backs off).
Fails(stall, trip, listed) ==
    LET now == IF trip THEN Armed(clock) ELSE clock
        count == IF trip THEN trips + 1 ELSE trips
        spent == now = "expired"
        out == count > MaxTrips
        falls == FallsOver(stall, spent, out)
        fails == ~callerAborted /\ ~trip /\ (stall \/ listed \/ notes.last \/ spent)
    IN  /\ AttemptOver
        /\ failedGroups' = IF fails THEN failedGroups \cup {GroupOf[served]} ELSE failedGroups
        /\ excluded' = IF stall \/ falls THEN excluded \cup {served} ELSE excluded
        /\ trips' = TripsAfter(count, falls, out)
        /\ clock' = IF falls THEN Armed(now) ELSE now
        /\ \/ /\ ~falls /\ (out \/ spent)
              /\ Ends("environmental")
           \/ /\ falls \/ ~(out \/ spent)
              /\ \/ phase' = "choosing"
                 \/ /\ ~falls /\ ~notes.moves /\ health[1] # "due"
                    /\ phase' = "sleeping"
              /\ UNCHANGED result
    /\ UNCHANGED <<health, served, used, refused, callerAborted, historyVars,
                   flips, reissues>>

Errs == OnWire /\ \E listed \in BOOLEAN : Fails(FALSE, FALSE, listed)
Degenerates == phase = "producing" /\ ~callerAborted /\ Fails(FALSE, TRUE, FALSE)

\* The attempt was aborted: by a clock, and that is a failure of its member, or by the
\* caller.
Stalled == ~callerAborted /\ (cut = "stall" \/ clock = "expired")
AttemptAborted ==
    /\ cut # "none" /\ phase \in {"admission", "silent", "producing"}
    /\ \/ /\ Stalled
          /\ Fails(cut = "stall" \/ phase # "producing", FALSE, FALSE)
       \/ /\ ~Stalled
          /\ Ends("aborted") /\ AttemptOver
          /\ UNCHANGED <<health, served, passVars, clock, callerAborted, trips,
                         historyVars, flips, reissues>>

\* A content error: another member takes over, or the request ends.
ContentError ==
    /\ OnWire /\ AttemptOver
    /\ \E listed \in BOOLEAN :
        failedGroups' = IF listed /\ ~callerAborted THEN failedGroups \cup {GroupOf[served]}
                        ELSE failedGroups
    /\ \/ /\ notes.falls /\ ~callerAborted
          /\ excluded' = excluded \cup {served}
          /\ clock' = IF clock = "expired" THEN "running" ELSE clock
          /\ phase' = "choosing"
          /\ UNCHANGED result
       \/ /\ ~notes.falls \/ callerAborted
          /\ Ends("content")
          /\ UNCHANGED <<excluded, clock>>
    /\ UNCHANGED <<health, served, used, refused, callerAborted, trips,
                   historyVars, flips, reissues>>

\* A refusal: another member takes over, a rule has it done again, or the request ends.
Refusal ==
    /\ OnWire /\ AttemptOver
    /\ \/ /\ notes.yields /\ clock # "expired"
          /\ refused' = refused \cup {served}
          /\ phase' = "choosing"
          /\ UNCHANGED <<used, result, total, reissues>>
       \/ /\ clock # "expired" /\ reissues < MaxReissues
          /\ reissues' = reissues + 1
          /\ refused' = {}
          /\ used' = Unused /\ total' = Unused
          /\ phase' = "choosing"
          /\ UNCHANGED result
       \/ /\ refused' = refused \cup {served}
          /\ \E r \in {"refusal", "withheld"} : Ends(r)
          /\ UNCHANGED <<used, total, reissues>>
    /\ UNCHANGED <<health, served, excluded, failedGroups, clock, callerAborted,
                   trips, steady, flips>>

\* Other requests, probers and budgets change what can serve.
Flip(m) ==
    /\ phase \notin {"choosing", "ended"}
    /\ flips < MaxFlips
    /\ flips' = flips + 1
    /\ \E h \in {"well", "due", "down"} \ {health[m]} :
        /\ h = "due" => m = 1
        /\ health' = [health EXCEPT ![m] = h]
    /\ steady' = steady \ {m}
    /\ UNCHANGED <<phase, served, passVars, notes, clock, cut, callerAborted, trips, result,
                   total, reissues>>

-----------------------------------------------------------------------------

Init ==
    /\ health \in {h \in [Members -> {"well", "due", "down"}] :
                        \A m \in Members : h[m] = "due" => m = 1}
    /\ phase = "choosing" /\ served = 0
    /\ used = Unused /\ refused = {} /\ excluded = {} /\ failedGroups = {}
    /\ notes = NoNotes
    /\ clock \in {"off", "running"}     \* maxWaitMs: background, or interactive
    /\ cut = "none" /\ callerAborted = FALSE
    /\ trips = 0 /\ result = "none"
    /\ steady = {m \in Members : health[m] = "well"}
    /\ total = Unused
    /\ flips = 0 /\ reissues = 0

Settles == Done \/ Truncated \/ Errs \/ Degenerates \/ ContentError \/ Refusal

Next ==
    \/ Dispatch \/ OverBudget
    \/ Admitted \/ FirstToken \/ StallTimer \/ BudgetExpires \/ CallerAborts
    \/ Wake \/ WakeAborted
    \/ Settles \/ AttemptAborted
    \/ \E m \in Members : Flip(m)

\* After an abort: the next attempt begins, and an aborted attempt or sleep ends.
AbortHandled == callerAborted /\ (Dispatch \/ AttemptAborted \/ WakeAborted)
Fairness == WF_vars(AbortHandled)

Spec == Init /\ [][Next]_vars /\ Fairness

(***************************************************************************)
(* Properties.                                                             *)
(***************************************************************************)
TypeOK ==
    /\ health \in [Members -> {"well", "due", "down"}]
    /\ phase \in {"choosing", "admission", "silent", "producing", "sleeping", "ended"}
    /\ served \in 0..ChainLength
    /\ used \in [Members -> 0..Quota] /\ total \in [Members -> 0..(Quota + 1)]
    /\ {refused, excluded, steady} \subseteq SUBSET Members
    /\ \A g \in failedGroups : \E m \in Members : g = GroupOf[m]
    /\ notes \in [moves : BOOLEAN, falls : BOOLEAN, yields : BOOLEAN, last : BOOLEAN]
    /\ clock \in {"off", "running", "expired"}
    /\ cut \in {"none", "caller", "stall", "budget"} /\ callerAborted \in BOOLEAN
    /\ trips \in 0..(MaxTrips + 1)
    /\ result \in {"none", "done", "withheld", "environmental", "content", "refusal",
                   "over_budget", "aborted"}
    /\ (result = "none") = (phase # "ended")
    /\ flips \in 0..MaxFlips /\ reissues \in 0..MaxReissues

\* A member that could have served all along, and was not yet asked, is asked before any
\* other has more than its attempts, whatever becomes of the others' health and groups.
UntriedReached ==
    \A m \in steady \ (refused \cup excluded) :
        total[m] = 0 => \A n \in Members : total[n] <= Quota

\* No failure ends a request while a member is left that could have served all along and
\* did not fail it: not a spent budget, a failed group, a stall or a bad request.
EndsWhenAlone ==
    result \in {"content", "environmental"} /\ ~callerAborted =>
        steady \subseteq refused \cup excluded \cup {served}

\* (Of a step.)  A member that refused the request, or was excluded from it, is asked again only when
\* every member was; a new pass does not forgive it.
NeverAskedAgain ==
    phase = "choosing" /\ phase' = "admission" /\ served' \in refused \cup excluded
        => Members \subseteq refused \cup excluded

\* (Of a step.)  Once an attempt has produced a token no clock ends it: the request goes on to wait, ends
\* or moves on only with what the attempt itself comes to.
TokensAreSafe == phase = "producing" => cut' \in {cut, "none", "caller"}

\* (Again and again.)  Whatever the request is doing when its caller aborts, it ends.
AbortHeeded == callerAborted => phase = "ended"

\* What the source says of the class "aborted": it is the caller's own.
AbortedByCaller == result = "aborted" => callerAborted
=============================================================================
