------------------------------ MODULE LateInput ------------------------------
(***************************************************************************)
(* Corrections of a request that is being answered: its message is edited, *)
(* deleted or added to while the session builds its context, runs, or has  *)
(* just ended (src/agent/late-input.ts, with the parts of app.ts and       *)
(* runner.ts that apply a correction).  A correction files a step that the *)
(* runner takes when its agent is idle: a redo from scratch, or a cancel.  *)
(* A rollout that has posted cannot be discarded: then the correction is   *)
(* steered into the session, and revives it when its run is over.          *)
(*                                                                         *)
(* Left out: the abort that makes the runner idle, steps that only abort a *)
(* request so that a steer is read sooner, how long a call is held, replay *)
(* of earlier results, the record turn, and steers withdrawn again.        *)
(***************************************************************************)
EXTENDS Naturals

CONSTANTS
    Corrections,    \* edits, deletions and additions
    Withdrawals,    \* those that withdraw the request
    MaxRedos,       \* max_redos
    MaxCalls        \* bound on the visible calls of a session

LateInputAssumption == MaxRedos \in Nat /\ MaxCalls \in Nat

VARIABLES
    phase,      \* building, running or ended
    run,        \* what the runner does
    gone,       \* the session is finalized: nothing reaches it
    pending,    \* the step filed, with the corrections it stands for
    rebuild,    \* rebuildBeforeStart
    taken,      \* the corrections of the step being applied
    redoCount,
    call,       \* the visible call of the agent
    posts,      \* irreversible effects recorded on the live lineage
    reacts,     \* undoable effects recorded and not compensated
    posted,     \* the live lineage did deliver a message
    doomed,     \* the run was cancelled or failed
    reviving,   \* a revival is starting
    fate,       \* what became of each correction
    calls       \* counts the visible calls, up to MaxCalls

callVars == <<call, posts, reacts, posted, calls>>
stepVars == <<pending, rebuild, taken, redoCount>>
vars == <<phase, run, gone, pending, rebuild, taken, redoCount, call, posts, reacts,
          posted, doomed, reviving, fate, calls>>

NoStep == [kind |-> "none", who |-> {}]
Step(kind, who) == [kind |-> kind, who |-> who]

\* The corrections of S come to f.
Come(S, f) == fate' = [c \in Corrections |-> IF c \in S THEN f ELSE fate[c]]
Whose(f) == {c \in Corrections : fate[c] = f}

CanDiscardRollout == posts = 0
CanRedo == redoCount < MaxRedos /\ phase # "ended" /\ CanDiscardRollout

(***************************************************************************)
(* A correction arrives.                                                   *)
(***************************************************************************)
\* requestRestart: the build that has not begun reads the correction, the one under way
\* is redone; a running session gets a step, unless it is about to be cancelled.
RequestRestart(c) ==
    \/ /\ phase = "building" /\ run = "preparing"
       /\ Come({c}, "read")
       /\ UNCHANGED <<pending, rebuild>>
    \/ /\ phase = "building" /\ run # "preparing"
       /\ rebuild' = rebuild \cup {c}
       /\ Come({c}, "filed")
       /\ UNCHANGED pending
    \/ /\ phase = "running" /\ pending.kind # "cancel"
       /\ pending' = Step("restart", pending.who \cup {c})
       /\ Come({c}, "filed")
       /\ UNCHANGED rebuild
    \/ /\ phase = "running" /\ pending.kind = "cancel"
       /\ Come({c}, "superseded")
       /\ UNCHANGED <<pending, rebuild>>

\* requestCancel: whatever step was pending is dropped.
RequestCancel(c) ==
    /\ pending' = Step("cancel", {c})
    /\ fate' = [d \in Corrections |-> IF d = c THEN "filed"
                                      ELSE IF d \in pending.who THEN "superseded" ELSE fate[d]]
    /\ UNCHANGED rebuild

\* deliverCorrection, up to the interjection it awaits
Arrive(c) ==
    /\ fate[c] = "new"
    /\ \/ /\ ~gone /\ CanRedo
          /\ IF c \in Withdrawals THEN RequestCancel(c) ELSE RequestRestart(c)
       \/ /\ ~gone /\ phase # "ended" /\ ~CanRedo
          /\ Come({c}, "writing")
          /\ UNCHANGED <<pending, rebuild>>
       \/ /\ ~gone /\ phase = "ended"       \* sent before the run ended, or after
          /\ Come({c}, "late") \/ Come({c}, "undelivered")
          /\ UNCHANGED <<pending, rebuild>>
       \/ /\ gone
          /\ Come({c}, "undelivered")
          /\ UNCHANGED <<pending, rebuild>>
    /\ UNCHANGED <<phase, run, gone, taken, redoCount, callVars, doomed, reviving>>

\* ... and from there: the phase is looked at again.
Interject(c) ==
    /\ fate[c] = "writing"
    /\ Come({c}, CASE gone -> "undelivered"
                   [] phase = "building" -> "parked"
                   [] phase = "running" -> "steered"
                   [] OTHER -> "late")
    /\ UNCHANGED <<phase, run, gone, stepVars, callVars, doomed, reviving>>

(***************************************************************************)
(* The build.                                                              *)
(***************************************************************************)
BuildStarts ==
    /\ run = "preparing"
    /\ run' = "creating"
    /\ UNCHANGED <<phase, gone, stepVars, callVars, doomed, reviving, fate>>

\* Mutant: the build does not look for what arrived under it.
BuildDone_Blind ==
    /\ run = "creating" /\ pending.kind # "cancel"
    /\ phase' = "running"
    /\ run' = "request"
    /\ rebuild' = {}
    /\ Come(Whose("parked"), "steered")
    /\ UNCHANGED <<gone, pending, taken, redoCount, callVars, doomed, reviving>>

\* A context is built, at launch or for a redo: the session is cancelled, is built once
\* more, or runs, with what is past max_redos and what was parked steered into it.
BuildDone ==
    /\ run = "creating"
    /\ \/ /\ pending.kind = "cancel"
          /\ run' = "over" /\ phase' = "ended" /\ gone' = TRUE
          /\ pending' = NoStep /\ rebuild' = {}
          /\ Come(pending.who \cup rebuild \cup Whose("parked"), "withdrawn")
          /\ UNCHANGED redoCount
       \/ /\ pending.kind # "cancel" /\ rebuild # {} /\ redoCount < MaxRedos
          /\ redoCount' = redoCount + 1
          /\ rebuild' = {}
          /\ Come(rebuild, "read")
          /\ UNCHANGED <<run, phase, gone, pending>>
       \/ /\ pending.kind # "cancel" /\ (rebuild = {} \/ redoCount >= MaxRedos)
          /\ run' = "request" /\ phase' = "running"
          /\ rebuild' = {}
          /\ Come(rebuild \cup Whose("parked"), "steered")
          /\ UNCHANGED <<redoCount, gone, pending>>
    /\ UNCHANGED <<taken, callVars, doomed, reviving>>

\* The session ends with its build, and with what was filed for it.
BuildFails ==
    /\ run = "creating"
    /\ run' = "over" /\ phase' = "ended" /\ gone' = TRUE
    /\ pending' = NoStep /\ rebuild' = {}
    /\ Come(pending.who \cup rebuild \cup Whose("parked"), "failed")
    /\ UNCHANGED <<taken, redoCount, callVars, doomed, reviving>>

(***************************************************************************)
(* A turn of the agent, and its visible calls.                             *)
(***************************************************************************)
\* A call is refused while a step is pending; otherwise it goes, or is held first.
Call ==
    /\ run = "request" /\ call = "none"
    /\ calls < MaxCalls
    /\ pending.kind = "none"
    /\ calls' = calls + 1
    /\ call' \in {"held", "released"}
    /\ UNCHANGED <<phase, run, gone, stepVars, posts, reacts, posted, doomed, reviving, fate>>

HeldCallEnds ==
    /\ call = "held"
    /\ call' = IF pending.kind = "none" THEN "released" ELSE "none"
    /\ UNCHANGED <<phase, run, gone, stepVars, posts, reacts, posted, calls, doomed,
                   reviving, fate>>

\* Mutant: a posting call is recorded when it has been executed.
Execute_RecordedLate ==
    /\ call = "released"
    /\ \/ call' = "posting"  /\ UNCHANGED <<posts, reacts>>
       \/ call' = "reacting" /\ reacts' = reacts + 1 /\ UNCHANGED posts
    /\ UNCHANGED <<phase, run, gone, stepVars, posted, calls, doomed, reviving, fate>>

\* The effect is recorded before the call executes; nothing is checked again.
Execute ==
    /\ call = "released"
    /\ \/ call' = "posting"  /\ posts' = posts + 1 /\ UNCHANGED reacts
       \/ call' = "reacting" /\ reacts' = reacts + 1 /\ UNCHANGED posts
    /\ UNCHANGED <<phase, run, gone, stepVars, posted, calls, doomed, reviving, fate>>

\* Delivered; or thrown, and nobody knows; or failed cleanly, or not executed.
CallReturns ==
    /\ \/ /\ call = "posting"
          /\ \/ posted' \in {posted, TRUE} /\ UNCHANGED posts
             \/ posts' = posts - 1 /\ UNCHANGED posted
          /\ UNCHANGED reacts
       \/ /\ call = "reacting"
          /\ reacts' \in {reacts, reacts - 1}
          /\ UNCHANGED <<posts, posted>>
    /\ call' = "none"
    /\ UNCHANGED <<phase, run, gone, stepVars, calls, doomed, reviving, fate>>

\* The agent is idle: at the end of a turn, or aborted for the step.
TurnEnds ==
    /\ run = "request" /\ call = "none"
    /\ run' = "idle"
    /\ UNCHANGED <<phase, gone, stepVars, callVars, doomed, reviving, fate>>

\* The turn failed for good; a step that is pending comes first.
RunFails ==
    /\ run = "idle" /\ pending.kind = "none"
    /\ run' = "closing"
    /\ doomed' = TRUE
    /\ UNCHANGED <<phase, gone, stepVars, callVars, reviving, fate>>

(***************************************************************************)
(* The runner takes the step.                                              *)
(***************************************************************************)
\* With nothing pending it issues a request, or this was its last check.
Check ==
    /\ run = "idle"
    /\ \/ /\ pending.kind = "none"
          /\ run' \in {"request", "closing"}
          /\ UNCHANGED <<pending, taken>>
       \/ /\ pending.kind # "none"
          /\ run' = IF pending.kind = "cancel" THEN "cancelling" ELSE "restarting"
          /\ taken' = pending.who
          /\ pending' = NoStep
    /\ UNCHANGED <<phase, gone, rebuild, redoCount, callVars, doomed, reviving, fate>>

\* The step is impossible: its corrections are steered into the session instead.
FallBack ==
    /\ run' = "idle"
    /\ Come(taken, "steered")
    /\ taken' = {}

\* Checked again now that the agent is idle, and undoable effects are undone, which may
\* fail half way.
Apply ==
    /\ run \in {"cancelling", "restarting"}
    /\ \/ /\ CanDiscardRollout
          /\ run' = IF run = "cancelling" THEN "cancelled" ELSE "forking"
          /\ reacts' = 0
          /\ UNCHANGED <<fate, taken>>
       \/ /\ ~CanDiscardRollout
          /\ FallBack
          /\ UNCHANGED reacts
       \/ /\ CanDiscardRollout /\ reacts > 0
          /\ FallBack
          /\ reacts' \in 1..reacts
    /\ UNCHANGED <<phase, gone, pending, rebuild, redoCount, call, posts, posted, calls,
                   doomed, reviving>>

\* Mutant: a restart filed under the redo stays pending.
Rebuild_KeepsPending ==
    /\ run = "forking"
    /\ run' = "creating" /\ phase' = "building"
    /\ redoCount' = redoCount + 1
    /\ Come(taken, "read")
    /\ taken' = {}
    /\ posts' = 0 /\ posted' = FALSE
    /\ UNCHANGED <<gone, pending, rebuild, call, reacts, calls, doomed, reviving>>

\* markRebuilding: the branch is made, the redo takes in the restart filed meanwhile.
Rebuild ==
    /\ run = "forking"
    /\ run' = "creating" /\ phase' = "building"
    /\ redoCount' = redoCount + 1
    /\ LET absorbed == IF pending.kind = "restart" THEN pending.who ELSE {} IN
        Come(taken \cup absorbed, "read")
    /\ pending' = IF pending.kind = "restart" THEN NoStep ELSE pending
    /\ taken' = {}
    /\ posts' = 0 /\ posted' = FALSE
    /\ UNCHANGED <<gone, rebuild, call, reacts, calls, doomed, reviving>>

Cancel ==
    /\ run = "cancelled"
    /\ run' = "closing"
    /\ doomed' = TRUE
    /\ Come(taken \cup Whose("superseded"), "withdrawn")
    /\ taken' = {}
    /\ UNCHANGED <<phase, gone, pending, rebuild, redoCount, callVars, reviving>>

(***************************************************************************)
(* The end of the run, and its revival.                                    *)
(***************************************************************************)
\* Mutant: a step nobody took goes with the run.
End_Drops ==
    /\ run = "closing"
    /\ run' = "settling" /\ phase' = "ended"
    /\ pending' = NoStep
    /\ UNCHANGED <<gone, rebuild, taken, redoCount, callVars, doomed, reviving, fate>>

\* markEnded: the step nobody took is handed to its fallbacks.
End ==
    /\ run = "closing"
    /\ run' = "settling" /\ phase' = "ended"
    /\ Come(pending.who, "late")
    /\ pending' = NoStep
    /\ UNCHANGED <<gone, rebuild, taken, redoCount, callVars, doomed, reviving>>

\* markSettled, and the session is finalized or kept for a while.
Settle ==
    /\ run = "settling"
    /\ run' = "over"
    /\ gone' = doomed
    /\ UNCHANGED <<phase, stepVars, callVars, doomed, reviving, fate>>

Expire ==
    /\ run = "over" /\ ~gone
    /\ gone' = TRUE
    /\ UNCHANGED <<phase, run, stepVars, callVars, doomed, reviving, fate>>

\* reviveWithCorrection: the first starts a revival, the next join it; when it has begun
\* they are too late.
Revive(c) ==
    /\ fate[c] = "late"
    /\ \/ /\ reviving
          /\ Come({c}, "joining")
          /\ UNCHANGED reviving
       \/ /\ ~reviving /\ ~gone /\ phase = "ended"
          /\ reviving' = TRUE
          /\ Come({c}, "joining")
       \/ /\ ~reviving /\ (gone \/ phase # "ended")
          /\ Come({c}, "undelivered")
          /\ UNCHANGED reviving
    /\ UNCHANGED <<phase, run, gone, stepVars, callVars, doomed>>

\* The run is over, with its record turn: the session runs again, unless it is finalized.
Revived ==
    /\ reviving /\ run = "over"
    /\ reviving' = FALSE
    /\ \/ /\ ~gone
          /\ phase' = "running" /\ run' = "request"
          /\ pending' = NoStep
          /\ Come(Whose("joining"), "revived")
       \/ /\ gone
          /\ Come(Whose("joining"), "undelivered")
          /\ UNCHANGED <<phase, run, pending>>
    /\ UNCHANGED <<gone, rebuild, taken, redoCount, callVars, doomed>>

-----------------------------------------------------------------------------

Init ==
    /\ phase = "building" /\ run = "preparing" /\ gone = FALSE
    /\ pending = NoStep /\ rebuild = {} /\ taken = {} /\ redoCount = 0
    /\ call = "none" /\ posts = 0 /\ reacts = 0 /\ posted = FALSE /\ calls = 0
    /\ doomed = FALSE /\ reviving = FALSE
    /\ fate = [c \in Corrections |-> "new"]

Next ==
    \/ \E c \in Corrections : Arrive(c) \/ Interject(c) \/ Revive(c)
    \/ BuildStarts \/ BuildDone \/ BuildFails
    \/ Call \/ HeldCallEnds \/ Execute \/ CallReturns \/ TurnEnds \/ RunFails
    \/ Check \/ Apply \/ Rebuild \/ Cancel
    \/ End \/ Settle \/ Expire \/ Revived

\* What goes on by itself: the build, the calls and the turns end, the runner goes on.
GoesOn == BuildStarts \/ BuildDone \/ TurnEnds \/ HeldCallEnds \/ Execute \/ CallReturns
          \/ Apply \/ Rebuild \/ Cancel \/ End \/ Settle \/ Revived
SomeDelivery == \E c \in Corrections : Interject(c) \/ Revive(c)

Fairness == WF_vars(GoesOn) /\ WF_vars(Check) /\ WF_vars(SomeDelivery)

Spec == Init /\ [][Next]_vars /\ Fairness

(***************************************************************************)
(* Properties.                                                             *)
(***************************************************************************)
Fates == {"new", "filed", "writing", "parked", "late", "joining", "read", "steered",
          "revived", "withdrawn", "superseded", "undelivered", "failed"}
TypeOK ==
    /\ phase \in {"building", "running", "ended"}
    /\ run \in {"preparing", "creating", "request", "idle", "cancelling", "restarting",
                "cancelled", "forking", "closing", "settling", "over"}
    /\ pending \in [kind : {"none", "restart", "cancel"}, who : SUBSET Corrections]
    /\ rebuild \in SUBSET Corrections /\ taken \in SUBSET Corrections
    /\ redoCount \in Nat
    /\ call \in {"none", "held", "released", "posting", "reacting"}
    /\ posts \in 0..MaxCalls /\ reacts \in 0..MaxCalls /\ calls \in 0..MaxCalls
    /\ {gone, posted, doomed, reviving} \subseteq BOOLEAN
    /\ fate \in [Corrections -> Fates]

\* A rollout that delivered a message is not thrown away, whenever the correction came:
\* between the hold and the call, while the call executed, or after the last check.
NoPostDiscarded == run \in {"cancelled", "forking"} => ~posted

\* A correction that filed a step is one of the step pending, of the rebuild, or of the
\* step being applied: no step is replaced, absorbed or dropped with one of them.  (One
\* superseded by a cancel is left out: see the README.)
NoneForgotten ==
    \A c \in Whose("filed") : c \in pending.who \cup rebuild \cup taken

\* A session is redone at most max_redos times, whatever arrives while it is redone.
RedosBounded == redoCount <= MaxRedos

Settled == Fates \ {"new", "filed", "writing", "parked", "late", "joining"}
\* (Again and again.)  A correction that arrived comes to an end: it is heard, goes with a request that is
\* withdrawn or fails, or is found to reach nobody; none waits in a step for ever.
CorrectionsSettled == \A c \in Corrections : fate[c] \in Settled \cup {"new"}
=============================================================================
