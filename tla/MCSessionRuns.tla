--------------------------- MODULE MCSessionRuns ---------------------------
(***************************************************************************)
(* What one trigger goes through, in one run: the activation of its room,  *)
(* the session that answers it, that session's late corrections and the    *)
(* requests it makes.  A behaviour belongs to one instance for good; the   *)
(* variables of the others keep their initial values:                      *)
(*   replies     Sessions with the constants of the configuration: three   *)
(*               replies to one message and a reply to the first one's     *)
(*               session;                                                  *)
(*   resumes     Sessions with two replies to what a session said, which   *)
(*               may both resume it, a longer queue, launches that throw;  *)
(*   recoveries  Sessions with a reply to a session, a proactive post and  *)
(*               a reply to that, and an operator who resumes what failed  *)
(*               or was stopped;                                           *)
(*   activation, late_input, request                                       *)
(*               the modules Activation, LateInput and RequestChain.       *)
(***************************************************************************)
EXTENDS MCSessions

VARIABLE instance

Resumed == INSTANCE Sessions WITH
    ReplyTo <- TwoResumers, Media <- {}, MaxQueued <- 2, Events <- {"launch_throws"}
Recovered == INSTANCE Sessions WITH
    ReplyTo <- RecoveredReplies, Media <- {}, Proactive <- {t3}, Events <- {"operator_resumes"}

-----------------------------------------------------------------------------
\* Activation: two triggers and a message grouped with one of them.
CONSTANTS m1, NoBuffer
VARIABLES state, row, buffer, writes, calls, at, asked, answered, draining, up,
          faults, crashes
roomVars == <<state, row, buffer, writes, calls, at, asked, answered, draining, up, faults, crashes>>

Room == INSTANCE Activation WITH
    Messages <- {t1, t2, m1}, Triggers <- {t1, t2},
    Grouped <- t1 :> {m1} @@ t2 :> {},
    MaxFaults <- 2, MaxCrashes <- 1

-----------------------------------------------------------------------------
\* RequestChain: two members of different groups, each asked once in a pass.
VARIABLES health, requestPhase, served, used, refused, excluded, failedGroups, notes,
          clock, cut, callerAborted, trips, result, steady, total, flips, reissues
requestVars == <<health, requestPhase, served, used, refused, excluded, failedGroups, notes, clock, cut, callerAborted, trips, result, steady, total, flips, reissues>>

Request == INSTANCE RequestChain WITH
    ChainLength <- 2, GroupOf <- <<"g", "h">>, Quota <- 1,
    MaxTrips <- 0, MaxFlips <- 1, MaxReissues <- 1,
    phase <- requestPhase

-----------------------------------------------------------------------------
\* LateInput: two edits and a deletion, one redo, one visible call.
CONSTANTS c1, c2, withdrawal
VARIABLES sessionPhase, run, gone, pending, rebuild, taken, redoCount, call, posts,
          reacts, posted, doomed, reviving, fate, visibleCalls
sessionVars == <<sessionPhase, run, gone, pending, rebuild, taken, redoCount, call, posts, reacts, posted, doomed, reviving, fate, visibleCalls>>

Session == INSTANCE LateInput WITH
    Corrections <- {c1, c2, withdrawal}, Withdrawals <- {withdrawal},
    MaxRedos <- 1, MaxCalls <- 1,
    phase <- sessionPhase, calls <- visibleCalls

-----------------------------------------------------------------------------
ASSUME RoomAssumption == Room!ActivationAssumption
ASSUME RequestAssumption == Request!RequestChainAssumption
ASSUME SessionAssumption == Session!LateInputAssumption
ASSUME ResumedAssumption == Resumed!SessionsAssumption
ASSUME RecoveredAssumption == Recovered!SessionsAssumption

\* A request starts with a health of its own only when it is the one that runs, and with a
\* second member that is well: what was down before differs by a Flip.
RunsInit ==
    /\ instance \in {"replies", "resumes", "recoveries", "activation", "late_input", "request"}
    /\ Init /\ Room!Init /\ Session!Init /\ Request!Init
    /\ health[2] = "well"
    /\ instance # "request" => clock = "off" /\ health[1] = "well"

\* A step of one instance leaves the variables of the others alone.
SessionsOnly == UNCHANGED <<instance, roomVars, sessionVars, requestVars>>
RoomOnly == UNCHANGED <<instance, vars, sessionVars, requestVars>>
SessionOnly == UNCHANGED <<instance, vars, roomVars, requestVars>>
RequestOnly == UNCHANGED <<instance, vars, roomVars, sessionVars>>

RunsNext ==
    \/ instance = "replies" /\ Next /\ SessionsOnly
    \/ instance = "resumes" /\ Resumed!Next /\ SessionsOnly
    \/ instance = "recoveries" /\ Recovered!Next /\ SessionsOnly
    \/ instance = "activation" /\ Room!Next /\ RoomOnly
    \/ instance = "late_input" /\ Session!Next /\ SessionOnly
    \/ instance = "request" /\ Request!Next /\ RequestOnly

runsVars == <<instance, vars, roomVars, sessionVars, requestVars>>

\* The fairness of the instance that runs (the replies' as in Sessions): its first fair
\* action, its second, its third.  The instance never changes, so weak fairness of such a
\* disjunction is weak fairness of the action of the instance.
First ==
    \/ /\ instance = "replies"
       /\ \E t \in Triggers : TriggerStep(t) \/ SessionStep(t)
       /\ SessionsOnly
    \/ instance = "activation" /\ Room!Dispatch /\ RoomOnly
    \/ instance = "late_input" /\ Session!GoesOn /\ SessionOnly
    \/ instance = "request" /\ Request!AbortHandled /\ RequestOnly
Second ==
    \/ instance = "activation" /\ Room!SomeHandler /\ RoomOnly
    \/ instance = "late_input" /\ Session!Check /\ SessionOnly
Third == instance = "late_input" /\ Session!SomeDelivery /\ SessionOnly

RunsSpec ==
    /\ RunsInit /\ [][RunsNext]_runsVars
    /\ WF_runsVars(First) /\ WF_runsVars(Second) /\ WF_runsVars(Third)

-----------------------------------------------------------------------------
\* The types of all the instances; the queues of the two of Sessions differ in length.
TypesOK ==
    /\ instance = "replies" => TypeOK
    /\ instance = "resumes" => Resumed!TypeOK
    /\ instance = "recoveries" => Recovered!TypeOK
    /\ instance = "activation" => Room!TypeOK
    /\ instance = "late_input" => Session!TypeOK
    /\ instance = "request" => Request!TypeOK

\* In both instances of Sessions, two replies to the same message are not answered twice.
NoTwinEver ==
    [][/\ instance = "replies" =>
            \A t \in Triggers : ~Twin(t, Unattributed \cup {"working"})
       /\ instance = "resumes" =>
            \A t \in Triggers : ~Resumed!Twin(t, Unattributed \cup {"working"})]_vars

\* Activation: no message is stranded with status inactive in an active room, the guard
\* stands exactly as long as one prelude runs, the prelude's wait for its trigger means
\* something, no room is left activating, and a trigger is accepted once, whether it
\* activated the room, was held, or found the guard cleared while it was being stored.
ActivationSafe == instance = "activation" =>
    /\ Room!NoneStranded /\ Room!GuardOwned /\ Room!AnsweredOnce
    /\ Room!ReadinessMeansSomething /\ Room!NotLeftActivating

\* Late corrections: no rollout that delivered a message is thrown away, no step that a
\* correction filed is forgotten, and redos are bounded.
CorrectionsKept == instance = "late_input" =>
    /\ Session!NoPostDiscarded
    /\ Session!NoneForgotten /\ Session!RedosBounded

\* A member of the model chain that could have served all along is asked before another
\* has had more than its attempts, and no failure ends the request before it was.
MembersTried == instance = "request" => Request!UntriedReached /\ Request!EndsWhenAlone

\* No step resets a room that is active, asks a member of the model chain again that
\* refused the request while another is left, or lets a clock cut an attempt that has
\* produced a token.
NoStepBack ==
    [][/\ instance = "activation" => Room!StaysActive
       /\ instance = "request" => Request!NeverAskedAgain /\ Request!TokensAreSafe
      ]_<<roomVars, requestVars>>

\* Nobody waits for ever: every reply comes to rest, whatever becomes of the session it
\* waits for; every trigger of a room leaves its prelude and the buffer; a late correction
\* is heard, goes with its request or is found to reach nobody; and an aborted model
\* request ends, whatever it is doing.
EverythingSettles ==
    []<>(/\ instance = "replies" =>
                \A t \in Triggers : stage[t] \in {"unseen", "done", "dropped", "ignored"}
         /\ instance = "activation" => Room!TriggersSettled
         /\ instance = "late_input" => Session!CorrectionsSettled
         /\ instance = "request" => Request!AbortHeeded)
=============================================================================
