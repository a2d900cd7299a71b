-------------------------- MODULE SessionRunsProofs --------------------------
(***************************************************************************)
(* What the proofs about sessions, and about what surrounds one, say of    *)
(* the instances MCSessionRuns checks.  Its three instances of Sessions    *)
(* differ in their constants: the first is that of SessionsProofs itself,  *)
(* the others are carried over from an instance of it, as are the room,    *)
(* the corrections and the request from TriggerProofs.                     *)
(***************************************************************************)
EXTENDS MCSessionRuns, SessionsProofs

Parts == INSTANCE TriggerProofs WITH
    Messages <- {t1, t2, m1}, Triggers <- {t1, t2}, Grouped <- t1 :> {m1} @@ t2 :> {},
    MaxFaults <- 2, MaxCrashes <- 1,
    Corrections <- {c1, c2, withdrawal}, Withdrawals <- {withdrawal},
    MaxRedos <- 1, MaxCalls <- 1,
    ChainLength <- 2, GroupOf <- <<"g", "h">>, Quota <- 1,
    MaxTrips <- 0, MaxFlips <- 1, MaxReissues <- 1
Resumes == INSTANCE SessionsProofs WITH
    ReplyTo <- TwoResumers, Media <- {}, MaxQueued <- 2, Events <- {"launch_throws"}
Recoveries == INSTANCE SessionsProofs WITH
    ReplyTo <- RecoveredReplies, Media <- {}, Proactive <- {t3}, Events <- {"operator_resumes"}

-----------------------------------------------------------------------------
\* The room of the run and that of Parts are the same.
LEMMA SameRoom ==
    /\ Room!ActivationAssumption <=> Parts!Room!ActivationAssumption
    /\ Room!Init <=> Parts!Room!Init
    /\ Room!Next <=> Parts!Room!Next
    /\ Room!TypeOK <=> Parts!Room!TypeOK
    /\ Room!NoneStranded <=> Parts!Room!NoneStranded
    /\ Room!GuardOwned <=> Parts!Room!GuardOwned
    /\ Room!AnsweredOnce <=> Parts!Room!AnsweredOnce
    /\ Room!ReadinessMeansSomething <=> Parts!Room!ReadinessMeansSomething
    /\ Room!NotLeftActivating <=> Parts!Room!NotLeftActivating
    /\ Room!StaysActive <=> Parts!Room!StaysActive
PROOF
  <1>1. Room!ActivationAssumption <=> Parts!Room!ActivationAssumption
    BY Zenon DEF Room!ActivationAssumption, Parts!Room!ActivationAssumption
  <1>2. Room!Init <=> Parts!Room!Init
    BY Zenon DEF Room!Init, Parts!Room!Init
  <1>3. Room!Next <=> Parts!Room!Next
    BY Zenon DEF Room!Next, Room!SomeHandler, Room!Handle, Room!Reset, Room!Promote, Room!Flip,
                 Room!Ready, Room!ToSet, Room!Group, Room!Backfill, Room!Mark, Room!Route,
                 Room!Activate, Room!StoreActive, Room!ResetStranded, Room!StoreStranded,
                 Room!StoreHeld, Room!StoreInactive, Room!Stored, Room!Commits, Room!Restart,
                 Room!Crash, Room!Settled, Room!Drain, Room!WriteRejects, Room!PreludeFails,
                 Room!Abandon, Room!Goes, Room!PreludeWrites, Room!Outcome, Room!Rests,
                 Room!Stores, Room!Dispatch, Room!DeliverTrigger, Room!DeliverPlain, Room!Gate,
                 Room!Guarded, Parts!Room!Next, Parts!Room!SomeHandler, Parts!Room!Handle,
                 Parts!Room!Reset, Parts!Room!Promote, Parts!Room!Flip, Parts!Room!Ready,
                 Parts!Room!ToSet, Parts!Room!Group, Parts!Room!Backfill, Parts!Room!Mark,
                 Parts!Room!Route, Parts!Room!Activate, Parts!Room!StoreActive,
                 Parts!Room!ResetStranded, Parts!Room!StoreStranded, Parts!Room!StoreHeld,
                 Parts!Room!StoreInactive, Parts!Room!Stored, Parts!Room!Commits,
                 Parts!Room!Restart, Parts!Room!Crash, Parts!Room!Settled, Parts!Room!Drain,
                 Parts!Room!WriteRejects, Parts!Room!PreludeFails, Parts!Room!Abandon,
                 Parts!Room!Goes, Parts!Room!PreludeWrites, Parts!Room!Outcome,
                 Parts!Room!Rests, Parts!Room!Stores, Parts!Room!Dispatch,
                 Parts!Room!DeliverTrigger, Parts!Room!DeliverPlain, Parts!Room!Gate,
                 Parts!Room!Guarded
  <1>4. Room!TypeOK <=> Parts!Room!TypeOK
    BY Zenon DEF Room!TypeOK, Room!Guarded, Room!Stages, Room!Settled, Room!Stores,
                 Room!Prelude, Room!PreludeWrites, Parts!Room!TypeOK, Parts!Room!Guarded,
                 Parts!Room!Stages, Parts!Room!Settled, Parts!Room!Stores, Parts!Room!Prelude,
                 Parts!Room!PreludeWrites
  <1>5. Room!NoneStranded <=> Parts!Room!NoneStranded
    BY Zenon DEF Room!NoneStranded, Parts!Room!NoneStranded
  <1>6. Room!GuardOwned <=> Parts!Room!GuardOwned
    BY Zenon DEF Room!GuardOwned, Room!Guarded, Room!Prelude, Room!PreludeWrites,
                 Parts!Room!GuardOwned, Parts!Room!Guarded, Parts!Room!Prelude,
                 Parts!Room!PreludeWrites
  <1>7. Room!AnsweredOnce <=> Parts!Room!AnsweredOnce
    BY Zenon DEF Room!AnsweredOnce, Parts!Room!AnsweredOnce
  <1>8. Room!ReadinessMeansSomething <=> Parts!Room!ReadinessMeansSomething
    BY Zenon DEF Room!ReadinessMeansSomething, Parts!Room!ReadinessMeansSomething
  <1>9. Room!NotLeftActivating <=> Parts!Room!NotLeftActivating
    BY Zenon DEF Room!NotLeftActivating, Room!Guarded, Parts!Room!NotLeftActivating,
                 Parts!Room!Guarded
  <1>10. Room!StaysActive <=> Parts!Room!StaysActive
    BY Zenon DEF Room!StaysActive, Parts!Room!StaysActive
  <1> QED
    BY <1>1, <1>2, <1>3, <1>4, <1>5, <1>6, <1>7, <1>8, <1>9, <1>10

\* The request of the run and that of Parts are the same.
LEMMA SameRequest ==
    /\ Request!RequestChainAssumption <=> Parts!Request!RequestChainAssumption
    /\ Request!Init <=> Parts!Request!Init
    /\ Request!Next <=> Parts!Request!Next
    /\ Request!TypeOK <=> Parts!Request!TypeOK
    /\ Request!UntriedReached <=> Parts!Request!UntriedReached
    /\ Request!EndsWhenAlone <=> Parts!Request!EndsWhenAlone
    /\ Request!NeverAskedAgain <=> Parts!Request!NeverAskedAgain
    /\ Request!TokensAreSafe <=> Parts!Request!TokensAreSafe
PROOF
  <1>1. Request!RequestChainAssumption <=> Parts!Request!RequestChainAssumption
    BY Zenon DEF Request!RequestChainAssumption, Request!Members,
                 Parts!Request!RequestChainAssumption, Parts!Request!Members
  <1>2. Request!Init <=> Parts!Request!Init
    BY Zenon DEF Request!Init, Request!NoNotes, Request!Unused, Request!Members,
                 Parts!Request!Init, Parts!Request!NoNotes, Parts!Request!Unused,
                 Parts!Request!Members
  <1>3. Request!Next <=> Parts!Request!Next
    <2>1. Request!Dispatch <=> Parts!Request!Dispatch
      <3>1. /\ Request!Pass = Parts!Request!Pass /\ Request!Anew = Parts!Request!Anew
            /\ Request!AllUnhealthy = Parts!Request!AllUnhealthy
            /\ Request!Unused = Parts!Request!Unused /\ Request!Nobody = Parts!Request!Nobody
        BY Zenon DEF Request!Pass, Request!Anew, Request!AllUnhealthy, Request!Unused,
                     Request!Nobody, Request!Members, Request!Min, Parts!Request!Pass,
                     Parts!Request!Anew, Parts!Request!AllUnhealthy, Parts!Request!Unused,
                     Parts!Request!Nobody, Parts!Request!Members, Parts!Request!Min
      <3>2. \A p : Request!ChooseMember(p) = Parts!Request!ChooseMember(p)
        BY Zenon DEF Request!ChooseMember, Request!Members, Request!Nobody, Request!Min,
                     Parts!Request!ChooseMember, Parts!Request!Members,
                     Parts!Request!Nobody, Parts!Request!Min
      <3>3. \A m, p : Request!Notes(m, p) = Parts!Request!Notes(m, p)
        BY <3>1, <3>2, Zenon DEF Request!Notes, Parts!Request!Notes
      <3>4. \A m, anew : Request!Serve(m, anew) <=> Parts!Request!Serve(m, anew)
        <4>1. \A c : Request!Armed(c) = Parts!Request!Armed(c)
          BY Zenon DEF Request!Armed, Parts!Request!Armed
        <4>2. \A f, m, cap : Request!Counted(f, m, cap) = Parts!Request!Counted(f, m, cap)
          BY Zenon DEF Request!Counted, Parts!Request!Counted
        <4> QED
          BY <3>1, <3>3, <4>1, <4>2, Zenon DEF Request!Serve, Parts!Request!Serve
      <3> DEFINE chosen == Request!ChooseMember(Request!Pass)
                 again == Request!ChooseMember(Request!Anew)
                 anew == /\ chosen = Request!Nobody /\ used # Request!Unused
                         /\ again # Request!Nobody
      <3>5. Request!Dispatch <=>
              /\ requestPhase = "choosing"
              /\ CASE chosen # Request!Nobody -> Request!Serve(chosen, FALSE)
                   [] anew                    -> Request!Serve(again, TRUE)
                   [] OTHER                   -> Request!Serve(Request!AllUnhealthy, FALSE)
              /\ cut' = IF callerAborted THEN "caller"
                        ELSE IF clock = "expired" THEN "budget" ELSE "none"
              /\ requestPhase' = "admission"
              /\ UNCHANGED <<health, refused, excluded, callerAborted, trips, result, steady,
                             flips, reissues>>
        BY DEF Request!Dispatch
      <3>6. Parts!Request!Dispatch <=>
              /\ requestPhase = "choosing"
              /\ CASE chosen # Request!Nobody -> Request!Serve(chosen, FALSE)
                   [] anew                    -> Request!Serve(again, TRUE)
                   [] OTHER                   -> Request!Serve(Request!AllUnhealthy, FALSE)
              /\ cut' = IF callerAborted THEN "caller"
                        ELSE IF clock = "expired" THEN "budget" ELSE "none"
              /\ requestPhase' = "admission"
              /\ UNCHANGED <<health, refused, excluded, callerAborted, trips, result, steady,
                             flips, reissues>>
        BY <3>1, <3>2, <3>4 DEF Parts!Request!Dispatch
      <3> QED
        BY <3>5, <3>6
    <2>2. Request!OverBudget <=> Parts!Request!OverBudget
      BY Zenon DEF Request!OverBudget, Request!Ends, Request!historyVars, Request!passVars,
                   Parts!Request!OverBudget, Parts!Request!Ends, Parts!Request!historyVars,
                   Parts!Request!passVars
    <2>3. Request!Admitted <=> Parts!Request!Admitted
      BY Zenon DEF Request!Admitted, Request!historyVars, Request!passVars,
                   Parts!Request!Admitted, Parts!Request!historyVars, Parts!Request!passVars
    <2>4. Request!FirstToken <=> Parts!Request!FirstToken
      BY Zenon DEF Request!FirstToken, Request!historyVars, Request!passVars,
                   Parts!Request!FirstToken, Parts!Request!historyVars, Parts!Request!passVars
    <2>5. Request!StallTimer <=> Parts!Request!StallTimer
      BY Zenon DEF Request!StallTimer, Request!historyVars, Request!passVars,
                   Parts!Request!StallTimer, Parts!Request!historyVars, Parts!Request!passVars
    <2>6. Request!BudgetExpires <=> Parts!Request!BudgetExpires
      BY Zenon DEF Request!BudgetExpires, Request!historyVars, Request!passVars,
                   Parts!Request!BudgetExpires, Parts!Request!historyVars, Parts!Request!passVars
    <2>7. Request!CallerAborts <=> Parts!Request!CallerAborts
      BY Zenon DEF Request!CallerAborts, Request!historyVars, Request!passVars,
                   Parts!Request!CallerAborts, Parts!Request!historyVars, Parts!Request!passVars
    <2>8. Request!Wake <=> Parts!Request!Wake
      BY Zenon DEF Request!Wake, Request!historyVars, Request!passVars, Parts!Request!Wake,
                   Parts!Request!historyVars, Parts!Request!passVars
    <2>9. Request!WakeAborted <=> Parts!Request!WakeAborted
      BY Zenon DEF Request!WakeAborted, Request!Ends, Request!historyVars, Request!passVars,
                   Parts!Request!WakeAborted, Parts!Request!Ends, Parts!Request!historyVars,
                   Parts!Request!passVars
    <2>10. Request!Settles <=> Parts!Request!Settles
      BY Zenon DEF Request!Settles, Request!Refusal, Request!Unused, Request!Members,
                   Request!ContentError, Request!Degenerates, Request!Errs, Request!Fails,
                   Request!TripsAfter, Request!FallsOver, Request!Armed, Request!Truncated,
                   Request!Done, Request!OnWire, Request!Ends, Request!AttemptOver,
                   Request!NoNotes, Request!historyVars, Request!passVars, Parts!Request!Settles,
                   Parts!Request!Refusal, Parts!Request!Unused, Parts!Request!Members,
                   Parts!Request!ContentError, Parts!Request!Degenerates, Parts!Request!Errs,
                   Parts!Request!Fails, Parts!Request!TripsAfter, Parts!Request!FallsOver,
                   Parts!Request!Armed, Parts!Request!Truncated, Parts!Request!Done,
                   Parts!Request!OnWire, Parts!Request!Ends, Parts!Request!AttemptOver,
                   Parts!Request!NoNotes, Parts!Request!historyVars, Parts!Request!passVars
    <2>11. Request!AttemptAborted <=> Parts!Request!AttemptAborted
      BY Zenon DEF Request!AttemptAborted, Request!Stalled, Request!Fails, Request!TripsAfter,
                   Request!FallsOver, Request!Armed, Request!Ends, Request!AttemptOver,
                   Request!NoNotes, Request!historyVars, Request!passVars,
                   Parts!Request!AttemptAborted, Parts!Request!Stalled, Parts!Request!Fails,
                   Parts!Request!TripsAfter, Parts!Request!FallsOver, Parts!Request!Armed,
                   Parts!Request!Ends, Parts!Request!AttemptOver, Parts!Request!NoNotes,
                   Parts!Request!historyVars, Parts!Request!passVars
    <2>12. \A m \in 1..2 : Request!Flip(m) <=> Parts!Request!Flip(m)
      BY Zenon DEF Request!Flip, Request!passVars, Parts!Request!Flip, Parts!Request!passVars
    <2>13. Request!Members = 1..2 /\ Parts!Request!Members = 1..2
      BY DEF Request!Members, Parts!Request!Members
    <2> QED
      BY <2>1, <2>2, <2>3, <2>4, <2>5, <2>6, <2>7, <2>8, <2>9, <2>10, <2>11, <2>12, <2>13, Zenon
         DEF Request!Next, Parts!Request!Next
  <1>4. Request!TypeOK <=> Parts!Request!TypeOK
    BY Zenon DEF Request!TypeOK, Request!Members, Parts!Request!TypeOK, Parts!Request!Members
  <1>5. Request!UntriedReached <=> Parts!Request!UntriedReached
    BY Zenon DEF Request!UntriedReached, Request!Members, Parts!Request!UntriedReached,
                 Parts!Request!Members
  <1>6. Request!EndsWhenAlone <=> Parts!Request!EndsWhenAlone
    BY Zenon DEF Request!EndsWhenAlone, Parts!Request!EndsWhenAlone
  <1>7. Request!NeverAskedAgain <=> Parts!Request!NeverAskedAgain
    BY Zenon DEF Request!NeverAskedAgain, Request!Members, Parts!Request!NeverAskedAgain,
                 Parts!Request!Members
  <1>8. Request!TokensAreSafe <=> Parts!Request!TokensAreSafe
    BY Zenon DEF Request!TokensAreSafe, Parts!Request!TokensAreSafe
  <1> QED
    BY <1>1, <1>2, <1>3, <1>4, <1>5, <1>6, <1>7, <1>8

\* The session of the run and that of Parts are the same.
LEMMA SameSession ==
    /\ Session!LateInputAssumption <=> Parts!Session!LateInputAssumption
    /\ Session!Init <=> Parts!Session!Init
    /\ Session!Next <=> Parts!Session!Next
    /\ Session!TypeOK <=> Parts!Session!TypeOK
    /\ Session!NoPostDiscarded <=> Parts!Session!NoPostDiscarded
    /\ Session!NoneForgotten <=> Parts!Session!NoneForgotten
    /\ Session!RedosBounded <=> Parts!Session!RedosBounded
PROOF
  <1>1. Session!LateInputAssumption <=> Parts!Session!LateInputAssumption
    BY Zenon DEF Session!LateInputAssumption, Parts!Session!LateInputAssumption
  <1>2. Session!Init <=> Parts!Session!Init
    BY Zenon DEF Session!Init, Session!NoStep, Parts!Session!Init, Parts!Session!NoStep
  <1>3. Session!Next <=> Parts!Session!Next
    BY Zenon DEF Session!Next, Session!Revived, Session!Revive, Session!Expire, Session!Settle,
                 Session!End, Session!Cancel, Session!Rebuild, Session!Apply, Session!FallBack,
                 Session!Check, Session!RunFails, Session!TurnEnds, Session!CallReturns,
                 Session!Execute, Session!HeldCallEnds, Session!Call, Session!BuildFails,
                 Session!BuildDone, Session!Whose, Session!NoStep, Session!BuildStarts,
                 Session!Interject, Session!stepVars, Session!Arrive, Session!RequestCancel,
                 Session!RequestRestart, Session!Step, Session!CanRedo,
                 Session!CanDiscardRollout, Session!Come, Session!callVars, Parts!Session!Next,
                 Parts!Session!Revived, Parts!Session!Revive, Parts!Session!Expire,
                 Parts!Session!Settle, Parts!Session!End, Parts!Session!Cancel,
                 Parts!Session!Rebuild, Parts!Session!Apply, Parts!Session!FallBack,
                 Parts!Session!Check, Parts!Session!RunFails, Parts!Session!TurnEnds,
                 Parts!Session!CallReturns, Parts!Session!Execute, Parts!Session!HeldCallEnds,
                 Parts!Session!Call, Parts!Session!BuildFails, Parts!Session!BuildDone,
                 Parts!Session!Whose, Parts!Session!NoStep, Parts!Session!BuildStarts,
                 Parts!Session!Interject, Parts!Session!stepVars, Parts!Session!Arrive,
                 Parts!Session!RequestCancel, Parts!Session!RequestRestart, Parts!Session!Step,
                 Parts!Session!CanRedo, Parts!Session!CanDiscardRollout, Parts!Session!Come,
                 Parts!Session!callVars
  <1>4. Session!TypeOK <=> Parts!Session!TypeOK
    BY Zenon DEF Session!TypeOK, Session!Fates, Parts!Session!TypeOK, Parts!Session!Fates
  <1>5. Session!NoPostDiscarded <=> Parts!Session!NoPostDiscarded
    BY Zenon DEF Session!NoPostDiscarded, Parts!Session!NoPostDiscarded
  <1>6. Session!NoneForgotten <=> Parts!Session!NoneForgotten
    BY Zenon DEF Session!NoneForgotten, Session!Whose, Parts!Session!NoneForgotten,
                 Parts!Session!Whose
  <1>7. Session!RedosBounded <=> Parts!Session!RedosBounded
    BY Zenon DEF Session!RedosBounded, Parts!Session!RedosBounded
  <1> QED
    BY <1>1, <1>2, <1>3, <1>4, <1>5, <1>6, <1>7

\* The sessions of the run with two resumers and those of Resumes are the same.
LEMMA SameResumed ==
    /\ Resumed!SessionsAssumption <=> Resumes!SessionsAssumption
    /\ Resumed!Init <=> Resumes!Init
    /\ Resumed!Next <=> Resumes!Next
    /\ Resumed!TypeOK <=> Resumes!TypeOK
PROOF
  <1>1. Resumed!SessionsAssumption <=> Resumes!SessionsAssumption
    BY Zenon DEF Resumed!SessionsAssumption, Resumed!IsFiniteSet, Resumes!SessionsAssumption,
                 Resumes!IsFiniteSet
  <1>2. Resumed!Init <=> Resumes!Init
    BY Zenon DEF Resumed!Init, Resumes!Init
  <1>3. Resumed!Next <=> Resumes!Next
    BY Zenon DEF Resumed!Next, Resumed!SessionStep, Resumed!Revive, Resumed!InterruptedSettles,
                 Resumed!RecoveryFails, Resumed!FailSettles, Resumed!RunFails,
                 Resumed!Complete, Resumed!RolloutEnds, Resumed!ReadSteers, Resumed!BuildFails,
                 Resumed!GoLive, Resumed!TriggerStep, Resumed!Close, Resumed!ResumeDeclined,
                 Resumed!ResumeAccepted, Resumed!ResumeAwaited, Resumed!Register,
                 Resumed!Attach, Resumed!Conditioned, Resumed!Regrouped, Resumed!GroupResolved,
                 Resumed!Expire, Resumed!Interrupt, Resumed!SpinOff, Resumed!ResumeThrows,
                 Resumed!Leave, Resumed!Evict, Resumed!Settled, Resumed!Unread,
                 Resumed!MayRevive, Resumed!Reparked, Resumed!Runs, Resumed!Recover,
                 Resumed!Parked, Resumed!Post, Resumed!Active, Resumed!Begins,
                 Resumed!LaunchThrows, Resumed!Drain, Resumed!Begun, Resumed!ResumeClaims,
                 Resumed!Occupied, Resumed!InMemory, Resumed!SlotFreed, Resumed!Unclaim,
                 Resumed!Spawn, Resumed!Accept, Resumed!QueueFull, Resumed!Claim,
                 Resumed!Coalesce, Resumed!Coalescing, Resumed!SteerableSoon, Resumed!Near,
                 Resumed!FirstCoTarget, Resumed!CoTargets, Resumed!SteerReply, Resumed!Folded,
                 Resumed!SteersReply, Resumed!Live, Resumed!TargetExists,
                 Resumed!IsReplyToSession, Resumed!records, Resumed!registry,
                 Resumed!coordinator, Resumes!Next, Resumes!SessionStep, Resumes!Revive,
                 Resumes!InterruptedSettles, Resumes!RecoveryFails, Resumes!FailSettles,
                 Resumes!RunFails, Resumes!Complete, Resumes!RolloutEnds, Resumes!ReadSteers,
                 Resumes!BuildFails, Resumes!GoLive, Resumes!TriggerStep, Resumes!Close,
                 Resumes!ResumeDeclined, Resumes!ResumeAccepted, Resumes!ResumeAwaited,
                 Resumes!Register, Resumes!Attach, Resumes!Conditioned, Resumes!Regrouped,
                 Resumes!GroupResolved, Resumes!Expire, Resumes!Interrupt, Resumes!SpinOff,
                 Resumes!ResumeThrows, Resumes!Leave, Resumes!Evict, Resumes!Settled,
                 Resumes!Unread, Resumes!MayRevive, Resumes!Reparked, Resumes!Runs,
                 Resumes!Recover, Resumes!Parked, Resumes!Post, Resumes!Active, Resumes!Begins,
                 Resumes!LaunchThrows, Resumes!Drain, Resumes!Begun, Resumes!ResumeClaims,
                 Resumes!Occupied, Resumes!InMemory, Resumes!SlotFreed, Resumes!Unclaim,
                 Resumes!Spawn, Resumes!Accept, Resumes!QueueFull, Resumes!Claim,
                 Resumes!Coalesce, Resumes!Coalescing, Resumes!SteerableSoon, Resumes!Near,
                 Resumes!FirstCoTarget, Resumes!CoTargets, Resumes!SteerReply, Resumes!Folded,
                 Resumes!SteersReply, Resumes!Live, Resumes!TargetExists,
                 Resumes!IsReplyToSession, Resumes!records, Resumes!registry,
                 Resumes!coordinator
  <1>4. Resumed!TypeOK <=> Resumes!TypeOK
    BY Zenon DEF Resumed!TypeOK, Resumed!Stages, Resumed!Runs, Resumed!Unattributed,
                 Resumes!TypeOK, Resumes!Stages, Resumes!Runs, Resumes!Unattributed
  <1> QED
    BY <1>1, <1>2, <1>3, <1>4

\* The sessions of the run with an operator and those of Recoveries are the same.
LEMMA SameRecovered ==
    /\ Recovered!SessionsAssumption <=> Recoveries!SessionsAssumption
    /\ Recovered!Init <=> Recoveries!Init
    /\ Recovered!Next <=> Recoveries!Next
    /\ Recovered!TypeOK <=> Recoveries!TypeOK
PROOF
  <1>1. Recovered!SessionsAssumption <=> Recoveries!SessionsAssumption
    BY Zenon DEF Recovered!SessionsAssumption, Recovered!IsFiniteSet,
                 Recoveries!SessionsAssumption, Recoveries!IsFiniteSet
  <1>2. Recovered!Init <=> Recoveries!Init
    BY Zenon DEF Recovered!Init, Recoveries!Init
  <1>3. Recovered!Next <=> Recoveries!Next
    BY Zenon DEF Recovered!Next, Recovered!SessionStep, Recovered!Revive,
                 Recovered!InterruptedSettles, Recovered!RecoveryFails, Recovered!FailSettles,
                 Recovered!RunFails, Recovered!Complete, Recovered!RolloutEnds,
                 Recovered!ReadSteers, Recovered!BuildFails, Recovered!GoLive,
                 Recovered!TriggerStep, Recovered!Close, Recovered!ResumeDeclined,
                 Recovered!ResumeAccepted, Recovered!ResumeAwaited, Recovered!Register,
                 Recovered!Attach, Recovered!Conditioned, Recovered!Regrouped,
                 Recovered!GroupResolved, Recovered!Expire, Recovered!Interrupt,
                 Recovered!SpinOff, Recovered!ResumeThrows, Recovered!Leave, Recovered!Evict,
                 Recovered!Settled, Recovered!Unread, Recovered!MayRevive, Recovered!Reparked,
                 Recovered!Runs, Recovered!Recover, Recovered!Parked, Recovered!Post,
                 Recovered!Active, Recovered!Begins, Recovered!LaunchThrows, Recovered!Drain,
                 Recovered!Begun, Recovered!ResumeClaims, Recovered!Occupied,
                 Recovered!InMemory, Recovered!SlotFreed, Recovered!Unclaim, Recovered!Spawn,
                 Recovered!Accept, Recovered!QueueFull, Recovered!Claim, Recovered!Coalesce,
                 Recovered!Coalescing, Recovered!SteerableSoon, Recovered!Near,
                 Recovered!FirstCoTarget, Recovered!CoTargets, Recovered!SteerReply,
                 Recovered!Folded, Recovered!SteersReply, Recovered!Live,
                 Recovered!TargetExists, Recovered!IsReplyToSession, Recovered!records,
                 Recovered!registry, Recovered!coordinator, Recoveries!Next,
                 Recoveries!SessionStep, Recoveries!Revive, Recoveries!InterruptedSettles,
                 Recoveries!RecoveryFails, Recoveries!FailSettles, Recoveries!RunFails,
                 Recoveries!Complete, Recoveries!RolloutEnds, Recoveries!ReadSteers,
                 Recoveries!BuildFails, Recoveries!GoLive, Recoveries!TriggerStep,
                 Recoveries!Close, Recoveries!ResumeDeclined, Recoveries!ResumeAccepted,
                 Recoveries!ResumeAwaited, Recoveries!Register, Recoveries!Attach,
                 Recoveries!Conditioned, Recoveries!Regrouped, Recoveries!GroupResolved,
                 Recoveries!Expire, Recoveries!Interrupt, Recoveries!SpinOff,
                 Recoveries!ResumeThrows, Recoveries!Leave, Recoveries!Evict,
                 Recoveries!Settled, Recoveries!Unread, Recoveries!MayRevive,
                 Recoveries!Reparked, Recoveries!Runs, Recoveries!Recover, Recoveries!Parked,
                 Recoveries!Post, Recoveries!Active, Recoveries!Begins,
                 Recoveries!LaunchThrows, Recoveries!Drain, Recoveries!Begun,
                 Recoveries!ResumeClaims, Recoveries!Occupied, Recoveries!InMemory,
                 Recoveries!SlotFreed, Recoveries!Unclaim, Recoveries!Spawn, Recoveries!Accept,
                 Recoveries!QueueFull, Recoveries!Claim, Recoveries!Coalesce,
                 Recoveries!Coalescing, Recoveries!SteerableSoon, Recoveries!Near,
                 Recoveries!FirstCoTarget, Recoveries!CoTargets, Recoveries!SteerReply,
                 Recoveries!Folded, Recoveries!SteersReply, Recoveries!Live,
                 Recoveries!TargetExists, Recoveries!IsReplyToSession, Recoveries!records,
                 Recoveries!registry, Recoveries!coordinator
  <1>4. Recovered!TypeOK <=> Recoveries!TypeOK
    BY Zenon DEF Recovered!TypeOK, Recovered!Stages, Recovered!Runs, Recovered!Unattributed,
                 Recoveries!TypeOK, Recoveries!Stages, Recoveries!Runs, Recoveries!Unattributed
  <1> QED
    BY <1>1, <1>2, <1>3, <1>4

-----------------------------------------------------------------------------
(***************************************************************************)
(* The sessions.  A behaviour of another part leaves them as they began.   *)
(***************************************************************************)
\* What is promised of the sessions does not mention the constants the instances differ in.
LEMMA SessionsAlike ==
    /\ Resumes!SlotAccounting <=> SlotAccounting
    /\ Resumes!QueueMoves <=> QueueMoves
    /\ Resumes!ClaimsOwned <=> ClaimsOwned
    /\ Resumes!ParkedHaveOwner <=> ParkedHaveOwner
    /\ Recoveries!SlotAccounting <=> SlotAccounting
    /\ Recoveries!QueueMoves <=> QueueMoves
    /\ Recoveries!ClaimsOwned <=> ClaimsOwned
    /\ Recoveries!ParkedHaveOwner <=> ParkedHaveOwner
PROOF
  <1>1. Resumes!SlotAccounting <=> SlotAccounting
    BY Zenon DEF Resumes!SlotAccounting, Resumes!HoldersIn, Resumes!Cardinality,
                 Resumes!Unattributed,
                 Resumes!Runs, SlotAccounting, HoldersIn, Cardinality, Unattributed, Runs
  <1>2. Resumes!QueueMoves <=> QueueMoves
    BY Zenon DEF Resumes!QueueMoves, QueueMoves, Resumes!ToSet, ToSet
  <1>3. Resumes!ClaimsOwned <=> ClaimsOwned
    BY Zenon DEF Resumes!ClaimsOwned, ClaimsOwned, Resumes!Unattributed, Unattributed,
                 Resumes!InMemory, InMemory
  <1>4. Resumes!ParkedHaveOwner <=> ParkedHaveOwner
    BY Zenon DEF Resumes!ParkedHaveOwner, ParkedHaveOwner, Resumes!Unattributed, Unattributed
  <1>5. Recoveries!SlotAccounting <=> SlotAccounting
    BY Zenon DEF Recoveries!SlotAccounting, Recoveries!HoldersIn, Recoveries!Cardinality,
                 Recoveries!Unattributed,
                 Recoveries!Runs, SlotAccounting, HoldersIn, Cardinality, Unattributed, Runs
  <1>6. Recoveries!QueueMoves <=> QueueMoves
    BY Zenon DEF Recoveries!QueueMoves, QueueMoves, Recoveries!ToSet, ToSet
  <1>7. Recoveries!ClaimsOwned <=> ClaimsOwned
    BY Zenon DEF Recoveries!ClaimsOwned, ClaimsOwned, Recoveries!Unattributed, Unattributed,
                 Recoveries!InMemory, InMemory
  <1>8. Recoveries!ParkedHaveOwner <=> ParkedHaveOwner
    BY Zenon DEF Recoveries!ParkedHaveOwner, ParkedHaveOwner, Recoveries!Unattributed,
                 Unattributed
  <1> QED
    BY <1>1, <1>2, <1>3, <1>4, <1>5, <1>6, <1>7, <1>8

\* The sessions of all three instances begin alike.
LEMMA SessionsBegin == Init => Resumes!Init /\ Recoveries!Init
BY Zenon DEF Init, Resumes!Init, Recoveries!Init

SessionsInv ==
    /\ instance \notin {"resumes", "recoveries"} => IInv
    /\ instance = "resumes" => Resumes!IInv
    /\ instance = "recoveries" => Recoveries!IInv

\* A step of another part leaves the sessions as they are.
LEMMA SessionsUnchanged ==
    ASSUME SessionsInv, UNCHANGED <<instance, vars>>
    PROVE  SessionsInv'
PROOF
  <1>1. IInv => IInv'
    BY NextGood
  <1>2. UNCHANGED Resumes!vars
    BY Zenon DEF vars, Resumes!vars
  <1>3. UNCHANGED Recoveries!vars
    BY Zenon DEF vars, Recoveries!vars
  <1>4. Resumes!IInv => Resumes!IInv'
    BY <1>2, SameResumed, ResumedAssumption, Resumes!NextGood
  <1>5. Recoveries!IInv => Recoveries!IInv'
    BY <1>3, SameRecovered, RecoveredAssumption, Recoveries!NextGood
  <1> QED
    BY <1>1, <1>4, <1>5 DEF SessionsInv

\* Whichever instance runs, its sessions keep their invariant.
THEOREM SessionsInvHolds == RunsSpec => []SessionsInv
PROOF
  <1>1. RunsInit => SessionsInv
    BY SessionsBegin, InitGood, SameResumed, SameRecovered, ResumedAssumption,
       RecoveredAssumption, Resumes!InitGood, Recoveries!InitGood DEF RunsInit, SessionsInv
  <1>2. SessionsInv /\ [RunsNext]_runsVars => SessionsInv'
    <2> SUFFICES ASSUME SessionsInv, [RunsNext]_runsVars PROVE SessionsInv'
      OBVIOUS
    <2>1. CASE instance = "replies" /\ Next /\ SessionsOnly
      BY <2>1, NextGood DEF SessionsOnly, SessionsInv
    <2>2. CASE instance = "resumes" /\ Resumed!Next /\ SessionsOnly
      BY <2>2, SameResumed, ResumedAssumption, Resumes!NextGood DEF SessionsOnly, SessionsInv
    <2>3. CASE instance = "recoveries" /\ Recovered!Next /\ SessionsOnly
      BY <2>3, SameRecovered, RecoveredAssumption, Recoveries!NextGood
         DEF SessionsOnly, SessionsInv
    <2>4. CASE UNCHANGED <<instance, vars>>
      BY <2>4, SessionsUnchanged
    <2> QED
      BY <2>1, <2>2, <2>3, <2>4 DEF RunsNext, RoomOnly, SessionOnly, RequestOnly, runsVars
  <1> QED
    BY <1>1, <1>2, PTL DEF RunsSpec

\* In all three instances slots and claims balance on every path, the queue moves on when a
\* slot is released, and a parked reply has an owner.
THEOREM SessionsBalance ==
    RunsSpec => [](SlotAccounting /\ QueueMoves /\ ClaimsOwned /\ ParkedHaveOwner)
PROOF
  <1>1. SessionsInv => SlotAccounting /\ QueueMoves /\ ClaimsOwned /\ ParkedHaveOwner
    <2>1. IInv => SlotAccounting /\ QueueMoves /\ ClaimsOwned /\ ParkedHaveOwner
      BY InvImplies
    <2>2. Resumes!IInv => SlotAccounting /\ QueueMoves /\ ClaimsOwned /\ ParkedHaveOwner
      BY SessionsAlike, SameResumed, ResumedAssumption, Resumes!InvImplies
    <2>3. Recoveries!IInv => SlotAccounting /\ QueueMoves /\ ClaimsOwned /\ ParkedHaveOwner
      BY SessionsAlike, SameRecovered, RecoveredAssumption, Recoveries!InvImplies
    <2> QED
      BY <2>1, <2>2, <2>3 DEF SessionsInv
  <1> QED
    BY <1>1, SessionsInvHolds, PTL

\* What a step of a session may do does not mention those constants either.
LEMMA StepsAlike ==
    /\ Resumes!OneRun <=> OneRun
    /\ Recoveries!OneRun <=> OneRun
    /\ \A t, answering : Resumes!Twin(t, answering) <=> Resumed!Twin(t, answering)
    /\ Resumes!Unattributed = Unattributed
PROOF
  <1>1. Resumes!OneRun <=> OneRun
    BY Zenon DEF Resumes!OneRun, OneRun, Resumes!Held, Held, Resumes!InMemory, InMemory
  <1>2. Recoveries!OneRun <=> OneRun
    BY Zenon DEF Recoveries!OneRun, OneRun, Recoveries!Held, Held, Recoveries!InMemory, InMemory
  <1>3. \A t, answering : Resumes!Twin(t, answering) <=> Resumed!Twin(t, answering)
    BY Zenon DEF Resumes!Twin, Resumed!Twin, Resumes!SameMessage, Resumed!SameMessage,
                 Resumes!Near, Resumed!Near, Resumes!Stopped, Resumed!Stopped
  <1>4. Resumes!Unattributed = Unattributed
    BY Zenon DEF Resumes!Unattributed, Unattributed
  <1> QED
    BY <1>1, <1>2, <1>3, <1>4

\* In all three instances a session is in the hands of one run at a time, whether a reply,
\* an operator or a revival takes it up again.
THEOREM OneRunInEach == RunsSpec => OneRunPerSession
PROOF
  <1> DEFINE A == \A s \in Triggers : InMemory(sess, s) /\ InMemory(sess', s)
                    => /\ serving'[s] = serving[s]
                       /\ sess'[s] = "building" => sess[s] = "building"
  <1>1. OneRun <=> A
    BY DEF OneRun, Held
  <1>2. SessionsInv /\ [RunsNext]_runsVars => [A]_vars
    <2> SUFFICES ASSUME SessionsInv, [RunsNext]_runsVars, ~UNCHANGED vars PROVE OneRun
      BY <1>1
    <2>1. CASE instance = "replies" /\ Next
      BY <2>1, NextOneRun DEF SessionsInv
    <2>2. CASE instance = "resumes" /\ Resumed!Next
      BY <2>2, SameResumed, ResumedAssumption, StepsAlike, Resumes!NextOneRun DEF SessionsInv
    <2>3. CASE instance = "recoveries" /\ Recovered!Next
      BY <2>3, SameRecovered, RecoveredAssumption, StepsAlike, Recoveries!NextOneRun
         DEF SessionsInv
    <2> QED
      BY <2>1, <2>2, <2>3 DEF RunsNext, RoomOnly, SessionOnly, RequestOnly, runsVars
  <1> QED
    BY <1>2, SessionsInvHolds, PTL DEF RunsSpec, OneRunPerSession

\* The order of the claims, in the two instances that coalesce replies.
ClaimsInv ==
    /\ instance \notin {"resumes", "recoveries"} => OrderSound
    /\ instance = "resumes" => Resumes!OrderSound

\* The order of the claims stays sound in both.
THEOREM ClaimsInvHolds == RunsSpec => []ClaimsInv
PROOF
  <1>1. RunsInit => ClaimsInv
    BY SessionsBegin, OrderInit, SameResumed, ResumedAssumption, Resumes!OrderInit
       DEF RunsInit, ClaimsInv
  <1>2. SessionsInv /\ ClaimsInv /\ [RunsNext]_runsVars => ClaimsInv'
    <2> SUFFICES ASSUME SessionsInv, ClaimsInv, [RunsNext]_runsVars PROVE ClaimsInv'
      OBVIOUS
    <2>1. CASE instance = "replies" /\ Next /\ SessionsOnly
      BY <2>1, OrderStep DEF SessionsOnly, SessionsInv, ClaimsInv
    <2>2. CASE instance = "resumes" /\ Resumed!Next /\ SessionsOnly
      BY <2>2, SameResumed, ResumedAssumption, Resumes!OrderStep
         DEF SessionsOnly, SessionsInv, ClaimsInv
    <2>3. CASE instance = "recoveries" /\ Recovered!Next /\ SessionsOnly
      BY <2>3 DEF SessionsOnly, ClaimsInv
    <2>4. CASE UNCHANGED <<instance, vars>>
      <3>1. UNCHANGED Resumes!vars
        BY <2>4, Zenon DEF vars, Resumes!vars
      <3>2. SessionsInv /\ OrderSound /\ instance \notin {"resumes", "recoveries"} => OrderSound'
        BY <2>4, OrderStep DEF SessionsInv
      <3>3. SessionsInv /\ Resumes!OrderSound /\ instance = "resumes" => Resumes!OrderSound'
        BY <3>1, SameResumed, ResumedAssumption, Resumes!OrderStep DEF SessionsInv
      <3> QED
        BY <2>4, <3>2, <3>3 DEF ClaimsInv
    <2> QED
      BY <2>1, <2>2, <2>3, <2>4 DEF RunsNext, RoomOnly, SessionOnly, RequestOnly, runsVars
  <1> QED
    BY <1>1, <1>2, SessionsInvHolds, PTL DEF RunsSpec

\* Neither the three replies to one message nor the two to a session's answer, sent within
\* the window, are answered twice while the first of them is under way.
THEOREM NoTwinsInEither ==
    ASSUME CoRepliesNear, Resumes!CoRepliesNear
    PROVE  RunsSpec => NoTwinEver
PROOF
  <1> DEFINE Replies == \A t \in Triggers : ~Twin(t, Unattributed \cup {"working"})
             Resumers == \A t \in Triggers : ~Resumed!Twin(t, Unattributed \cup {"working"})
  <1>1. ASSUME SessionsInv, ClaimsInv, [RunsNext]_runsVars, ~UNCHANGED vars
        PROVE  /\ instance = "replies" => Replies
               /\ instance = "resumes" => Resumers
    <2>1. CASE instance = "replies"
      <3>1. Next /\ IInv /\ OrderSound
        BY <1>1, <2>1 DEF RunsNext, runsVars, SessionsInv, ClaimsInv
      <3> QED
        BY <2>1, <3>1, StepTwins
    <2>2. CASE instance = "resumes"
      <3>1. Resumes!Next /\ Resumes!IInv /\ Resumes!OrderSound
        BY <1>1, <2>2, SameResumed DEF RunsNext, runsVars, SessionsInv, ClaimsInv
      <3>2. \A t \in Triggers : ~Resumes!Twin(t, Resumes!Unattributed \cup {"working"})
        BY <3>1, SameResumed, ResumedAssumption, Resumes!StepTwins
      <3> QED
        BY <2>2, <3>2, StepsAlike
    <2> QED
      BY <2>1, <2>2
  <1>2. SessionsInv /\ ClaimsInv /\ [RunsNext]_runsVars =>
          [/\ instance = "replies" => Replies
           /\ instance = "resumes" => Resumers]_vars
    BY <1>1
  <1> QED
    BY <1>2, SessionsInvHolds, ClaimsInvHolds, PTL DEF RunsSpec, NoTwinEver

-----------------------------------------------------------------------------
(***************************************************************************)
(* What surrounds a session.                                               *)
(***************************************************************************)
RoomsInv == instance = "activation" => Parts!RoomInv
CorrectionsInv == instance = "late_input" => Parts!LateInv
RequestsInv == instance = "request" => Parts!RequestInv

\* While the activation of a room runs, its invariant holds.
THEOREM RoomsInvHolds == RunsSpec => []RoomsInv
PROOF
  <1> USE DEF RoomsInv
  <1>1. RunsInit => RoomsInv
    BY SameRoom, RoomAssumption, Parts!RoomInit DEF RunsInit
  <1>2. RoomsInv /\ [RunsNext]_runsVars => RoomsInv'
    <2> SUFFICES ASSUME RoomsInv, [RunsNext]_runsVars PROVE RoomsInv'
      OBVIOUS
    <2>1. CASE instance = "activation" /\ Room!Next /\ RoomOnly
      BY <2>1, SameRoom, RoomAssumption, Parts!RoomStep DEF RoomOnly
    <2>2. CASE instance' = instance /\ (instance # "activation" \/ UNCHANGED roomVars)
      <3>1. UNCHANGED roomVars => UNCHANGED Parts!Room!vars
        BY DEF roomVars, Parts!Room!vars
      <3> QED
        BY <2>2, <3>1, SameRoom, RoomAssumption, Parts!RoomStep
    <2> QED
      BY <2>1, <2>2 DEF RunsNext, SessionsOnly, SessionOnly, RequestOnly, runsVars
  <1> QED
    BY <1>1, <1>2, PTL DEF RunsSpec

\* No message of the room is stranded, the guard stands as long as its prelude runs, and
\* every trigger is accepted once.
THEOREM RoomKeeps == RunsSpec => []ActivationSafe
PROOF
  <1>1. RoomsInv => ActivationSafe
    <2>1. {t1, t2} \subseteq {t1, t2, m1}
      OBVIOUS
    <2> QED
      BY <2>1, SameRoom, RoomAssumption, Parts!RoomImplies DEF RoomsInv, ActivationSafe
  <1> QED
    BY <1>1, RoomsInvHolds, PTL

\* While the corrections of a session run, their invariant holds.
THEOREM CorrectionsInvHolds == RunsSpec => []CorrectionsInv
PROOF
  <1> USE DEF CorrectionsInv
  <1>1. RunsInit => CorrectionsInv
    BY SameSession, SessionAssumption, Parts!LateInit DEF RunsInit
  <1>2. CorrectionsInv /\ [RunsNext]_runsVars => CorrectionsInv'
    <2> SUFFICES ASSUME CorrectionsInv, [RunsNext]_runsVars PROVE CorrectionsInv'
      OBVIOUS
    <2>1. CASE instance = "late_input" /\ Session!Next /\ SessionOnly
      BY <2>1, SameSession, SessionAssumption, Parts!LateStep DEF SessionOnly
    <2>2. CASE instance' = instance /\ (instance # "late_input" \/ UNCHANGED sessionVars)
      <3>1. UNCHANGED sessionVars => UNCHANGED Parts!Session!vars
        BY DEF sessionVars, Parts!Session!vars
      <3> QED
        BY <2>2, <3>1, SameSession, SessionAssumption, Parts!LateStep
    <2> QED
      BY <2>1, <2>2 DEF RunsNext, SessionsOnly, RoomOnly, RequestOnly, runsVars
  <1> QED
    BY <1>1, <1>2, PTL DEF RunsSpec

\* No rollout that delivered a message is thrown away, no step a correction filed is
\* forgotten, and redos are bounded.
THEOREM SessionKeeps == RunsSpec => []CorrectionsKept
PROOF
  <1>1. CorrectionsInv => CorrectionsKept
    BY SameSession, Parts!LateImplies DEF CorrectionsInv, CorrectionsKept
  <1> QED
    BY <1>1, CorrectionsInvHolds, PTL

\* While the request runs, its invariant holds.
THEOREM RequestsInvHolds == RunsSpec => []RequestsInv
PROOF
  <1> USE DEF RequestsInv
  <1>1. RunsInit => RequestsInv
    BY SameRequest, RequestAssumption, Parts!RequestInit DEF RunsInit
  <1>2. RequestsInv /\ [RunsNext]_runsVars => RequestsInv'
    <2> SUFFICES ASSUME RequestsInv, [RunsNext]_runsVars PROVE RequestsInv'
      OBVIOUS
    <2>1. CASE instance = "request" /\ Request!Next /\ RequestOnly
      BY <2>1, SameRequest, RequestAssumption, Parts!RequestStep DEF RequestOnly
    <2>2. CASE instance' = instance /\ (instance # "request" \/ UNCHANGED requestVars)
      <3>1. UNCHANGED requestVars => UNCHANGED Parts!Request!vars
        BY DEF requestVars, Parts!Request!vars
      <3> QED
        BY <2>2, <3>1, SameRequest, RequestAssumption, Parts!RequestStep
    <2> QED
      BY <2>1, <2>2 DEF RunsNext, SessionsOnly, RoomOnly, SessionOnly, runsVars
  <1> QED
    BY <1>1, <1>2, PTL DEF RunsSpec

\* A member that could have served all along is asked before another is asked more often
\* than its quota, and before the request fails.
THEOREM RequestKeeps == RunsSpec => []MembersTried
PROOF
  <1>1. RequestsInv => MembersTried
    BY SameRequest, RequestAssumption, Parts!RequestImplies DEF RequestsInv, MembersTried
  <1> QED
    BY <1>1, RequestsInvHolds, PTL

\* No step resets an active room, asks a member again that refused while another is left, or
\* cuts an attempt that has produced a token.
THEOREM NoStepTakenBack == RunsSpec => NoStepBack
PROOF
  <1> DEFINE Rooms == instance = "activation" => Room!StaysActive
             Requests == instance = "request"
                            => Request!NeverAskedAgain /\ Request!TokensAreSafe
  <1>1. RoomsInv /\ RunsNext => Rooms
    <2> SUFFICES ASSUME RoomsInv, RunsNext, instance = "activation" PROVE Room!StaysActive
      OBVIOUS
    <2>1. Room!Next
      BY DEF RunsNext
    <2> QED
      BY <2>1, SameRoom, RoomAssumption, Parts!RoomStays DEF RoomsInv
  <1>2. RequestsInv /\ RunsNext => Requests
    <2> SUFFICES ASSUME RequestsInv, RunsNext, instance = "request"
                 PROVE  Request!NeverAskedAgain /\ Request!TokensAreSafe
      OBVIOUS
    <2>1. Request!Next
      BY DEF RunsNext
    <2> QED
      BY <2>1, SameRequest, RequestAssumption, Parts!RequestStepsAre DEF RequestsInv
  <1>3. UNCHANGED runsVars => UNCHANGED <<roomVars, requestVars>>
    BY DEF runsVars
  <1>4. RoomsInv /\ RequestsInv /\ [RunsNext]_runsVars
            => [Rooms /\ Requests]_<<roomVars, requestVars>>
    BY <1>1, <1>2, <1>3
  <1> QED
    BY <1>4, RoomsInvHolds, RequestsInvHolds, PTL DEF RunsSpec, NoStepBack

\* Whichever instance runs, every variable of it has its type.
THEOREM TypesInEach == RunsSpec => []TypesOK
PROOF
  <1>1. instance = "replies" /\ SessionsInv => TypeOK
    BY DEF SessionsInv, IInv
  <1>2. instance = "resumes" /\ SessionsInv => Resumed!TypeOK
    BY SameResumed DEF SessionsInv, Resumes!IInv
  <1>3. instance = "recoveries" /\ SessionsInv => Recovered!TypeOK
    BY SameRecovered DEF SessionsInv, Recoveries!IInv
  <1>4. instance = "activation" /\ RoomsInv => Room!TypeOK
    BY SameRoom, RoomAssumption, Parts!RoomImplies DEF RoomsInv
  <1>5. instance = "late_input" /\ CorrectionsInv => Session!TypeOK
    BY SameSession, Parts!LateImplies DEF CorrectionsInv
  <1>6. instance = "request" /\ RequestsInv => Request!TypeOK
    BY SameRequest, RequestAssumption, Parts!RequestImplies DEF RequestsInv
  <1>7. SessionsInv /\ RoomsInv /\ CorrectionsInv /\ RequestsInv => TypesOK
    BY <1>1, <1>2, <1>3, <1>4, <1>5, <1>6 DEF TypesOK
  <1> QED
    BY <1>7, SessionsInvHolds, RoomsInvHolds, CorrectionsInvHolds, RequestsInvHolds, PTL
=============================================================================
