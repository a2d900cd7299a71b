---------------------------- MODULE SessionRunner ----------------------------
(***************************************************************************)
(* The run of one session (src/agent/runner.ts): the agent is prompted     *)
(* until it ends with a send or with NO_REPLY, nudged when it does not,    *)
(* and put back to a fork point (src/agent/fork.ts) when what it said is   *)
(* judged a refusal (src/checks, src/refusals) or its nudges run out.      *)
(* Meanwhile messages are steered into it, a correction asks for a redo    *)
(* from scratch or a cancel, and the operator stops it.                    *)
(*                                                                         *)
(* The transcript is what follows the kickoff, a message of the assistant  *)
(* together with its tool results.  Left out: calls without a visible      *)
(* effect, two refused calls in one message, which entry of a refusal rule *)
(* is tried, how a correction is decided and undone (LateInput), and the   *)
(* requests below a turn (RequestChain).                                   *)
(***************************************************************************)
EXTENDS Naturals, Sequences, FiniteSets, FiniteSetsExt

CONSTANTS
    Sends,          \* the messages that the agent may deliver
    Notes,          \* interjections steered into the session
    MaxRetries,     \* forced_completion_retries
    Tries,          \* what a refusal rule has to try before a delivery
    MaxRedos,       \* max_redos of late input
    MaxCorrections, \* bound: redos and cancels asked for
    MaxStops        \* 1 if the operator may stop the run

SessionRunnerAssumption ==
    /\ Sends \cap Notes = {}
    /\ {MaxRetries, Tries, MaxRedos, MaxCorrections, MaxStops} \subseteq Nat

VARIABLES
    onExhausted,    \* of the refusal rule
    run,            \* what the runner waits for
    msgs,           \* agent.state.messages after the kickoff
    queue,          \* steered, not read yet
    aborting,       \* agent.abort() was called
    interrupted,
    retries,
    contractRedone,
    tries,          \* the walk through the refusal rule
    control,        \* SessionRedoControl
    redo,           \* the redo request taken from it
    late,           \* the late-input step pending
    step, from,     \* the one being applied, and what comes after it
    redoCount, corrections,
    end,
    \* history variables
    delivered, heard,
    extra,          \* requests issued after the operator's Stop
    stale           \* a redo request was left pending under a request

lateVars == <<late, step, from, redoCount, corrections>>
budgets == <<retries, contractRedone, tries>>
vars == <<onExhausted, run, msgs, queue, aborting, interrupted, budgets, control, redo,
          lateVars, end, delivered, heard, extra, stale>>

Entry(kind, ids, refused) == [kind |-> kind, ids |-> ids, refused |-> refused]
NoRedo == [mode |-> "none", at |-> 0]

(***************************************************************************)
(* The transcript.                                                         *)
(***************************************************************************)
FromAssistant(e) == e.kind \notin {"nudge", "note"}
LastOf(s, Is(_)) == Max({0} \cup {i \in DOMAIN s : Is(s[i])})
LastAssistant == LastOf(msgs, FromAssistant)
LastIs(kinds) == LastAssistant # 0 /\ msgs[LastAssistant].kind \in kinds

\* isTerminallyValid: a message with a send, whatever came of it, or NO_REPLY
TerminallyValid == LastIs({"calls", "noreply"})

\* ABORT_TAIL_SCAN: the last five messages of the assistant
WasAborted ==
    \E i \in DOMAIN msgs :
        /\ msgs[i].kind = "aborted"
        /\ Cardinality({j \in i..Len(msgs) : FromAssistant(msgs[j])}) <= 5

\* agent.continue() is possible: after a user turn or tool results.
CanContinue(s) == s # <<>> => s[Len(s)].kind \in {"calls", "nudge", "note"}

FailurePoint == LastOf(msgs, LAMBDA e : e.kind = "calls" /\ e.ids # {})

NotesOf(s) ==
    LET upTo[i \in 0..Len(s)] ==
            IF i = 0 THEN <<>>
            ELSE IF s[i].kind = "note" THEN Append(upTo[i - 1], s[i]) ELSE upTo[i - 1]
    IN  upTo[Len(s)]
IdsOf(s, kind) == UNION {s[i].ids : i \in {j \in DOMAIN s : s[j].kind = kind}}

\* Mutant: only what comes before the refused message counts.
ForkKeeps_NoSiblings(s, gated) ==
    SubSeq(s, 1, LastOf(SubSeq(s, 1, IF gated = 0 THEN Len(s) ELSE gated - 1),
                        LAMBDA e : e.kind = "calls" /\ e.ids # {}))

\* findForkPoint: the transcript up to the last delivery before the refused call, or up
\* to its own message, which is edited, when that delivered something else.
ForkKeeps(s, gated) ==
    LET before == SubSeq(s, 1, IF gated = 0 THEN Len(s) ELSE gated - 1)
    IN  IF gated # 0 /\ s[gated].ids # {}
        THEN Append(before, [s[gated] EXCEPT !.refused = FALSE])
        ELSE SubSeq(s, 1, LastOf(before, LAMBDA e : e.kind = "calls" /\ e.ids # {}))

\* Mutant: the interjections of the discarded span go with it.
Forked_NotesLost(s, gated) == ForkKeeps(s, gated)

\* forkSession: the interjections of the discarded span are redelivered.
Forked(s, gated) ==
    LET kept == ForkKeeps(s, gated)
    IN  kept \o NotesOf(SubSeq(s, Len(kept) + 1, Len(s)))

(***************************************************************************)
(* Requests.                                                               *)
(***************************************************************************)
LatePending == late \in {"restart", "cancel"} /\ ~interrupted

\* The agent is prompted or continued on s: it reads what was steered first.
Request(s) ==
    /\ run' = "request"
    /\ msgs' = s \o queue
    /\ queue' = <<>>
    /\ aborting' = FALSE
    /\ extra' = IF interrupted THEN extra + 1 ELSE extra
    /\ stale' = (stale \/ control # NoRedo)

TakeStep(next) ==
    /\ run' = "applying"
    /\ step' = late /\ late' = "none"
    /\ from' = next

Applied == step' = "none" /\ from' = "none"

\* Mutant: a step that is pending is not looked for.
Issue_Blind(s) ==
    /\ Request(s)
    /\ UNCHANGED <<late, step, from>>

\* issueOrApplyLateInput
Issue(s) ==
    \/ /\ LatePending
       /\ TakeStep("issue")
       /\ msgs' = s
       /\ UNCHANGED <<queue, aborting, extra, stale>>
    \/ /\ ~LatePending
       /\ Request(s)
       /\ UNCHANGED <<late, step, from>>

\* run(), after the typing notice
Start ==
    /\ run = "typing"
    /\ Issue(msgs)
    /\ UNCHANGED <<onExhausted, interrupted, budgets, control, redo, redoCount, corrections,
                   end, delivered, heard>>

(***************************************************************************)
(* A turn of the agent, with its output gate.                              *)
(***************************************************************************)
\* The turn is over; or goes on with what was steered meanwhile.
EndTurn(s, stops) ==
    IF stops \/ queue = <<>>
    THEN run' = "settled" /\ msgs' = s /\ UNCHANGED queue
    ELSE run' = "request" /\ msgs' = s \o queue /\ queue' = <<>>

\* A refusal with tries left asks for a redo, without one for the end that the rule wants,
\* or the output goes through.
Passes(walked) == walked = Tries /\ onExhausted = "send_last"
Verdict(walked, at) == [mode |-> IF walked < Tries THEN "redo" ELSE onExhausted, at |-> at]
Advanced(walked) == IF walked < Tries THEN walked + 1 ELSE walked

\* Text, NO_REPLY or a failure: the turn has no calls.
Answer(kind) ==
    /\ run = "request"
    /\ EndTurn(Append(msgs, Entry(kind, {}, FALSE)), kind = "error" \/ aborting)
    /\ UNCHANGED <<onExhausted, aborting, interrupted, budgets, control, redo, lateVars, end,
                   delivered, heard, extra, stale>>

\* Calls that post: those in sent are delivered, one may be refused by the gate.  A delivery
\* ends the walk through the rule, before or after the refusal is judged.  None is executed
\* while a correction is pending.
Call(sent, refused) ==
    /\ run = "request" /\ ~aborting
    /\ late \notin {"restart", "cancel"}
    /\ sent \cap delivered = {}
    /\ run' = "tools"
    /\ msgs' = Append(msgs, Entry("calls", sent, refused))
    /\ IF refused
       THEN \E judgedLast \in BOOLEAN :
               LET walked == IF sent # {} /\ judgedLast THEN 0 ELSE tries
               IN  /\ ~Passes(walked)
                   /\ control' = IF control = NoRedo THEN Verdict(walked, Len(msgs) + 1)
                                                     ELSE control
                   /\ tries' = IF sent # {} /\ ~judgedLast THEN 0 ELSE Advanced(walked)
       ELSE tries' = 0 /\ UNCHANGED control
    /\ delivered' = delivered \cup sent
    /\ UNCHANGED <<onExhausted, queue, aborting, interrupted, retries, contractRedone, redo,
                   lateVars, end, heard, extra, stale>>

\* shouldStopAfterTurn
Stops == control # NoRedo

\* The batch of calls is done: the turn stops for a redo, is over, was aborted, or goes on.
ToolsDone ==
    /\ run = "tools"
    /\ \/ /\ Stops \/ ~aborting
          /\ EndTurn(msgs, Stops)
       \/ /\ ~Stops /\ aborting
          /\ run' = "settled"
          /\ msgs' = Append(msgs, Entry("aborted", {}, FALSE))
          /\ UNCHANGED queue
       \/ /\ ~Stops /\ ~aborting
          /\ run' = "request"
          /\ msgs' = msgs \o queue /\ queue' = <<>>
    /\ UNCHANGED <<onExhausted, aborting, interrupted, budgets, control, redo, lateVars, end,
                   delivered, heard, extra, stale>>

Aborted ==
    /\ run = "request" /\ aborting
    /\ run' = "settled"
    /\ msgs' = Append(msgs, Entry("aborted", {}, FALSE))
    /\ UNCHANGED <<onExhausted, queue, aborting, interrupted, budgets, control, redo, lateVars,
                   end, delivered, heard, extra, stale>>

(***************************************************************************)
(* The loop.                                                               *)
(***************************************************************************)
\* applyLateInput, when a step is pending and the agent idle.
Settled ==
    /\ run = "settled" /\ late # "none" /\ ~interrupted
    /\ TakeStep("loop")
    /\ UNCHANGED <<onExhausted, msgs, queue, aborting, interrupted, budgets, control, redo,
                   redoCount, corrections, end, delivered, heard, extra, stale>>

\* ... and with none, or one that came to nothing, what the turn was is read.
Reads == run = "checked" \/ (run = "settled" /\ (late = "none" \/ interrupted))

\* Mutant: the ending is read before the redo, and a call that was refused is a send.
TakesRedo_IfUnsent == control # NoRedo /\ ~interrupted /\ ~TerminallyValid

TakesRedo == control # NoRedo /\ ~interrupted

Redo(request) ==
    /\ run' = "redoing"
    /\ redo' = request
    /\ control' = NoRedo

TakeRedo ==
    /\ Reads /\ TakesRedo
    /\ Redo(control)
    /\ UNCHANGED <<onExhausted, msgs, queue, aborting, interrupted, budgets, lateVars, end,
                   delivered, heard, extra, stale>>

Over(outcome) ==
    /\ run' = "over"
    /\ end' = outcome
    /\ control' = NoRedo
    /\ late' = "none"

Failed == LastIs({"error"}) /\ ~interrupted

\* throwIfLlmFailure
Fail ==
    /\ Reads /\ ~TakesRedo /\ Failed
    /\ Over("failed")
    /\ UNCHANGED <<onExhausted, msgs, queue, aborting, interrupted, budgets, redo, step, from,
                   redoCount, corrections, delivered, heard, extra, stale>>

\* Mutant: an ending is only looked for in the transcript.
Ends_ByTranscript == TerminallyValid

Ends == TerminallyValid \/ interrupted \/ WasAborted

\* The ending, or the lack of one, is reported: it is judged if it has no send.
Report ==
    /\ Reads /\ ~TakesRedo /\ ~Failed
    /\ \/ Ends /\ run' = "ending"
       \/ ~Ends /\ retries = MaxRetries /\ run' = "exhausted"
    /\ UNCHANGED <<onExhausted, msgs, queue, aborting, interrupted, budgets, control, redo,
                   lateVars, end, delivered, heard, extra, stale>>

\* forceCompletion
Nudge ==
    /\ Reads /\ ~TakesRedo /\ ~Failed
    /\ ~Ends /\ retries < MaxRetries
    /\ retries' = retries + 1
    /\ Request(Append(msgs, Entry("nudge", {}, FALSE)))
    /\ UNCHANGED <<onExhausted, interrupted, contractRedone, tries, control, redo, lateVars,
                   end, delivered, heard>>

\* It is a refusal: the redo filed for it is taken, unless the operator stopped the run.
Refused ==
    /\ run \in {"ending", "exhausted"}
    /\ ~interrupted /\ ~WasAborted /\ ~LastIs({"calls"}) /\ ~Passes(tries)
    /\ msgs' = [msgs EXCEPT ![LastAssistant].refused = TRUE]
    /\ tries' = Advanced(tries)
    /\ Redo(Verdict(tries, 0))
    /\ UNCHANGED <<onExhausted, queue, aborting, interrupted, retries, contractRedone,
                   lateVars, end, delivered, heard, extra, stale>>

\* Mutant: the redo for a failure point is not remembered.
ContractRedo_Forgets ==
    /\ contractRedone' = contractRedone
    /\ Redo([mode |-> "redo", at |-> 0])

\* forced_completion_redo, once per failure point
ContractRedo ==
    /\ contractRedone' = contractRedone \cup {FailurePoint}
    /\ Redo([mode |-> "redo", at |-> 0])

\* It is not, or nothing acts on it: the run ends, after a last look for a step; without
\* a valid ending, after a redo.
Ending ==
    /\ \/ /\ run = "ending"
          /\ IF late # "none" /\ ~interrupted
             THEN TakeStep("end") /\ UNCHANGED <<control, end>>
             ELSE Over("done") /\ UNCHANGED <<step, from>>
          /\ UNCHANGED <<contractRedone, redo>>
       \/ /\ run = "exhausted"
          /\ IF FailurePoint \notin contractRedone
             THEN ContractRedo /\ UNCHANGED <<late, end>>
             ELSE Over("exhausted") /\ UNCHANGED <<contractRedone, redo>>
          /\ UNCHANGED <<step, from>>
    /\ UNCHANGED <<onExhausted, msgs, queue, aborting, interrupted, retries, tries, redoCount,
                   corrections, delivered, heard, extra, stale>>

\* The redo handler forks, and the run goes on; or it gives up, or parks the session: the
\* rule is exhausted, or the branch cannot be stored.
ApplyRedo ==
    /\ run = "redoing" /\ redo.mode = "redo"
    /\ retries' = 0
    /\ Issue(Forked(msgs, redo.at))
    /\ redo' = NoRedo
    /\ UNCHANGED <<onExhausted, interrupted, contractRedone, tries, control, redoCount,
                   corrections, end, delivered, heard>>

GiveUp ==
    /\ run = "redoing"
    /\ Over(IF redo.mode = "park" THEN "parked" ELSE "gave_up")
    /\ redo' = NoRedo
    /\ UNCHANGED <<onExhausted, msgs, queue, aborting, interrupted, budgets, step, from,
                   redoCount, corrections, delivered, heard, extra, stale>>

(***************************************************************************)
(* A late-input step is applied.                                           *)
(***************************************************************************)
CancelRun ==
    /\ run = "applying" /\ step = "cancel" /\ delivered = {}
    /\ Over("cancelled")
    /\ Applied
    /\ UNCHANGED <<onExhausted, msgs, queue, aborting, interrupted, budgets, redo, redoCount,
                   corrections, delivered, heard, extra, stale>>

\* A redo from scratch: the interjections wait for the rebuilt agent; a restart that came
\* since joins it (markRebuilding).
Rebuild ==
    /\ run = "applying" /\ step = "restart" /\ delivered = {}
    /\ run' = "rebuilding"
    /\ redoCount' = redoCount + 1
    /\ queue' = NotesOf(msgs) \o queue
    /\ msgs' = <<>>
    /\ late' = IF late = "cancel" THEN "cancel" ELSE "none"
    /\ Applied
    /\ UNCHANGED <<onExhausted, aborting, interrupted, budgets, control, redo, corrections,
                   end, delivered, heard, extra, stale>>

\* ... which is prompted, with a redo control of its own.
Rebuilt ==
    /\ run = "rebuilding" /\ late = "none"
    /\ control' = NoRedo
    /\ contractRedone' = {} /\ tries' = 0 /\ retries' = 0
    /\ run' = "request" /\ msgs' = queue /\ queue' = <<>> /\ aborting' = FALSE
    /\ extra' = IF interrupted THEN extra + 1 ELSE extra
    /\ UNCHANGED <<onExhausted, interrupted, redo, lateVars, end, delivered, heard, stale>>

\* It cannot be built, or a cancel is pending.
RebuildEnds ==
    /\ run = "rebuilding"
    /\ Over(IF late = "cancel" THEN "cancelled" ELSE "failed")
    /\ UNCHANGED <<onExhausted, msgs, queue, aborting, interrupted, budgets, redo, step, from,
                   redoCount, corrections, delivered, heard, extra, stale>>

\* continueAfterAbortedTurn, for a step that only interrupts the turn, or one that is
\* impossible (an effect happened, or cannot be undone): the aborted message is dropped and
\* the agent goes on, unless it has finished its turn.
Continue ==
    /\ run = "applying"
    /\ LET s == IF msgs # <<>> /\ msgs[Len(msgs)].kind = "aborted"
                THEN SubSeq(msgs, 1, Len(msgs) - 1) ELSE msgs
       IN  \/ /\ CanContinue(s)
              /\ IF LatePending
                 THEN TakeStep(from) /\ msgs' = s /\ UNCHANGED <<queue, aborting, extra, stale>>
                 ELSE Request(s) /\ Applied /\ UNCHANGED late
              /\ retries' = 0
              /\ UNCHANGED <<control, end>>
           \/ /\ ~CanContinue(s)
              /\ IF from = "loop"
                 THEN run' = "checked" /\ UNCHANGED <<control, end, late>>
                 ELSE Over("done")
              /\ Applied
              /\ msgs' = s
              /\ UNCHANGED <<retries, queue, aborting, extra, stale>>
    /\ UNCHANGED <<onExhausted, interrupted, contractRedone, tries, redo, redoCount,
                   corrections, delivered, heard>>

(***************************************************************************)
(* From outside.                                                           *)
(***************************************************************************)
Abort == aborting' = (aborting \/ run \in {"request", "tools"})

\* steer(), with or without a request that is aborted for it
Steer(n) ==
    /\ run # "over" /\ ~interrupted
    /\ n \notin heard
    /\ heard' = heard \cup {n}
    /\ queue' = Append(queue, Entry("note", {n}, FALSE))
    /\ \/ UNCHANGED <<late, aborting>>
       \/ run = "request" /\ late = "none" /\ late' = "interject" /\ aborting' = TRUE
    /\ UNCHANGED <<onExhausted, run, msgs, interrupted, budgets, control, redo, step, from,
                   redoCount, corrections, end, delivered, extra, stale>>

\* requestRestart, requestCancel, while the session can be redone; a restart joins a
\* rebuild under way.
Correct(kind) ==
    /\ run # "over" /\ (run = "rebuilding" => kind = "cancel")
    /\ late # "cancel" /\ delivered = {}
    /\ redoCount < MaxRedos
    /\ corrections < MaxCorrections
    /\ corrections' = corrections + 1
    /\ late' = kind
    /\ Abort
    /\ UNCHANGED <<onExhausted, run, msgs, queue, interrupted, budgets, control, redo, step,
                   from, redoCount, end, delivered, heard, extra, stale>>

\* SessionManager.interrupt
Stop ==
    /\ MaxStops > 0
    /\ run # "over" /\ ~interrupted
    /\ interrupted' = TRUE
    /\ queue' = <<>>
    /\ Abort
    /\ UNCHANGED <<onExhausted, run, msgs, budgets, control, redo, lateVars, end, delivered,
                   heard, extra, stale>>

-----------------------------------------------------------------------------
Init ==
    /\ onExhausted \in {"send_last", "withhold", "park"}
    /\ run = "typing" /\ msgs = <<>> /\ queue = <<>>
    /\ aborting = FALSE /\ interrupted = FALSE
    /\ retries = 0 /\ contractRedone = {} /\ tries = 0
    /\ control = NoRedo /\ redo = NoRedo
    /\ late = "none" /\ step = "none" /\ from = "none" /\ redoCount = 0 /\ corrections = 0
    /\ end = "none"
    /\ delivered = {} /\ heard = {} /\ extra = 0 /\ stale = FALSE

Turns ==
    \/ \E kind \in {"text", "noreply", "error"} : Answer(kind)
    \/ \E sent \in SUBSET Sends, refused \in BOOLEAN :
        (sent # {} \/ refused) /\ Call(sent, refused)
    \/ ToolsDone \/ Aborted

\* What goes on by itself.
GoesOn ==
    \/ Turns
    \/ Start \/ Settled \/ TakeRedo \/ Fail \/ Report \/ Nudge
    \/ Refused \/ Ending \/ ApplyRedo \/ GiveUp
    \/ CancelRun \/ Rebuild \/ Rebuilt \/ RebuildEnds \/ Continue

Next ==
    \/ GoesOn
    \/ \E n \in Notes : Steer(n)
    \/ \E kind \in {"restart", "cancel"} : Correct(kind)
    \/ Stop

Spec == Init /\ [][Next]_vars

(***************************************************************************)
(* Properties.                                                             *)
(***************************************************************************)
TypeOK ==
    /\ onExhausted \in {"send_last", "withhold", "park"}
    /\ run \in {"typing", "request", "tools", "settled", "checked", "ending",
                "exhausted", "redoing", "applying", "rebuilding", "over"}
    /\ retries \in 0..MaxRetries /\ tries \in 0..Tries /\ redoCount \in 0..MaxRedos
    /\ {control.mode, redo.mode} \subseteq {"none", "redo", "withhold", "park"}
    /\ {late, step} \subseteq {"none", "interject", "restart", "cancel"}
    /\ {aborting, interrupted, stale} \subseteq BOOLEAN

\* No fork discards a message that was delivered, whichever call was refused and whatever
\* its siblings did: a redo would post it again.  (A redo request that a correction left
\* pending under another request is the exception: see the README.)
DeliveredKept == IdsOf(msgs, "calls") = delivered \/ stale

\* What was steered into the session is in its transcript or on its way there, through
\* forks, redos and aborted turns, until the operator stops it.
NotesKept == interrupted \/ heard = IdsOf(msgs, "note") \cup IdsOf(queue, "note")

\* A run that is not stopped never ends with a refused output in its transcript as if it
\* were its answer.
RefusalsRedone ==
    end \in {"done", "exhausted"} /\ ~interrupted => \A i \in DOMAIN msgs : ~msgs[i].refused

\* After the operator's Stop at most the request that was about to be issued is issued.
StopHeeded == extra <= 1

\* "A Stop always wins" (ARCHITECTURE.md section 8j), the loop break catches one that finds
\* the agent idle (session-manager.ts): no request is issued after it.
NothingAfterStop == extra = 0

\* No request is issued that a pending redo or cancel has made stale, but for a nudge after
\* a step that came to nothing.
NoneStale == extra' = extra /\ run # "request" /\ run' = "request" =>
                 ~LatePending \/ run \in {"tools", "checked"}

\* (Again and again.)  Every run ends, however often its budgets are reset.
RunEnds == run = "over"
=============================================================================
