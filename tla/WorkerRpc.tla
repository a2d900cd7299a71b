----------------------------- MODULE WorkerRpc -----------------------------
(***************************************************************************)
(* The request layer over one forked worker process                        *)
(* (src/retrieval/onnx/worker-rpc.ts), both sides: WorkerRpc in the        *)
(* parent, serveWorker in the child, and the pipe between them.            *)
(*                                                                         *)
(* The child handles requests one at a time, in order; it may answer, take *)
(* for ever, or die at any point.  Nothing is assumed of it: a deadline on *)
(* each request, and a grace on an aborted one, find out.  Every request   *)
(* here may be aborted; time is that an armed timer may fire.              *)
(***************************************************************************)
EXTENDS Naturals, Sequences, FiniteSets

CONSTANTS
    MaxCalls    \* bound: requests, close() included

WorkerRpcAssumption == MaxCalls \in Nat \ {0}

Ids == 1..MaxCalls

VARIABLES
    issued,         \* nextId - 1
    promise,        \* of each request: unsent, pending (in the map `pending`) or how it settled
    outstanding,    \* sent and not answered by the child, whether or not aborted
    abandoned,      \* aborted, waiting for the child's acknowledgement
    deadlines,      \* deadline timers that are set
    graces,         \* grace timers that are set
    dead,           \* deadError
    closing,        \* close(): "no", "asked", "over" (its request is settled) or "closed"
    closer,         \* the request that asks the child to close, or 0
    toChild,        \* the pipe: requests and cancels, in order
    chain,          \* requests the child has read and not started
    running,        \* the request the child works on, or 0
    cancelled,      \* cancels the child has read
    fromChild,      \* the pipe: replies
    child           \* "up", "gone", or "seen" once the parent had its exit event

vars == <<issued, promise, outstanding, abandoned, deadlines, graces, dead, closing,
          closer, toChild, chain, running, cancelled, fromChild, child>>
parentVars == <<issued, promise, outstanding, abandoned, deadlines, graces, dead, closing, closer>>
childVars == <<chain, running, cancelled>>

Oldest(ids) == CHOOSE i \in ids : \A j \in ids : i <= j

\* Mutant: the grace of an aborted request begins at once, whatever is before it.
Armed_AtOnce(out, aband, gr) == gr \cup aband

\* armHead: the child is on the oldest unanswered request; if that one was aborted, its
\* acknowledgement is due.
Armed(out, aband, gr) ==
    IF out # {} /\ Oldest(out) \in aband THEN gr \cup {Oldest(out)} ELSE gr

\* A message to a child that is gone is lost.
Send(kind, i) ==
    toChild' = IF child = "up" THEN Append(toChild, [kind |-> kind, id |-> i]) ELSE toChild

\* call(): a dead worker refuses at once, which changes nothing.
Issue(i) ==
    /\ issued' = i
    /\ promise' = [promise EXCEPT ![i] = "pending"]
    /\ outstanding' = outstanding \cup {i}
    /\ deadlines' = deadlines \cup {i}
    /\ Send("request", i)
    /\ UNCHANGED <<abandoned, graces, dead, childVars, fromChild, child>>

Call ==
    /\ ~dead /\ issued < MaxCalls
    /\ Issue(issued + 1)
    /\ UNCHANGED <<closing, closer>>

\* close() on a live worker sends a request of its own.
Close ==
    /\ ~dead /\ closing = "no" /\ issued < MaxCalls
    /\ Issue(issued + 1)
    /\ closing' = "asked" /\ closer' = issued + 1

\* Mutant: an aborted request is taken off the books, its deadline with it.
Abort_Forgets(i) ==
    /\ promise[i] = "pending" /\ i # closer
    /\ promise' = [promise EXCEPT ![i] = "aborted"]
    /\ outstanding' = outstanding \ {i} /\ deadlines' = deadlines \ {i}
    /\ Send("cancel", i)
    /\ UNCHANGED <<issued, abandoned, graces, dead, closing, closer, childVars, fromChild, child>>

\* The caller aborts: its promise rejects at once, the child is told and must acknowledge.
Abort(i) ==
    /\ promise[i] = "pending" /\ i # closer
    /\ promise' = [promise EXCEPT ![i] = "aborted"]
    /\ abandoned' = abandoned \cup {i}
    /\ graces' = Armed(outstanding, abandoned', graces)
    /\ Send("cancel", i)
    /\ UNCHANGED <<issued, outstanding, deadlines, dead, closing, closer, childVars, fromChild, child>>

-----------------------------------------------------------------------------
(***************************************************************************)
(* The child.                                                              *)
(***************************************************************************)
ChildReads ==
    /\ child = "up" /\ toChild # <<>>
    /\ toChild' = Tail(toChild)
    /\ LET m == Head(toChild)
       IN  \/ m.kind = "request" /\ chain' = Append(chain, m.id) /\ UNCHANGED cancelled
           \/ m.kind = "cancel" /\ cancelled' = cancelled \cup {m.id} /\ UNCHANGED chain
    /\ UNCHANGED <<parentVars, running, fromChild, child>>

\* The next request in order: skipped if it was cancelled; `close` answers and exits.
ChildStarts ==
    /\ child = "up" /\ running = 0 /\ chain # <<>>
    /\ chain' = Tail(chain)
    /\ LET i == Head(chain)
       IN  \/ /\ i \in cancelled
              /\ cancelled' = cancelled \ {i}
              /\ fromChild' = Append(fromChild, i)
              /\ UNCHANGED <<running, child>>
           \/ /\ i \notin cancelled /\ i = closer
              /\ fromChild' = Append(fromChild, i) /\ child' = "gone"
              /\ UNCHANGED <<running, cancelled>>
           \/ /\ i \notin cancelled /\ i # closer
              /\ running' = i
              /\ UNCHANGED <<cancelled, fromChild, child>>
    /\ UNCHANGED <<parentVars, toChild>>

\* A result, an error, or the acknowledgement of a cancel: the parent settles all alike.
ChildAnswers ==
    /\ child = "up" /\ running # 0
    /\ fromChild' = Append(fromChild, running)
    /\ cancelled' = cancelled \ {running}
    /\ running' = 0
    /\ UNCHANGED <<parentVars, toChild, chain, child>>

ChildDies ==
    /\ child = "up"
    /\ child' = "gone"
    /\ UNCHANGED <<parentVars, toChild, childVars, fromChild>>

-----------------------------------------------------------------------------
(***************************************************************************)
(* The parent's events.                                                    *)
(***************************************************************************)
\* Mutant: the exit of a worker that was asked to close is expected, and nothing rejected.
Fail_Expected ==
    /\ deadlines' = {} /\ graces' = {} /\ outstanding' = {} /\ abandoned' = {}
    /\ dead' = TRUE
    /\ promise' = IF dead \/ closing # "no" THEN promise
                  ELSE [i \in Ids |-> IF promise[i] = "pending" THEN "failed" ELSE promise[i]]
    /\ closing' = IF closing = "asked" THEN "over" ELSE closing
    /\ UNCHANGED <<issued, closer>>

\* fail(): no timer and no request survives the worker, except after close() has marked it
\* dead already, when the requests issued since are left as they are.
Fail ==
    /\ deadlines' = {} /\ graces' = {} /\ outstanding' = {} /\ abandoned' = {}
    /\ dead' = TRUE
    /\ promise' = IF dead THEN promise
                  ELSE [i \in Ids |-> IF promise[i] = "pending" THEN "failed" ELSE promise[i]]
    /\ closing' = IF closing = "asked" THEN "over" ELSE closing
    /\ UNCHANGED <<issued, closer>>

ReplyArrives ==
    /\ fromChild # <<>>
    /\ fromChild' = Tail(fromChild)
    /\ LET i == Head(fromChild)
       IN  /\ deadlines' = deadlines \ {i}
           /\ outstanding' = outstanding \ {i}
           /\ abandoned' = abandoned \ {i}
           /\ graces' = Armed(outstanding', abandoned', graces \ {i})
           /\ promise' = IF promise[i] = "pending" THEN [promise EXCEPT ![i] = "answered"] ELSE promise
           /\ IF i = closer /\ promise[i] = "pending"
              THEN closing' = "over" /\ dead' = TRUE
              ELSE UNCHANGED <<closing, dead>>
    /\ UNCHANGED <<issued, closer, toChild, childVars, child>>

ExitSeen ==
    /\ child = "gone"
    /\ child' = "seen"
    /\ Fail
    /\ UNCHANGED <<toChild, childVars, fromChild>>

\* wedged(): a deadline or a grace is over and the child is killed.
TimerFires(i) ==
    /\ i \in deadlines \cup graces
    /\ IF dead
       THEN /\ \/ i \in deadlines /\ deadlines' = deadlines \ {i} /\ UNCHANGED graces
               \/ i \in graces /\ graces' = graces \ {i} /\ UNCHANGED deadlines
            /\ UNCHANGED <<issued, promise, outstanding, abandoned, dead, closing, closer, child>>
       ELSE /\ child' = IF child = "up" THEN "gone" ELSE child
            /\ Fail
    /\ UNCHANGED <<toChild, childVars, fromChild>>

\* The end of close(): the exit is waited for, and after two seconds forced.
Closed ==
    /\ closing = "over"
    /\ closing' = "closed"
    /\ child' = IF child = "up" THEN "gone" ELSE child
    /\ UNCHANGED <<issued, promise, outstanding, abandoned, deadlines, graces, dead, closer,
                   toChild, childVars, fromChild>>

-----------------------------------------------------------------------------
Init ==
    /\ issued = 0 /\ promise = [i \in Ids |-> "unsent"]
    /\ outstanding = {} /\ abandoned = {} /\ deadlines = {} /\ graces = {}
    /\ dead = FALSE /\ closing = "no" /\ closer = 0
    /\ toChild = <<>> /\ chain = <<>> /\ running = 0 /\ cancelled = {} /\ fromChild = <<>>
    /\ child = "up"

SomeTimer == \E i \in Ids : TimerFires(i)

Next ==
    \/ Call
    \/ Close
    \/ \E i \in Ids : Abort(i)
    \/ ChildReads
    \/ ChildStarts
    \/ ChildAnswers
    \/ ChildDies
    \/ ReplyArrives
    \/ ExitSeen
    \/ SomeTimer
    \/ Closed

\* Timers fire and the operating system reports an exit; the child may do nothing at all.
Fairness == WF_vars(SomeTimer) /\ WF_vars(ExitSeen) /\ WF_vars(Closed)

Spec == Init /\ [][Next]_vars /\ Fairness

-----------------------------------------------------------------------------
TypeOK ==
    /\ issued \in 0..MaxCalls /\ closer \in 0..MaxCalls
    /\ promise \in [Ids -> {"unsent", "pending", "answered", "aborted", "failed"}]
    /\ outstanding \subseteq Ids /\ abandoned \subseteq outstanding \cup {i \in Ids : dead}
    /\ deadlines \subseteq Ids /\ graces \subseteq Ids
    /\ dead \in BOOLEAN /\ closing \in {"no", "asked", "over", "closed"}
    /\ running \in 0..MaxCalls /\ cancelled \subseteq Ids
    /\ child \in {"up", "gone", "seen"}

\* Requests on their way to the child, in it or on their way back.
InChild ==
    {toChild[k].id : k \in {n \in DOMAIN toChild : toChild[n].kind = "request"}}
        \cup {chain[k] : k \in DOMAIN chain} \cup {fromChild[k] : k \in DOMAIN fromChild}
        \cup {i \in Ids : i = running}

\* A grace runs only for the request the child is on: everything sent before it has been
\* answered.  Otherwise an abort of a request in the queue would kill a healthy child that
\* is busy with another caller's.
GraceIsTheHeads == ~dead => \A g \in graces : \A i \in Ids : i < g => i \notin InChild

\* A child that is stuck is always found out: whatever it has not answered, aborted or
\* not, has a deadline running.
StuckIsNoticed == ~dead => outstanding \subseteq deadlines /\ (child = "up" => outstanding = InChild)

\* Issued after close() was, to a child that exits without looking at them.
Late == {i \in Ids : closer # 0 /\ i > closer}

\* No request outlives its worker, except those issued after close().
NoneLeftBehind == dead /\ child = "seen" => \A i \in Ids : promise[i] = "pending" => i \in Late

\* (Again and again.)  Whether the child answers, hangs or dies, every request has settled, and
\* so has close().
CallsSettled ==
    /\ \A i \in Ids : promise[i] = "pending" => i \in Late
    /\ closing \in {"no", "closed"}
=============================================================================
