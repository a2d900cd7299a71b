----------------------------- MODULE PacedLimiter -----------------------------
(***************************************************************************)
(* The limiter in front of a rate-limited service                          *)
(* (src/net/paced-limiter.ts): at most MaxInFlight requests at once,       *)
(* their starts MinInterval apart, interactive callers before background   *)
(* ones.  A release hands its slot to a waiter, which resumes in a later   *)
(* turn and only then reserves its start in the schedule.                  *)
(*                                                                         *)
(* Time is relative: ahead is how far the schedule reaches beyond the      *)
(* present, left what remains of a caller's timer.  Timers are punctual.   *)
(***************************************************************************)
EXTENDS Naturals, Sequences, FiniteSets, SequencesExt

CONSTANTS
    Callers,        \* each makes one request after another
    Classes,        \* from the class served first to the one served last
    ClassOf,
    MaxInFlight,    \* maxInFlight
    MinInterval     \* minIntervalMs

PacedLimiterAssumption ==
    /\ IsFiniteSet(Callers)
    /\ Classes \in Seq(ToSet(Classes)) /\ ClassOf \in [Callers -> ToSet(Classes)]
    /\ MaxInFlight \in Nat /\ MinInterval \in Nat

VARIABLES
    active,     \* slots held, those just handed over included
    queue,      \* the waiters of each class
    ahead,      \* nextStartMs, counted from now
    at,         \* what each caller is doing
    left,       \* what remains of its timer
    rest,       \* history: how long no request may start yet
    hasty       \* history: a request started too early

vars == <<active, queue, ahead, at, left, rest, hasty>>

Waiting == UNION {ToSet(queue[k]) : k \in DOMAIN queue}
Holders == {c \in Callers : at[c] \in {"handed", "pacing", "running"}}

Starts == rest' = MinInterval /\ hasty' = (hasty \/ rest > 0)

\* Mutant: the schedule is read before the timer and written after it.
Reserve_Stale(c) ==
    /\ left' = [left EXCEPT ![c] = ahead]
    /\ ahead' = MinInterval
    /\ IF ahead = 0
       THEN at' = [at EXCEPT ![c] = "running"] /\ Starts
       ELSE at' = [at EXCEPT ![c] = "pacing"] /\ UNCHANGED <<rest, hasty>>

\* The start is reserved in the turn that looks at the schedule.
Reserve(c) ==
    /\ left' = [left EXCEPT ![c] = ahead]
    /\ ahead' = ahead + MinInterval
    /\ IF ahead = 0
       THEN at' = [at EXCEPT ![c] = "running"] /\ Starts
       ELSE at' = [at EXCEPT ![c] = "pacing"] /\ UNCHANGED <<rest, hasty>>

\* acquire: a caller waits when the slots are taken or anyone else waits.
Acquire(c) ==
    /\ at[c] = "idle"
    /\ \/ /\ active < MaxInFlight /\ Waiting = {}
          /\ active' = active + 1
          /\ Reserve(c)
          /\ UNCHANGED queue
       \/ /\ active >= MaxInFlight \/ Waiting # {}
          /\ queue' = [queue EXCEPT ![ClassOf[c]] = Append(@, c)]
          /\ at' = [at EXCEPT ![c] = "queued"]
          /\ UNCHANGED <<active, ahead, left, rest, hasty>>

\* The waiter that was handed a slot resumes.
Resume(c) ==
    /\ at[c] = "handed"
    /\ Reserve(c)
    /\ UNCHANGED <<active, queue>>

Start(c) ==
    /\ at[c] = "pacing" /\ left[c] = 0
    /\ at' = [at EXCEPT ![c] = "running"]
    /\ Starts
    /\ UNCHANGED <<active, queue, ahead, left>>

\* Mutant: the classes are served in the wrong order.
NextClass_Last == Classes[SelectLastInSeq(Classes, LAMBDA k : queue[k] # <<>>)]

\* pickNextWaiter
NextClass == Classes[SelectInSeq(Classes, LAMBDA k : queue[k] # <<>>)]

\* Mutant: the slot is given back before the waiter is woken.
Release_GivesBack(c) ==
    /\ at[c] = "running"
    /\ active' = active - 1
    /\ IF Waiting = {}
       THEN at' = [at EXCEPT ![c] = "idle"] /\ UNCHANGED queue
       ELSE /\ queue' = [queue EXCEPT ![NextClass] = Tail(@)]
            /\ at' = [at EXCEPT ![c] = "idle", ![Head(queue[NextClass])] = "handed"]
    /\ UNCHANGED <<ahead, left, rest, hasty>>

\* release: the slot goes to the first waiter of the first class, and is not counted down.
Release(c) ==
    /\ at[c] = "running"
    /\ IF Waiting = {}
       THEN /\ active' = active - 1
            /\ at' = [at EXCEPT ![c] = "idle"]
            /\ UNCHANGED queue
       ELSE /\ queue' = [queue EXCEPT ![NextClass] = Tail(@)]
            /\ at' = [at EXCEPT ![c] = "idle", ![Head(queue[NextClass])] = "handed"]
            /\ UNCHANGED active
    /\ UNCHANGED <<ahead, left, rest, hasty>>

\* Time passes while no timer is due.
Tick ==
    /\ \A c \in Callers : at[c] = "pacing" => left[c] > 0
    /\ \A c \in Callers : at[c] # "handed"
    /\ ahead > 0 \/ rest > 0
    /\ ahead' = IF ahead > 0 THEN ahead - 1 ELSE 0
    /\ rest' = IF rest > 0 THEN rest - 1 ELSE 0
    /\ left' = [c \in Callers |-> IF left[c] > 0 THEN left[c] - 1 ELSE 0]
    /\ UNCHANGED <<active, queue, at, hasty>>

-----------------------------------------------------------------------------

Init ==
    /\ active = 0
    /\ queue = [k \in ToSet(Classes) |-> <<>>]
    /\ ahead = 0 /\ rest = 0 /\ hasty = FALSE
    /\ at = [c \in Callers |-> "idle"]
    /\ left = [c \in Callers |-> 0]

Next ==
    \/ \E c \in Callers : Acquire(c) \/ Resume(c) \/ Start(c) \/ Release(c)
    \/ Tick

\* Timers fire, and a request ends.
SomeTurn == \E c \in Callers : Resume(c) \/ Start(c) \/ Release(c)
Fairness == WF_vars(Tick) /\ WF_vars(SomeTurn)

Spec == Init /\ [][Next]_vars /\ Fairness

(***************************************************************************)
(* Properties.                                                             *)
(***************************************************************************)
TypeOK ==
    /\ active \in Nat /\ ahead \in Nat /\ rest \in 0..MinInterval
    /\ queue \in [ToSet(Classes) -> Seq(Callers)]
    /\ at \in [Callers -> {"idle", "queued", "handed", "pacing", "running"}]
    /\ left \in [Callers -> Nat]
    /\ hasty \in BOOLEAN

\* No more callers have a slot than there are, those included that were handed one and
\* have not resumed.
InFlightBounded == Cardinality(Holders) <= MaxInFlight

\* A slot is not lost: nobody waits while one is free, and active counts the holders.
NoSlotLost ==
    /\ active = Cardinality(Holders)
    /\ Waiting # {} => active = MaxInFlight

\* Two requests never start closer together than the interval, however their callers got
\* their slots.
StartsPaced == ~hasty

\* (Again and again.)  No caller of the first class waits, whatever the other classes ask for.
FirstClassServed == \A c \in Callers : ClassOf[c] = Classes[1] => at[c] # "queued"
=============================================================================
