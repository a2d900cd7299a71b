---------------------------- MODULE RoomHistory -----------------------------
(***************************************************************************)
(* What the timeline store promises of one room, across restarts: its      *)
(* history grows only at its newer end.  A message is kept only when every *)
(* message before it is kept, or is excused: deleted at its source, or     *)
(* inside a span the bot has acknowledged as lost.  src/ARCHITECTURE.md    *)
(* section 7c states it as "the committed high-water mark of a room never  *)
(* advances until that room's gap is fully closed".                        *)
(***************************************************************************)
EXTENDS Integers

CONSTANT MaxMessages    \* bound: messages ever posted to the room

VARIABLES
    posted,     \* messages 1..posted exist on the server
    kept,       \* the bot's stored history
    excused     \* messages the history may lack

vars == <<posted, kept, excused>>

Messages == 1..MaxMessages

Init ==
    /\ posted \in 0..MaxMessages
    /\ \E n \in 0..posted : kept = 1..n
    /\ excused = {}

Post ==
    /\ posted < MaxMessages
    /\ posted' = posted + 1
    /\ UNCHANGED <<kept, excused>>

Excuse(S) ==
    /\ excused' = excused \cup S
    /\ UNCHANGED <<posted, kept>>

\* A keep may acknowledge, in the same step, the span it leaves behind.
Keep(m, S) ==
    /\ m <= posted
    /\ m \notin kept
    /\ excused' = excused \cup S
    /\ 1..(m - 1) \subseteq kept \cup excused'
    /\ kept' = kept \cup {m}
    /\ UNCHANGED posted

Next ==
    \/ Post
    \/ \E S \in SUBSET Messages : Excuse(S)
    \/ \E m \in Messages, S \in SUBSET Messages : Keep(m, S)

Spec == Init /\ [][Next]_vars

\* The history has no hole: below its newest message only excused ones are missing.
NoBuriedGap ==
    \A m \in kept : 1..(m - 1) \subseteq kept \cup excused
=============================================================================
