------------------------------ MODULE FollowUps ------------------------------
(***************************************************************************)
(* Messages folded into one session (app.ts): replies to what it said,     *)
(* which the trigger hold delivers twice, at once without their trigger    *)
(* and after the hold with it, and quick follow-ups of its trigger's       *)
(* sender.  A message is steered into the running session, parked while    *)
(* the session is built, or takes its native fate: a session of its own    *)
(* if it is a trigger, nothing if it is not.  What a completed session did *)
(* not read revives it, if it is registered for late input, or takes its   *)
(* native fate.                                                            *)
(*                                                                         *)
(* Left out: the windows that decide whether a message is a follow-up,     *)
(* additions judged by a model (corrections are module LateInput), redos,  *)
(* withdrawn messages, and what becomes of a native fate (Sessions).       *)
(***************************************************************************)
EXTENDS Naturals

CONSTANTS
    Replies,        \* replies to what the session said
    Mentions,       \* follow-ups that are triggers of their own
    Bare,           \* follow-ups that are not
    Media,          \* follow-ups with an image, downloaded first
    MaxResumes,     \* bound: resumes by replies that are not modelled
    MaxCorrections  \* bound: revivals by corrections

Messages == Replies \cup Mentions \cup Bare

FollowUpsAssumption ==
    /\ Replies \cap (Mentions \cup Bare) = {} /\ Mentions \cap Bare = {}
    /\ Media \subseteq Mentions \cup Bare
    /\ MaxResumes \in Nat /\ MaxCorrections \in Nat

VARIABLES
    late,           \* late input is configured
    owner,          \* the session
    entry,          \* it has an entry in lateInputEntries
    got,            \* what the trigger hold has delivered of each message
    steered,        \* steeredEventIds
    place,          \* where the session holds the message; "queued": tracked in pendingSteers
    awaited,        \* twinPending of the tracked ones
    readReplies,    \* readReplySteersAwaitingTwin
    read,           \* history: the messages in the session's transcript
    own,            \* history: how often each was dispatched as a trigger
    spun,           \* history: those the agent spun off
    dropped,        \* history: the session was interrupted or failed with them
    overlooked,     \* history: left to a twin that is suppressed
    resumes, corrections

vars == <<late, owner, entry, got, steered, place, awaited, readReplies, read, own, spun,
          dropped, overlooked, resumes, corrections>>
fates == <<read, own, spun, dropped, overlooked>>
bounds == <<resumes, corrections>>
session == <<late, owner, entry>>

Placed(p) == {m \in Messages : place[m] = p}
Put(S, p) == [m \in Messages |-> IF m \in S THEN p ELSE place[m]]

\* SessionManager.steer, activeForTimeline
Steerable == owner \in {"live", "ending"}
Active == Steerable \/ owner = "building"

\* revertFollowUpToNativeFate, redispatchCoReply: a message without a trigger is left alone.
Native(S) == own' = [m \in Messages |-> IF m \in S \ Bare THEN own[m] + 1 ELSE own[m]]

-----------------------------------------------------------------------------
(***************************************************************************)
(* Deliveries.                                                             *)
(***************************************************************************)
\* steerReplyToActiveSession, on the delivery without the trigger: a session that cannot be
\* steered leaves everything to the twin.
RawReply(m) ==
    /\ m \in Replies /\ got[m] = "nothing"
    /\ owner # "building" \/ resumes > 0         \* it has said something
    /\ got' = [got EXCEPT ![m] = "raw"]
    /\ IF Steerable
       THEN /\ steered' = steered \cup {m} /\ awaited' = awaited \cup {m}
            /\ place' = Put({m}, "queued")
       ELSE UNCHANGED <<steered, awaited, place>>
    /\ UNCHANGED <<session, readReplies, fates, bounds>>

\* The twin of a steered reply.  With late input routeReplyToRequest suppresses it before
\* anybody asks.  Without, consumeSteeredReplyTwin gives it to the steer while that is tracked,
\* and when it was read; else it is a reply like another, but an active session suppresses it
\* as steered.
TwinReply(m) ==
    /\ m \in Replies /\ got[m] = "raw" /\ m \in steered
    /\ got' = [got EXCEPT ![m] = "both"]
    /\ \/ /\ late
          /\ UNCHANGED <<awaited, readReplies, own, overlooked>>
       \/ /\ ~late /\ m \in readReplies
          /\ readReplies' = readReplies \ {m}
          /\ UNCHANGED <<awaited, own, overlooked>>
       \/ /\ ~late /\ m \notin readReplies /\ place[m] = "queued"
          /\ awaited' = awaited \ {m}
          /\ UNCHANGED <<readReplies, own, overlooked>>
       \/ /\ ~late /\ m \notin readReplies /\ place[m] # "queued" /\ Active
          /\ overlooked' = overlooked \cup {m}
          /\ UNCHANGED <<awaited, readReplies, own>>
       \/ /\ ~late /\ m \notin readReplies /\ place[m] # "queued" /\ ~Active
          /\ Native({m})
          /\ UNCHANGED <<awaited, readReplies, overlooked>>
    /\ UNCHANGED <<session, steered, place, read, spun, dropped, bounds>>

\* The twin of a reply that was not steered is steered now, or dispatched.
LateReply(m) ==
    /\ m \in Replies /\ got[m] = "raw" /\ m \notin steered
    /\ got' = [got EXCEPT ![m] = "both"]
    /\ IF Steerable
       THEN steered' = steered \cup {m} /\ place' = Put({m}, "queued") /\ UNCHANGED own
       ELSE Native({m}) /\ UNCHANGED <<steered, place>>
    /\ UNCHANGED <<session, awaited, readReplies, read, spun, dropped, overlooked, bounds>>

\* foldFollowUp, on the delivery that has the trigger if there is one: the windows admit the
\* message or not, and a session with late input is not asked.
Fold(m) ==
    /\ m \in Mentions \cup Bare /\ got[m] = "nothing"
    /\ got' = [got EXCEPT ![m] = "both"]
    /\ \/ /\ ~entry /\ Active
          /\ steered' = steered \cup {m}
          /\ place' = Put({m}, IF ~Steerable THEN "parked"
                               ELSE IF m \in Media THEN "fetching" ELSE "queued")
          /\ UNCHANGED own
       \/ /\ Native({m})
          /\ UNCHANGED <<steered, place>>
    /\ UNCHANGED <<session, awaited, readReplies, read, spun, dropped, overlooked, bounds>>

\* steerFollowUp after the download: the session may have settled.
Fetched(m) ==
    /\ place[m] = "fetching"
    /\ IF Steerable
       THEN place' = Put({m}, "queued") /\ UNCHANGED own
       ELSE place' = Put({m}, "nowhere") /\ Native({m})
    /\ UNCHANGED <<session, got, steered, awaited, readReplies, read, spun, dropped, overlooked, bounds>>

-----------------------------------------------------------------------------
(***************************************************************************)
(* The session.                                                            *)
(***************************************************************************)
\* attachAgent, drainPendingFollowUpsIntoSession
GoLive ==
    /\ owner = "building"
    /\ owner' = "live"
    /\ place' = [m \in Messages |-> IF place[m] # "parked" THEN place[m]
                                    ELSE IF m \in Media THEN "fetching" ELSE "queued"]
    /\ UNCHANGED <<late, entry, got, steered, awaited, readReplies, fates, bounds>>

\* revertAbandonedFollowUps: a session that never goes live gives back what it parked.
BuildFails ==
    /\ owner = "building"
    /\ owner' \in IF resumes = 0 THEN {"dead"} ELSE {"closed", "dead"}
    /\ entry' = FALSE
    /\ place' = Put(Placed("parked"), "nowhere")
    /\ Native(Placed("parked"))
    /\ UNCHANGED <<late, got, steered, awaited, readReplies, read, spun, dropped, overlooked, bounds>>

\* The agent looks at its queue.
Read(m) ==
    /\ owner = "live" /\ m \notin read
    /\ place[m] \in {"queued", "joined"}
    /\ read' = read \cup {m}
    /\ UNCHANGED <<session, got, steered, place, awaited, readReplies, own, spun, dropped, overlooked, bounds>>

\* spawn_session, of a follow-up that was steered into this run
SpinOff(m) ==
    /\ owner = "live" /\ m \in read \ (Replies \cup spun) /\ place[m] = "queued"
    /\ spun' = spun \cup {m}
    /\ own' = [own EXCEPT ![m] = @ + 1]
    /\ UNCHANGED <<session, got, steered, place, awaited, readReplies, read, dropped, overlooked, bounds>>

\* The rollout ends after a last look.
RolloutEnds ==
    /\ owner = "live"
    /\ Placed("queued") \cup Placed("joined") \subseteq read
    /\ owner' = "ending"
    /\ UNCHANGED <<late, entry, got, steered, place, awaited, readReplies, fates, bounds>>

\* Mutant: nobody remembers that a reply was read when its twin is still due.
Completed_Forgets ==
    LET unread == Placed("queued") \ (read \cup awaited)
    IN  /\ owner = "ending"
        /\ readReplies' = readReplies
        /\ awaited' = {}
        /\ overlooked' = IF late THEN overlooked \cup (awaited \ read) ELSE overlooked
        /\ owner' = IF ~entry THEN "closed" ELSE IF unread = {} THEN "ended" ELSE "reviving"
        /\ place' = [m \in Messages |-> IF entry /\ m \in unread THEN "unread"
                                        ELSE IF place[m] \in {"queued", "joined"} THEN "nowhere"
                                        ELSE place[m]]
        /\ Native(IF entry THEN {} ELSE unread)
        /\ UNCHANGED <<late, entry, got, steered, read, spun, dropped, bounds>>

\* redeliverUnreadSteers: what was read keeps its twin, what was not is tried on a revival, or
\* dispatched; a reply whose twin is due is left to it (and with late input it is suppressed).
Completed ==
    LET unread == Placed("queued") \ (read \cup awaited)
    IN  /\ owner = "ending"
        /\ readReplies' = readReplies \cup (awaited \cap read)
        /\ awaited' = {}
        /\ overlooked' = IF late THEN overlooked \cup (awaited \ read) ELSE overlooked
        /\ owner' = IF ~entry THEN "closed" ELSE IF unread = {} THEN "ended" ELSE "reviving"
        /\ place' = [m \in Messages |-> IF entry /\ m \in unread THEN "unread"
                                        ELSE IF place[m] \in {"queued", "joined"} THEN "nowhere"
                                        ELSE place[m]]
        /\ Native(IF entry THEN {} ELSE unread)
        /\ UNCHANGED <<late, entry, got, steered, read, spun, dropped, bounds>>

\* An operator stops the run, or it fails: what is in its queue goes with it.
Dies ==
    /\ owner \in {"live", "ending"}
    /\ owner' = "dead" /\ entry' = FALSE
    /\ readReplies' = readReplies \cup (awaited \cap read)
    /\ awaited' = {}
    /\ dropped' = dropped \cup ((Placed("queued") \cup Placed("joined"))
                                  \ (read \cup IF late THEN {} ELSE awaited))
    /\ place' = Put(Placed("queued") \cup Placed("joined"), "nowhere")
    /\ UNCHANGED <<late, got, steered, read, own, spun, overlooked, bounds>>

\* revive(), from the first message it was asked with, or from a correction: that one starts
\* the run, the others are queued when it does, and nobody tracks them.
Correct ==
    /\ owner = "ended" /\ corrections < MaxCorrections
    /\ owner' = "reviving" /\ corrections' = corrections + 1
    /\ UNCHANGED <<late, entry, got, steered, place, awaited, readReplies, fates, resumes>>

Revived ==
    /\ owner = "reviving"
    /\ owner' = "live"
    /\ \E starts \in IF Placed("unread") = {} THEN {{}} ELSE {{m} : m \in Placed("unread")} :
          /\ read' = read \cup starts
          /\ place' = [m \in Messages |-> IF m \in starts THEN "nowhere"
                                          ELSE IF place[m] = "unread" THEN "joined" ELSE place[m]]
    /\ UNCHANGED <<late, entry, got, steered, awaited, readReplies, own, spun, dropped, overlooked, bounds>>

\* The process drains, and what the revival was for is dispatched.
RevivalFails ==
    /\ owner = "reviving"
    /\ owner' = "closed" /\ entry' = FALSE
    /\ place' = Put(Placed("unread"), "nowhere")
    /\ Native(Placed("unread"))
    /\ UNCHANGED <<late, got, steered, awaited, readReplies, read, spun, dropped, overlooked, bounds>>

\* The entry expires; a reply resumes the session from the database.
Expire ==
    /\ owner = "ended"
    /\ owner' = "closed" /\ entry' = FALSE
    /\ UNCHANGED <<late, got, steered, place, awaited, readReplies, fates, bounds>>

Resume ==
    /\ owner = "closed" /\ resumes < MaxResumes
    /\ owner' = "building" /\ resumes' = resumes + 1
    /\ UNCHANGED <<late, entry, got, steered, place, awaited, readReplies, fates, corrections>>

-----------------------------------------------------------------------------
Init ==
    /\ owner = "building" /\ late \in BOOLEAN /\ entry = late
    /\ got = [m \in Messages |-> "nothing"] /\ place = [m \in Messages |-> "nowhere"]
    /\ own = [m \in Messages |-> 0]
    /\ steered = {} /\ awaited = {} /\ readReplies = {} /\ read = {} /\ spun = {}
    /\ dropped = {} /\ overlooked = {}
    /\ resumes = 0 /\ corrections = 0

\* What is under way comes to its end.
UnderWay ==
    \/ GoLive \/ BuildFails \/ RolloutEnds \/ Completed \/ Revived \/ RevivalFails
    \/ \E m \in Messages : TwinReply(m) \/ LateReply(m) \/ Fetched(m) \/ Read(m)

Next ==
    \/ UnderWay
    \/ \E m \in Messages : RawReply(m) \/ Fold(m) \/ SpinOff(m)
    \/ Dies \/ Correct \/ Expire \/ Resume

Spec == Init /\ [][Next]_vars /\ WF_vars(UnderWay)

-----------------------------------------------------------------------------
TypeOK ==
    /\ owner \in {"building", "live", "ending", "reviving", "ended", "closed", "dead"}
    /\ late \in BOOLEAN /\ entry \in {late, FALSE}
    /\ got \in [Messages -> {"nothing", "raw", "both"}]
    /\ place \in [Messages -> {"nowhere", "parked", "fetching", "queued", "unread", "joined"}]
    /\ awaited \subseteq Placed("queued") /\ readReplies \subseteq steered
    /\ steered \cup read \cup spun \cup dropped \cup overlooked \subseteq Messages
    /\ own \in [Messages -> 0..2]
    /\ resumes \in 0..MaxResumes /\ corrections \in 0..MaxCorrections

\* A message is answered once: as a trigger of its own or by the session that read it, unless
\* the agent spun it off.
AnsweredOnce == \A m \in Messages :
    /\ own[m] <= 1
    /\ m \in read \ spun => own[m] = 0

\* A trigger that was delivered in full is read, dispatched, or still in somebody's hands,
\* unless its session was stopped with it, or its twin was overlooked.
NoTriggerLost == \A m \in Messages \ Bare :
    got[m] = "both" => \/ m \in read \cup dropped \cup overlooked \/ own[m] > 0
                       \/ place[m] # "nowhere"

\* app.ts: a steered reply that its session did not read is left to its twin, which "takes
\* the native path, so the reply is still answered".
StillAnswered == \A m \in Replies :
    got[m] = "both" => m \in read \cup dropped \/ own[m] > 0 \/ place[m] # "nowhere"

\* No message stays parked, in a download, in a queue or before a revival.  (Again and again.)
FollowUpsSettled == \A m \in Messages : got[m] # "raw" /\ place[m] = "nowhere"
=============================================================================
