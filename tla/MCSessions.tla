----------------------------- MODULE MCSessions -----------------------------
(***************************************************************************)
(* Instances of Sessions for TLC.                                          *)
(***************************************************************************)
EXTENDS Sessions, TLC

CONSTANTS t1, t2, t3, t4, message    \* triggers, and a message they reply to

FourTriggers == {t1, t2, t3, t4}

\* Three replies to one message, one of them with an image, and a reply to what the
\* first one's session said.
FourReplies == t1 :> message @@ t2 :> message @@ t3 :> message @@ t4 :> t1
Image == {t3}

\* A session, a reply to what it said, and two unrelated triggers.
ResumeReplies == t1 :> None @@ t2 :> None @@ t3 :> t1 @@ t4 :> None

\* A session, two replies to what it said, and an unrelated trigger.
TwoResumers == t1 :> None @@ t2 :> None @@ t3 :> t1 @@ t4 :> t1

\* A session, a reply to it, a post of the proactive scheduler, and a reply to it.
RecoveredReplies == t1 :> None @@ t2 :> t1 @@ t3 :> None @@ t4 :> t3

SameTime == [t \in Triggers |-> 0]
=============================================================================
