---------------------------- MODULE AgentProofs -----------------------------
(***************************************************************************)
(* Proofs about one agent, for every value of the constants: FollowUps,    *)
(* the messages folded into a session, SessionRunner, its run, of the      *)
(* retrieval it works with WorkerRpc, the requests to its worker process,  *)
(* and LateWindow, the blocks kept loaded there, and PacedLimiter, the     *)
(* requests to a rate-limited service.  The variables have the names       *)
(* MCComponents gives them.                                                *)
(***************************************************************************)
EXTENDS FiniteSetTheorems, FunctionTheorems, SequenceTheorems, WellFoundedInduction, TLAPS

CONSTANTS
    Replies, Mentions, Bare, Media, MaxResumes, MaxRevivals,
    Sends, Notes, MaxRetries, Tries, MaxRedos, MaxCorrections, MaxStops,
    MaxCalls, Blocks, Indexed, WindowSize, Page, Load, MaxDeaths
VARIABLES
    late, owner, entry, got, steered, place, awaited, readReplies, read, dispatched, spun,
    dropped, overlooked, resumes, corrections,
    onExhausted, run, msgs, steering, aborting, interrupted, retries, contractRedone, tries,
    control, redo, lateStep, step, from, redoCount, asked, end, delivered, notes, extra, stale,
    issued, promise, outstanding, abandoned, deadlines, graces, dead, closing, closer,
    toChild, chain, running, cancelled, fromChild, child,
    withVectors, unbumped, version, window, resident, loaded, alive, refreshTimer,
    rerun, update, windowKey, members, base, toAdd, had, torn, failed, deaths

Folding == INSTANCE FollowUps WITH MaxCorrections <- MaxRevivals, own <- dispatched
Runner == INSTANCE SessionRunner WITH
    queue <- steering, late <- lateStep, corrections <- asked, heard <- notes
Rpc == INSTANCE WorkerRpc
Resident == INSTANCE LateWindow WITH
    stored <- withVectors, timer <- refreshTimer, at <- update, key <- windowKey,
    todo <- toAdd

-----------------------------------------------------------------------------
(***************************************************************************)
(* FollowUps.                                                              *)
(***************************************************************************)
\* A message that was delivered only without its trigger is a reply that nobody answered as a
\* trigger: its steer is tracked while it is queued, and remembered when it was read.
AwaitsTwin(m) == got[m] = "raw" =>
    /\ m \in Replies /\ dispatched[m] = 0
    /\ place[m] = (IF m \in awaited THEN "queued" ELSE "nowhere")
    /\ m \notin steered => m \notin read \cup awaited
    /\ m \in read => m \in awaited \cup readReplies
    /\ late /\ m \in steered \ awaited => m \in read \cup dropped \cup overlooked

\* Where a message stands, and what was done with it.
Handled(m) ==
    /\ got[m] = "nothing" => /\ m \notin steered \cup read \cup spun
                             /\ dispatched[m] = 0 /\ place[m] = "nowhere"
    /\ AwaitsTwin(m)
    /\ m \in awaited => /\ m \in Replies \cap steered /\ place[m] = "queued"
                        /\ got[m] = "raw" \/ late
    /\ m \in readReplies => m \in (read \cap steered) \ awaited
    /\ m \in spun => /\ m \in read \ Replies /\ dispatched[m] = 1
                     /\ place[m] \in {"queued", "nowhere"}
    /\ place[m] \in {"parked", "fetching", "unread"} => m \notin read
    /\ place[m] # "nowhere" /\ m \notin spun => dispatched[m] = 0
    /\ m \in read \ spun => dispatched[m] = 0
    /\ owner = "ending" /\ place[m] = "joined" => m \in read
    /\ dispatched[m] \in 0..1
    /\ got[m] = "both" /\ m \notin Bare =>
           \/ m \in read \cup dropped \cup overlooked \/ dispatched[m] > 0
           \/ place[m] # "nowhere"

FoldInv == Folding!TypeOK /\ \A m \in Folding!Messages : Handled(m)

\* Nothing was delivered, steered or read yet.
THEOREM FoldInit == ASSUME Folding!FollowUpsAssumption PROVE Folding!Init => FoldInv
PROOF
  <1> SUFFICES ASSUME Folding!Init PROVE FoldInv
    OBVIOUS
  <1>1. Folding!TypeOK
    BY DEF Folding!Init, Folding!TypeOK, Folding!Placed, Folding!FollowUpsAssumption
  <1>2. \A m \in Folding!Messages : Handled(m)
    BY DEF Folding!Init, Handled, AwaitsTwin
  <1> QED
    BY <1>1, <1>2 DEF FoldInv

\* Each delivery, read, end, revival and resume keeps the account of every message.
LEMMA FoldStep ==
    ASSUME Folding!FollowUpsAssumption
    PROVE  FoldInv /\ [Folding!Next]_(Folding!vars) => FoldInv'
PROOF
  <1> SUFFICES ASSUME FoldInv, [Folding!Next]_(Folding!vars) PROVE FoldInv'
    OBVIOUS
  <1> USE DEF Folding!Messages, Folding!Placed, Folding!Put, Folding!Native, Folding!Steerable,
              Folding!Active, Folding!session, Folding!fates, Folding!bounds
  <1>0. Folding!TypeOK /\ \A n \in Folding!Messages : Handled(n)
    BY DEF FoldInv
  <1>1. ASSUME NEW m \in Folding!Messages, Folding!RawReply(m) PROVE FoldInv'
    <2>1. Folding!TypeOK'
      <3>1. /\ owner' \in {"building", "live", "ending", "reviving", "ended", "closed", "dead"}
            /\ late' \in BOOLEAN /\ entry' \in {late', FALSE}
            /\ resumes' \in 0..MaxResumes /\ corrections' \in 0..MaxRevivals
          BY <1>0, <1>1 DEF Folding!RawReply, Folding!TypeOK, Folding!FollowUpsAssumption
      <3>2. got' \in [Folding!Messages -> {"nothing", "raw", "both"}]
          BY <1>0, <1>1 DEF Folding!RawReply, Folding!TypeOK
      <3>3. place' \in [Folding!Messages ->
                        {"nowhere", "parked", "fetching", "queued", "unread", "joined"}]
          BY <1>0, <1>1 DEF Folding!RawReply, Folding!TypeOK
      <3>4. dispatched' \in [Folding!Messages -> 0..2]
          BY <1>0, <1>1 DEF Folding!RawReply, Folding!TypeOK, Handled, AwaitsTwin
      <3>5. /\ readReplies' \subseteq steered'
            /\ steered' \cup read' \cup spun' \cup dropped' \cup overlooked'
                 \subseteq Folding!Messages
          BY <1>0, <1>1 DEF Folding!RawReply, Folding!TypeOK, Handled
      <3>6. awaited' \subseteq Folding!Placed("queued")'
          BY <1>0, <1>1 DEF Folding!RawReply, Folding!TypeOK, Handled
      <3> QED
        BY <3>1, <3>2, <3>3, <3>4, <3>5, <3>6 DEF Folding!TypeOK
    <2>2. ASSUME NEW n \in Folding!Messages PROVE Handled(n)'
      BY <1>0, <1>1 DEF Folding!RawReply, Folding!TypeOK, Handled, AwaitsTwin
    <2> QED
      BY <2>1, <2>2 DEF FoldInv
  <1>2. ASSUME NEW m \in Folding!Messages, Folding!TwinReply(m) PROVE FoldInv'
    <2>1. Folding!TypeOK'
      <3>1. /\ owner' \in {"building", "live", "ending", "reviving", "ended", "closed", "dead"}
            /\ late' \in BOOLEAN /\ entry' \in {late', FALSE}
            /\ resumes' \in 0..MaxResumes /\ corrections' \in 0..MaxRevivals
          BY <1>0, <1>2 DEF Folding!TwinReply, Folding!TypeOK, Folding!FollowUpsAssumption
      <3>2. got' \in [Folding!Messages -> {"nothing", "raw", "both"}]
          BY <1>0, <1>2 DEF Folding!TwinReply, Folding!TypeOK
      <3>3. place' \in [Folding!Messages ->
                        {"nowhere", "parked", "fetching", "queued", "unread", "joined"}]
          BY <1>0, <1>2 DEF Folding!TwinReply, Folding!TypeOK
      <3>4. dispatched' \in [Folding!Messages -> 0..2]
          BY <1>0, <1>2 DEF Folding!TwinReply, Folding!TypeOK, Handled, AwaitsTwin
      <3>5. /\ readReplies' \subseteq steered'
            /\ steered' \cup read' \cup spun' \cup dropped' \cup overlooked'
                 \subseteq Folding!Messages
          BY <1>0, <1>2 DEF Folding!TwinReply, Folding!TypeOK, Handled
      <3>6. awaited' \subseteq Folding!Placed("queued")'
          BY <1>0, <1>2 DEF Folding!TwinReply, Folding!TypeOK, Handled
      <3> QED
        BY <3>1, <3>2, <3>3, <3>4, <3>5, <3>6 DEF Folding!TypeOK
    <2>2. ASSUME NEW n \in Folding!Messages PROVE Handled(n)'
      <3>1. CASE late
        BY <1>0, <1>2, <3>1 DEF Folding!TwinReply, Folding!TypeOK, Handled, AwaitsTwin
      <3>2. CASE ~late /\ m \in readReplies
        <4>1. /\ got' = [got EXCEPT ![m] = "both"] /\ readReplies' = readReplies \ {m}
              /\ UNCHANGED <<late, owner, steered, place, awaited, read, dispatched,
                            spun, dropped, overlooked>>
          BY <1>2, <3>2 DEF Folding!TwinReply
        <4>2. m \in read /\ got \in [Folding!Messages -> {"nothing", "raw", "both"}]
          BY <1>0, <3>2 DEF Handled, Folding!TypeOK
        <4>3. CASE n = m
          BY <1>0, <3>2, <4>1, <4>2, <4>3 DEF Handled, AwaitsTwin
        <4>4. CASE n # m
          <5>1. /\ got'[n] = got[n] /\ (n \in readReplies' <=> n \in readReplies)
                /\ Handled(n)
            BY <1>0, <4>1, <4>2, <4>4
          <5> QED
            BY <4>1, <5>1 DEF Handled, AwaitsTwin
        <4> QED
          BY <4>3, <4>4
      <3>3. CASE ~late /\ m \notin readReplies /\ place[m] = "queued"
        BY <1>0, <1>2, <3>3 DEF Folding!TwinReply, Folding!TypeOK, Handled, AwaitsTwin
      <3>4. CASE ~late /\ m \notin readReplies /\ place[m] # "queued" /\ Folding!Active
        BY <1>0, <1>2, <3>4 DEF Folding!TwinReply, Folding!TypeOK, Handled, AwaitsTwin
      <3>5. CASE ~late /\ m \notin readReplies /\ place[m] # "queued" /\ ~Folding!Active
        BY <1>0, <1>2, <3>5 DEF Folding!TwinReply, Folding!TypeOK, Handled, AwaitsTwin
      <3> QED
        BY <1>2, <3>1, <3>2, <3>3, <3>4, <3>5 DEF Folding!TwinReply
    <2> QED
      BY <2>1, <2>2 DEF FoldInv
  <1>3. ASSUME NEW m \in Folding!Messages, Folding!LateReply(m) PROVE FoldInv'
    <2>1. Folding!TypeOK'
      <3>1. /\ owner' \in {"building", "live", "ending", "reviving", "ended", "closed", "dead"}
            /\ late' \in BOOLEAN /\ entry' \in {late', FALSE}
            /\ resumes' \in 0..MaxResumes /\ corrections' \in 0..MaxRevivals
          BY <1>0, <1>3 DEF Folding!LateReply, Folding!TypeOK, Folding!FollowUpsAssumption
      <3>2. got' \in [Folding!Messages -> {"nothing", "raw", "both"}]
          BY <1>0, <1>3 DEF Folding!LateReply, Folding!TypeOK
      <3>3. place' \in [Folding!Messages ->
                        {"nowhere", "parked", "fetching", "queued", "unread", "joined"}]
          BY <1>0, <1>3 DEF Folding!LateReply, Folding!TypeOK
      <3>4. dispatched' \in [Folding!Messages -> 0..2]
          BY <1>0, <1>3 DEF Folding!LateReply, Folding!TypeOK, Handled, AwaitsTwin
      <3>5. /\ readReplies' \subseteq steered'
            /\ steered' \cup read' \cup spun' \cup dropped' \cup overlooked'
                 \subseteq Folding!Messages
          BY <1>0, <1>3 DEF Folding!LateReply, Folding!TypeOK, Handled
      <3>6. awaited' \subseteq Folding!Placed("queued")'
          BY <1>0, <1>3 DEF Folding!LateReply, Folding!TypeOK, Handled
      <3> QED
        BY <3>1, <3>2, <3>3, <3>4, <3>5, <3>6 DEF Folding!TypeOK
    <2>2. ASSUME NEW n \in Folding!Messages PROVE Handled(n)'
      BY <1>0, <1>3 DEF Folding!LateReply, Folding!TypeOK, Handled, AwaitsTwin
    <2> QED
      BY <2>1, <2>2 DEF FoldInv
  <1>4. ASSUME NEW m \in Folding!Messages, Folding!Fold(m) PROVE FoldInv'
    <2>1. Folding!TypeOK'
      <3>1. /\ owner' \in {"building", "live", "ending", "reviving", "ended", "closed", "dead"}
            /\ late' \in BOOLEAN /\ entry' \in {late', FALSE}
            /\ resumes' \in 0..MaxResumes /\ corrections' \in 0..MaxRevivals
          BY <1>0, <1>4 DEF Folding!Fold, Folding!TypeOK, Folding!FollowUpsAssumption
      <3>2. got' \in [Folding!Messages -> {"nothing", "raw", "both"}]
          BY <1>0, <1>4 DEF Folding!Fold, Folding!TypeOK
      <3>3. place' \in [Folding!Messages ->
                        {"nowhere", "parked", "fetching", "queued", "unread", "joined"}]
          BY <1>0, <1>4 DEF Folding!Fold, Folding!TypeOK
      <3>4. dispatched' \in [Folding!Messages -> 0..2]
          BY <1>0, <1>4 DEF Folding!Fold, Folding!TypeOK, Handled, AwaitsTwin
      <3>5. /\ readReplies' \subseteq steered'
            /\ steered' \cup read' \cup spun' \cup dropped' \cup overlooked'
                 \subseteq Folding!Messages
          BY <1>0, <1>4 DEF Folding!Fold, Folding!TypeOK, Handled
      <3>6. awaited' \subseteq Folding!Placed("queued")'
          BY <1>0, <1>4 DEF Folding!Fold, Folding!TypeOK, Handled
      <3> QED
        BY <3>1, <3>2, <3>3, <3>4, <3>5, <3>6 DEF Folding!TypeOK
    <2>2. ASSUME NEW n \in Folding!Messages PROVE Handled(n)'
      BY <1>0, <1>4 DEF Folding!Fold, Folding!TypeOK, Handled, AwaitsTwin
    <2> QED
      BY <2>1, <2>2 DEF FoldInv
  <1>5. ASSUME NEW m \in Folding!Messages, Folding!Fetched(m) PROVE FoldInv'
    <2>1. Folding!TypeOK'
      <3>1. /\ owner' \in {"building", "live", "ending", "reviving", "ended", "closed", "dead"}
            /\ late' \in BOOLEAN /\ entry' \in {late', FALSE}
            /\ resumes' \in 0..MaxResumes /\ corrections' \in 0..MaxRevivals
          BY <1>0, <1>5 DEF Folding!Fetched, Folding!TypeOK, Folding!FollowUpsAssumption
      <3>2. got' \in [Folding!Messages -> {"nothing", "raw", "both"}]
          BY <1>0, <1>5 DEF Folding!Fetched, Folding!TypeOK
      <3>3. place' \in [Folding!Messages ->
                        {"nowhere", "parked", "fetching", "queued", "unread", "joined"}]
          BY <1>0, <1>5 DEF Folding!Fetched, Folding!TypeOK
      <3>4. dispatched' \in [Folding!Messages -> 0..2]
          BY <1>0, <1>5 DEF Folding!Fetched, Folding!TypeOK, Handled, AwaitsTwin
      <3>5. /\ readReplies' \subseteq steered'
            /\ steered' \cup read' \cup spun' \cup dropped' \cup overlooked'
                 \subseteq Folding!Messages
          BY <1>0, <1>5 DEF Folding!Fetched, Folding!TypeOK, Handled
      <3>6. awaited' \subseteq Folding!Placed("queued")'
          BY <1>0, <1>5 DEF Folding!Fetched, Folding!TypeOK, Handled
      <3> QED
        BY <3>1, <3>2, <3>3, <3>4, <3>5, <3>6 DEF Folding!TypeOK
    <2>2. ASSUME NEW n \in Folding!Messages PROVE Handled(n)'
      BY <1>0, <1>5 DEF Folding!Fetched, Folding!TypeOK, Handled, AwaitsTwin
    <2> QED
      BY <2>1, <2>2 DEF FoldInv
  <1>6. CASE Folding!GoLive
    <2>1. Folding!TypeOK'
      BY <1>0, <1>6 DEF Folding!GoLive, Folding!TypeOK, Handled, AwaitsTwin,
         Folding!FollowUpsAssumption
    <2>2. ASSUME NEW n \in Folding!Messages PROVE Handled(n)'
      BY <1>0, <1>6 DEF Folding!GoLive, Folding!TypeOK, Handled, AwaitsTwin
    <2> QED
      BY <2>1, <2>2 DEF FoldInv
  <1>7. CASE Folding!BuildFails
    <2>1. Folding!TypeOK'
      <3>1. /\ owner' \in {"building", "live", "ending", "reviving", "ended", "closed", "dead"}
            /\ late' \in BOOLEAN /\ entry' \in {late', FALSE}
            /\ resumes' \in 0..MaxResumes /\ corrections' \in 0..MaxRevivals
          BY <1>0, <1>7 DEF Folding!BuildFails, Folding!TypeOK, Folding!FollowUpsAssumption
      <3>2. got' \in [Folding!Messages -> {"nothing", "raw", "both"}]
          BY <1>0, <1>7 DEF Folding!BuildFails, Folding!TypeOK
      <3>3. place' \in [Folding!Messages ->
                        {"nowhere", "parked", "fetching", "queued", "unread", "joined"}]
          BY <1>0, <1>7 DEF Folding!BuildFails, Folding!TypeOK
      <3>4. dispatched' \in [Folding!Messages -> 0..2]
          BY <1>0, <1>7 DEF Folding!BuildFails, Folding!TypeOK, Handled, AwaitsTwin
      <3>5. /\ readReplies' \subseteq steered'
            /\ steered' \cup read' \cup spun' \cup dropped' \cup overlooked'
                 \subseteq Folding!Messages
          BY <1>0, <1>7 DEF Folding!BuildFails, Folding!TypeOK, Handled
      <3>6. awaited' \subseteq Folding!Placed("queued")'
          BY <1>0, <1>7 DEF Folding!BuildFails, Folding!TypeOK, Handled
      <3> QED
        BY <3>1, <3>2, <3>3, <3>4, <3>5, <3>6 DEF Folding!TypeOK
    <2>2. ASSUME NEW n \in Folding!Messages PROVE Handled(n)'
      BY <1>0, <1>7 DEF Folding!BuildFails, Folding!TypeOK, Handled, AwaitsTwin
    <2> QED
      BY <2>1, <2>2 DEF FoldInv
  <1>8. ASSUME NEW m \in Folding!Messages, Folding!Read(m) PROVE FoldInv'
    <2>1. Folding!TypeOK'
      BY <1>0, <1>8, ZenonT(40) DEF Folding!Read, Folding!TypeOK, Handled, AwaitsTwin,
         Folding!FollowUpsAssumption
    <2>2. ASSUME NEW n \in Folding!Messages PROVE Handled(n)'
      BY <1>0, <1>8 DEF Folding!Read, Folding!TypeOK, Handled, AwaitsTwin
    <2> QED
      BY <2>1, <2>2 DEF FoldInv
  <1>9. ASSUME NEW m \in Folding!Messages, Folding!SpinOff(m) PROVE FoldInv'
    <2>1. Folding!TypeOK'
      <3>1. /\ owner' \in {"building", "live", "ending", "reviving", "ended", "closed", "dead"}
            /\ late' \in BOOLEAN /\ entry' \in {late', FALSE}
            /\ resumes' \in 0..MaxResumes /\ corrections' \in 0..MaxRevivals
          BY <1>0, <1>9 DEF Folding!SpinOff, Folding!TypeOK, Folding!FollowUpsAssumption
      <3>2. got' \in [Folding!Messages -> {"nothing", "raw", "both"}]
          BY <1>0, <1>9 DEF Folding!SpinOff, Folding!TypeOK
      <3>3. place' \in [Folding!Messages ->
                        {"nowhere", "parked", "fetching", "queued", "unread", "joined"}]
          BY <1>0, <1>9 DEF Folding!SpinOff, Folding!TypeOK
      <3>4. dispatched' \in [Folding!Messages -> 0..2]
          BY <1>0, <1>9 DEF Folding!SpinOff, Folding!TypeOK, Handled, AwaitsTwin
      <3>5. /\ readReplies' \subseteq steered'
            /\ steered' \cup read' \cup spun' \cup dropped' \cup overlooked'
                 \subseteq Folding!Messages
          BY <1>0, <1>9 DEF Folding!SpinOff, Folding!TypeOK, Handled
      <3>6. awaited' \subseteq Folding!Placed("queued")'
          BY <1>0, <1>9 DEF Folding!SpinOff, Folding!TypeOK, Handled
      <3> QED
        BY <3>1, <3>2, <3>3, <3>4, <3>5, <3>6 DEF Folding!TypeOK
    <2>2. ASSUME NEW n \in Folding!Messages PROVE Handled(n)'
      BY <1>0, <1>9 DEF Folding!SpinOff, Folding!TypeOK, Handled, AwaitsTwin
    <2> QED
      BY <2>1, <2>2 DEF FoldInv
  <1>10. CASE Folding!RolloutEnds
    <2>1. Folding!TypeOK'
      BY <1>0, <1>10 DEF Folding!RolloutEnds, Folding!TypeOK, Handled, AwaitsTwin,
         Folding!FollowUpsAssumption
    <2>2. ASSUME NEW n \in Folding!Messages PROVE Handled(n)'
      BY <1>0, <1>10 DEF Folding!RolloutEnds, Folding!TypeOK, Handled, AwaitsTwin
    <2> QED
      BY <2>1, <2>2 DEF FoldInv
  <1>11. CASE Folding!Completed
    <2>1. Folding!TypeOK'
      <3>1. /\ owner' \in {"building", "live", "ending", "reviving", "ended", "closed", "dead"}
            /\ late' \in BOOLEAN /\ entry' \in {late', FALSE}
            /\ resumes' \in 0..MaxResumes /\ corrections' \in 0..MaxRevivals
          BY <1>0, <1>11 DEF Folding!Completed, Folding!TypeOK, Folding!FollowUpsAssumption
      <3>2. got' \in [Folding!Messages -> {"nothing", "raw", "both"}]
          BY <1>0, <1>11 DEF Folding!Completed, Folding!TypeOK
      <3>3. place' \in [Folding!Messages ->
                        {"nowhere", "parked", "fetching", "queued", "unread", "joined"}]
          BY <1>0, <1>11 DEF Folding!Completed, Folding!TypeOK
      <3>4. dispatched' \in [Folding!Messages -> 0..2]
          BY <1>0, <1>11 DEF Folding!Completed, Folding!TypeOK, Handled, AwaitsTwin
      <3>5. /\ readReplies' \subseteq steered'
            /\ steered' \cup read' \cup spun' \cup dropped' \cup overlooked'
                 \subseteq Folding!Messages
          BY <1>0, <1>11 DEF Folding!Completed, Folding!TypeOK, Handled
      <3>6. awaited' \subseteq Folding!Placed("queued")'
          BY <1>0, <1>11 DEF Folding!Completed, Folding!TypeOK, Handled
      <3> QED
        BY <3>1, <3>2, <3>3, <3>4, <3>5, <3>6 DEF Folding!TypeOK
    <2>2. ASSUME NEW n \in Folding!Messages PROVE Handled(n)'
      <3> DEFINE unread == {m \in Folding!Messages : place[m] = "queued"} \ (read \cup awaited)
      <3>1. /\ got' = got /\ read' = read /\ spun' = spun /\ dropped' = dropped /\ late' = late
            /\ steered' = steered /\ awaited' = {}
            /\ readReplies' = readReplies \cup (awaited \cap read)
        BY <1>11 DEF Folding!Completed
      <3>2. late => overlooked' = overlooked \cup (awaited \ read)
        BY <1>11 DEF Folding!Completed
      <3>3. overlooked \subseteq overlooked'
        BY <1>11 DEF Folding!Completed
      <3>4. place'[n] = IF entry /\ n \in unread THEN "unread"
                        ELSE IF place[n] \in {"queued", "joined"} THEN "nowhere" ELSE place[n]
        BY <1>11 DEF Folding!Completed
      <3>5. dispatched'[n] = IF ~entry /\ n \in unread \ Bare THEN dispatched[n] + 1
                             ELSE dispatched[n]
        BY <1>11 DEF Folding!Completed
      <3>6. AwaitsTwin(n)'
        <4> SUFFICES ASSUME got[n] = "raw" PROVE AwaitsTwin(n)'
          BY <3>1 DEF AwaitsTwin
        <4>1. n \notin unread /\ AwaitsTwin(n)
          BY <1>0 DEF Handled, AwaitsTwin
        <4>2. place'[n] = "nowhere" /\ dispatched'[n] = 0 /\ n \in Replies
          BY <3>4, <3>5, <4>1 DEF AwaitsTwin
        <4>3. /\ n \notin steered => n \notin read
              /\ n \in read => n \in readReplies'
          BY <3>1, <4>1 DEF AwaitsTwin
        <4>4. late /\ n \in steered => n \in read \cup dropped \cup overlooked'
          BY <3>1, <3>2, <3>3, <4>1 DEF AwaitsTwin
        <4> QED
          BY <3>1, <4>2, <4>3, <4>4 DEF AwaitsTwin
      <3>7. (got[n] = "both" /\ n \notin Bare =>
               \/ n \in read \cup dropped \cup overlooked \/ dispatched[n] > 0
               \/ place[n] # "nowhere")'
        <4>1. owner = "ending" /\ dispatched[n] \in 0..1
          BY <1>0, <1>11 DEF Folding!Completed, Handled
        <4>2. CASE place[n] \in {"queued", "joined"} /\ n \notin read
          <5>1. place[n] = "queued"
            BY <1>0, <4>1, <4>2 DEF Handled
          <5>2. CASE n \in awaited
            BY <1>0, <3>1, <3>2, <5>2 DEF Handled
          <5>3. CASE n \notin awaited
            BY <3>1, <3>4, <3>5, <4>1, <4>2, <5>1, <5>3
          <5> QED
            BY <5>2, <5>3
        <4>3. CASE place[n] \notin {"queued", "joined"} \/ n \in read
          BY <1>0, <3>1, <3>3, <3>4, <3>5, <4>1, <4>3 DEF Handled
        <4> QED
          BY <4>2, <4>3
      <3>8. (dispatched[n] \in 0..1)'
        BY <1>0, <3>1, <3>4, <3>5 DEF Handled, AwaitsTwin
      <3> QED
        BY <1>0, <3>1, <3>4, <3>5, <3>6, <3>7, <3>8 DEF Handled
    <2> QED
      BY <2>1, <2>2 DEF FoldInv
  <1>12. CASE Folding!Dies
    <2>1. Folding!TypeOK'
      BY <1>0, <1>12 DEF Folding!Dies, Folding!TypeOK, Handled, AwaitsTwin,
         Folding!FollowUpsAssumption
    <2>2. ASSUME NEW n \in Folding!Messages PROVE Handled(n)'
      BY <1>0, <1>12 DEF Folding!Dies, Folding!TypeOK, Handled, AwaitsTwin
    <2> QED
      BY <2>1, <2>2 DEF FoldInv
  <1>13. CASE Folding!Correct
    <2>1. Folding!TypeOK'
      <3>1. /\ owner' \in {"building", "live", "ending", "reviving", "ended", "closed", "dead"}
            /\ late' \in BOOLEAN /\ entry' \in {late', FALSE}
            /\ resumes' \in 0..MaxResumes /\ corrections' \in 0..MaxRevivals
        <4>1. MaxResumes \in Nat /\ MaxRevivals \in Nat
          BY DEF Folding!FollowUpsAssumption
        <4>2. /\ owner' \in {"building", "live", "ending", "reviving", "ended", "closed", "dead"}
              /\ late' = late /\ entry' = entry
          BY <1>13 DEF Folding!Correct
        <4>3. late \in BOOLEAN /\ entry \in {late, FALSE}
          BY <1>0 DEF Folding!TypeOK
        <4>4. resumes' \in 0..MaxResumes /\ corrections' \in 0..MaxRevivals
          BY <1>0, <1>13, <4>1 DEF Folding!Correct, Folding!TypeOK
        <4> QED
          BY <4>2, <4>3, <4>4, Zenon
      <3>2. got' \in [Folding!Messages -> {"nothing", "raw", "both"}]
          BY <1>0, <1>13 DEF Folding!Correct, Folding!TypeOK
      <3>3. place' \in [Folding!Messages ->
                        {"nowhere", "parked", "fetching", "queued", "unread", "joined"}]
          BY <1>0, <1>13 DEF Folding!Correct, Folding!TypeOK
      <3>4. dispatched' \in [Folding!Messages -> 0..2]
          BY <1>0, <1>13 DEF Folding!Correct, Folding!TypeOK, Handled, AwaitsTwin
      <3>5. /\ readReplies' \subseteq steered'
            /\ steered' \cup read' \cup spun' \cup dropped' \cup overlooked'
                 \subseteq Folding!Messages
          BY <1>0, <1>13 DEF Folding!Correct, Folding!TypeOK, Handled
      <3>6. awaited' \subseteq Folding!Placed("queued")'
          BY <1>0, <1>13 DEF Folding!Correct, Folding!TypeOK, Handled
      <3> QED
        BY <3>1, <3>2, <3>3, <3>4, <3>5, <3>6 DEF Folding!TypeOK
    <2>2. ASSUME NEW n \in Folding!Messages PROVE Handled(n)'
      BY <1>0, <1>13 DEF Folding!Correct, Folding!TypeOK, Handled, AwaitsTwin
    <2> QED
      BY <2>1, <2>2 DEF FoldInv
  <1>14. CASE Folding!Revived
    <2>1. Folding!TypeOK'
      <3>1. /\ owner' \in {"building", "live", "ending", "reviving", "ended", "closed", "dead"}
            /\ late' \in BOOLEAN /\ entry' \in {late', FALSE}
            /\ resumes' \in 0..MaxResumes /\ corrections' \in 0..MaxRevivals
          BY <1>0, <1>14 DEF Folding!Revived, Folding!TypeOK, Folding!FollowUpsAssumption
      <3>2. got' \in [Folding!Messages -> {"nothing", "raw", "both"}]
          BY <1>0, <1>14 DEF Folding!Revived, Folding!TypeOK
      <3>3. place' \in [Folding!Messages ->
                        {"nowhere", "parked", "fetching", "queued", "unread", "joined"}]
          BY <1>0, <1>14 DEF Folding!Revived, Folding!TypeOK
      <3>4. dispatched' \in [Folding!Messages -> 0..2]
          BY <1>0, <1>14 DEF Folding!Revived, Folding!TypeOK, Handled, AwaitsTwin
      <3>5. /\ readReplies' \subseteq steered'
            /\ steered' \cup read' \cup spun' \cup dropped' \cup overlooked'
                 \subseteq Folding!Messages
          BY <1>0, <1>14 DEF Folding!Revived, Folding!TypeOK, Handled
      <3>6. awaited' \subseteq Folding!Placed("queued")'
          BY <1>0, <1>14 DEF Folding!Revived, Folding!TypeOK, Handled
      <3> QED
        BY <3>1, <3>2, <3>3, <3>4, <3>5, <3>6 DEF Folding!TypeOK
    <2>2. ASSUME NEW n \in Folding!Messages PROVE Handled(n)'
      BY <1>0, <1>14 DEF Folding!Revived, Folding!TypeOK, Handled, AwaitsTwin
    <2> QED
      BY <2>1, <2>2 DEF FoldInv
  <1>15. CASE Folding!RevivalFails
    <2>1. Folding!TypeOK'
      <3>1. /\ owner' \in {"building", "live", "ending", "reviving", "ended", "closed", "dead"}
            /\ late' \in BOOLEAN /\ entry' \in {late', FALSE}
            /\ resumes' \in 0..MaxResumes /\ corrections' \in 0..MaxRevivals
          BY <1>0, <1>15 DEF Folding!RevivalFails, Folding!TypeOK, Folding!FollowUpsAssumption
      <3>2. got' \in [Folding!Messages -> {"nothing", "raw", "both"}]
          BY <1>0, <1>15 DEF Folding!RevivalFails, Folding!TypeOK
      <3>3. place' \in [Folding!Messages ->
                        {"nowhere", "parked", "fetching", "queued", "unread", "joined"}]
          BY <1>0, <1>15 DEF Folding!RevivalFails, Folding!TypeOK
      <3>4. dispatched' \in [Folding!Messages -> 0..2]
          BY <1>0, <1>15 DEF Folding!RevivalFails, Folding!TypeOK, Handled, AwaitsTwin
      <3>5. /\ readReplies' \subseteq steered'
            /\ steered' \cup read' \cup spun' \cup dropped' \cup overlooked'
                 \subseteq Folding!Messages
          BY <1>0, <1>15 DEF Folding!RevivalFails, Folding!TypeOK, Handled
      <3>6. awaited' \subseteq Folding!Placed("queued")'
          BY <1>0, <1>15 DEF Folding!RevivalFails, Folding!TypeOK, Handled
      <3> QED
        BY <3>1, <3>2, <3>3, <3>4, <3>5, <3>6 DEF Folding!TypeOK
    <2>2. ASSUME NEW n \in Folding!Messages PROVE Handled(n)'
      BY <1>0, <1>15 DEF Folding!RevivalFails, Folding!TypeOK, Handled, AwaitsTwin
    <2> QED
      BY <2>1, <2>2 DEF FoldInv
  <1>16. CASE Folding!Expire
    <2>1. Folding!TypeOK'
      BY <1>0, <1>16 DEF Folding!Expire, Folding!TypeOK, Handled, AwaitsTwin,
         Folding!FollowUpsAssumption
    <2>2. ASSUME NEW n \in Folding!Messages PROVE Handled(n)'
      BY <1>0, <1>16 DEF Folding!Expire, Folding!TypeOK, Handled, AwaitsTwin
    <2> QED
      BY <2>1, <2>2 DEF FoldInv
  <1>17. CASE Folding!Resume
    <2>1. Folding!TypeOK'
      <3>1. /\ owner' \in {"building", "live", "ending", "reviving", "ended", "closed", "dead"}
            /\ late' \in BOOLEAN /\ entry' \in {late', FALSE}
            /\ resumes' \in 0..MaxResumes /\ corrections' \in 0..MaxRevivals
        <4>1. MaxResumes \in Nat /\ MaxRevivals \in Nat
          BY DEF Folding!FollowUpsAssumption
        <4>2. /\ owner' \in {"building", "live", "ending", "reviving", "ended", "closed", "dead"}
              /\ late' = late /\ entry' = entry
          BY <1>17 DEF Folding!Resume
        <4>3. late \in BOOLEAN /\ entry \in {late, FALSE}
          BY <1>0 DEF Folding!TypeOK
        <4>4. resumes' \in 0..MaxResumes /\ corrections' \in 0..MaxRevivals
          BY <1>0, <1>17, <4>1 DEF Folding!Resume, Folding!TypeOK
        <4> QED
          BY <4>2, <4>3, <4>4, Zenon
      <3>2. got' \in [Folding!Messages -> {"nothing", "raw", "both"}]
          BY <1>0, <1>17 DEF Folding!Resume, Folding!TypeOK
      <3>3. place' \in [Folding!Messages ->
                        {"nowhere", "parked", "fetching", "queued", "unread", "joined"}]
          BY <1>0, <1>17 DEF Folding!Resume, Folding!TypeOK
      <3>4. dispatched' \in [Folding!Messages -> 0..2]
          BY <1>0, <1>17 DEF Folding!Resume, Folding!TypeOK, Handled, AwaitsTwin
      <3>5. /\ readReplies' \subseteq steered'
            /\ steered' \cup read' \cup spun' \cup dropped' \cup overlooked'
                 \subseteq Folding!Messages
          BY <1>0, <1>17 DEF Folding!Resume, Folding!TypeOK, Handled
      <3>6. awaited' \subseteq Folding!Placed("queued")'
          BY <1>0, <1>17 DEF Folding!Resume, Folding!TypeOK, Handled
      <3> QED
        BY <3>1, <3>2, <3>3, <3>4, <3>5, <3>6 DEF Folding!TypeOK
    <2>2. ASSUME NEW n \in Folding!Messages PROVE Handled(n)'
      BY <1>0, <1>17 DEF Folding!Resume, Folding!TypeOK, Handled, AwaitsTwin
    <2> QED
      BY <2>1, <2>2 DEF FoldInv
  <1>18. CASE UNCHANGED Folding!vars
    BY <1>0, <1>18, ZenonT(40) DEF Folding!vars, Folding!TypeOK, FoldInv, Handled, AwaitsTwin
  <1> QED
    BY <1>1, <1>2, <1>3, <1>4, <1>5, <1>6, <1>7, <1>8, <1>9, <1>10, <1>11, <1>12, <1>13, <1>14,
       <1>15, <1>16, <1>17, <1>18 DEF Folding!Next, Folding!UnderWay

\* What the invariant says of the properties.
LEMMA FoldSafe == FoldInv => Folding!TypeOK /\ Folding!AnsweredOnce /\ Folding!NoTriggerLost
PROOF
  <1> SUFFICES ASSUME FoldInv
               PROVE  Folding!TypeOK /\ Folding!AnsweredOnce /\ Folding!NoTriggerLost
    OBVIOUS
  <1>1. \A m \in Folding!Messages :
            dispatched[m] \in 0..1 /\ (m \in read \ spun => dispatched[m] = 0)
    BY DEF FoldInv, Handled
  <1>2. Folding!NoTriggerLost
    BY DEF FoldInv, Handled, Folding!NoTriggerLost
  <1> QED
    BY <1>1, <1>2 DEF FoldInv, Folding!AnsweredOnce

THEOREM FoldedOnce == ASSUME Folding!FollowUpsAssumption
    PROVE Folding!Spec => [](Folding!TypeOK /\ Folding!AnsweredOnce /\ Folding!NoTriggerLost)
PROOF
  <1>1. Folding!Init => FoldInv
    BY FoldInit
  <1>2. FoldInv /\ [Folding!Next]_(Folding!vars) => FoldInv'
    BY FoldStep
  <1>3. FoldInv => Folding!TypeOK /\ Folding!AnsweredOnce /\ Folding!NoTriggerLost
    BY FoldSafe
  <1> QED
    BY <1>1, <1>2, <1>3, PTL DEF Folding!Spec

-----------------------------------------------------------------------------
(***************************************************************************)
(* SessionRunner.                                                          *)
(***************************************************************************)
\* What a transcript is made of: only calls and interjections have an effect of their own, and
\* only what the agent said is refused.
Turns == {e \in [kind : {"text", "noreply", "error", "calls", "aborted", "nudge", "note"},
                 ids : SUBSET (Sends \cup Notes), refused : BOOLEAN] :
             /\ e.ids # {} => e.kind \in {"calls", "note"}
             /\ e.refused => Runner!FromAssistant(e)}
NoteTurns == {e \in Turns : e.kind = "note"}

CallAt(s, k) == k \in 1..Len(s) /\ s[k].kind = "calls"
RefusedAt(s, k) == k \in 1..Len(s) /\ s[k].refused
\* Nothing was delivered after the k-th message.
Barren(s, k) == \A j \in (k + 1)..Len(s) : s[j].kind = "calls" => s[j].ids = {}

\* The transcript t has the calls of s where they were, and was refused nothing more.
Carries(s, t) ==
    /\ t \in Seq(Turns)
    /\ \A i \in 1..Len(s) : s[i].kind = "calls" => i \in 1..Len(t) /\ t[i] = s[i]
    /\ \A i \in 1..Len(t) : t[i].kind = "calls" \/ t[i].refused => i \in 1..Len(s) /\ t[i] = s[i]

\* A turn built by Entry has its fields.
LEMMA TurnIs ==
    ASSUME NEW kind \in {"text", "noreply", "error", "calls", "aborted", "nudge", "note"},
           NEW ids \in SUBSET (Sends \cup Notes), NEW refused \in BOOLEAN,
           ids # {} => kind \in {"calls", "note"}, refused => kind \notin {"nudge", "note"}
    PROVE  /\ Runner!Entry(kind, ids, refused) \in Turns
           /\ Runner!Entry(kind, ids, refused).kind = kind
           /\ Runner!Entry(kind, ids, refused).ids = ids
           /\ Runner!Entry(kind, ids, refused).refused = refused
  BY DEF Runner!Entry, Turns, Runner!FromAssistant

\* The effects of one kind in a transcript.
LEMMA IdsAre ==
    ASSUME NEW s \in Seq(Turns), NEW kind
    PROVE  \A x : x \in Runner!IdsOf(s, kind)
                    <=> \E i \in 1..Len(s) : s[i].kind = kind /\ x \in s[i].ids
  BY DEF Runner!IdsOf

LEMMA IdsConcat ==
    ASSUME NEW s \in Seq(Turns), NEW t \in Seq(Turns), NEW kind
    PROVE  Runner!IdsOf(s \o t, kind) = Runner!IdsOf(s, kind) \cup Runner!IdsOf(t, kind)
PROOF
  <1>0. s \o t \in Seq(Turns)
    OBVIOUS
  <1>1. PICK u \in Seq(Turns) : u = s \o t
    BY <1>0, Zenon
  <1>2. /\ Len(u) = Len(s) + Len(t)
        /\ \A i \in 1..Len(s) : u[i] = s[i]
        /\ \A i \in 1..Len(t) : u[Len(s) + i] = t[i]
        /\ \A i \in 1..Len(u) :
               i \notin 1..Len(s) => i - Len(s) \in 1..Len(t) /\ u[i] = t[i - Len(s)]
        /\ Len(s) \in Nat /\ Len(t) \in Nat
    BY <1>1
  <1>3. ASSUME NEW x PROVE x \in Runner!IdsOf(u, kind)
                             => x \in Runner!IdsOf(s, kind) \cup Runner!IdsOf(t, kind)
    <2> SUFFICES ASSUME x \in Runner!IdsOf(u, kind)
                 PROVE  x \in Runner!IdsOf(s, kind) \cup Runner!IdsOf(t, kind)
      OBVIOUS
    <2>1. PICK i \in 1..Len(u) : u[i].kind = kind /\ x \in u[i].ids
      BY IdsAre
    <2>2. CASE i \in 1..Len(s)
      BY <1>2, <2>1, <2>2, IdsAre
    <2>3. CASE i \notin 1..Len(s)
      BY <1>2, <2>1, <2>3, IdsAre, SMTT(30)
    <2> QED
      BY <2>2, <2>3
  <1>4. ASSUME NEW x PROVE x \in Runner!IdsOf(s, kind) => x \in Runner!IdsOf(u, kind)
    <2>1. ASSUME NEW i \in 1..Len(s), s[i].kind = kind, x \in s[i].ids
          PROVE  i \in 1..Len(u) /\ u[i].kind = kind /\ x \in u[i].ids
      BY <1>2, <2>1
    <2> QED
      BY <2>1, IdsAre
  <1>5. ASSUME NEW x PROVE x \in Runner!IdsOf(t, kind) => x \in Runner!IdsOf(u, kind)
    <2>1. ASSUME NEW i \in 1..Len(t), t[i].kind = kind, x \in t[i].ids
          PROVE  Len(s) + i \in 1..Len(u) /\ u[Len(s) + i].kind = kind /\ x \in u[Len(s) + i].ids
      BY <1>2, <2>1
    <2> QED
      BY <2>1, IdsAre
  <1> QED
    BY <1>1, <1>3, <1>4, <1>5

LEMMA IdsAppend ==
    ASSUME NEW s \in Seq(Turns), NEW e \in Turns, NEW kind
    PROVE  /\ e.kind = kind => Runner!IdsOf(Append(s, e), kind) = Runner!IdsOf(s, kind) \cup e.ids
           /\ e.kind # kind => Runner!IdsOf(Append(s, e), kind) = Runner!IdsOf(s, kind)
PROOF
  <1>0. <<e>> \in Seq(Turns)
    OBVIOUS
  <1>1. PICK u \in Seq(Turns) : u = <<e>>
    BY <1>0, Zenon
  <1>2. Len(u) = 1 /\ u[1] = e /\ Append(s, e) = s \o u
    BY <1>1
  <1>3. \A x : x \in Runner!IdsOf(u, kind) <=> e.kind = kind /\ x \in e.ids
    BY IdsAre, <1>2
  <1>4. Runner!IdsOf(Append(s, e), kind) = Runner!IdsOf(s, kind) \cup Runner!IdsOf(u, kind)
    BY <1>2, IdsConcat
  <1>5. e.kind = kind => Runner!IdsOf(u, kind) = e.ids
    BY <1>3
  <1>6. e.kind # kind => Runner!IdsOf(u, kind) = {}
    BY <1>3
  <1> QED
    BY <1>4, <1>5, <1>6

\* What a transcript that carries another keeps of it.
LEMMA CarriedOn ==
    ASSUME NEW s \in Seq(Turns), NEW t, Carries(s, t)
    PROVE  /\ Runner!IdsOf(t, "calls") = Runner!IdsOf(s, "calls")
           /\ \A k \in Nat : CallAt(s, k) => CallAt(t, k)
           /\ \A k \in Nat : Barren(s, k) => Barren(t, k)
           /\ \A k \in Nat : RefusedAt(t, k) => RefusedAt(s, k)
PROOF
  <1>1. \A x : x \in Runner!IdsOf(t, "calls") <=> x \in Runner!IdsOf(s, "calls")
    BY IdsAre DEF Carries
  <1>2. \A k \in Nat : CallAt(s, k) => CallAt(t, k)
    BY DEF Carries, CallAt
  <1>3. \A k \in Nat : Barren(s, k) => Barren(t, k)
    BY DEF Carries, Barren
  <1>4. \A k \in Nat : RefusedAt(t, k) => RefusedAt(s, k)
    BY DEF Carries, RefusedAt
  <1> QED
    BY <1>1, <1>2, <1>3, <1>4

\* To carry another transcript is reflexive ...
LEMMA CarriesItself == ASSUME NEW s \in Seq(Turns) PROVE Carries(s, s)
  BY DEF Carries

\* ... and transitive.
LEMMA CarriesOver ==
    ASSUME NEW s \in Seq(Turns), NEW t, NEW u, Carries(s, t), Carries(t, u) PROVE Carries(s, u)
  BY DEF Carries

\* Interjections are read ...
LEMMA CarriesNotes ==
    ASSUME NEW s \in Seq(Turns), NEW q \in Seq(NoteTurns)
    PROVE  Carries(s, s \o q) /\ q \in Seq(Turns) /\ Runner!IdsOf(q, "calls") = {}
PROOF
  <1>1. \A i \in 1..Len(q) : q[i] \in Turns /\ q[i].kind = "note" /\ ~q[i].refused
    BY DEF NoteTurns, Turns, Runner!FromAssistant
  <1>2. q \in Seq(Turns)
    BY DEF NoteTurns
  <1>3. /\ s \o q \in Seq(Turns) /\ Len(s \o q) = Len(s) + Len(q)
        /\ \A i \in 1..Len(s) : (s \o q)[i] = s[i]
        /\ \A i \in 1..(Len(s) + Len(q)) :
               i \notin 1..Len(s) => i - Len(s) \in 1..Len(q) /\ (s \o q)[i] = q[i - Len(s)]
        /\ Len(s) \in Nat /\ Len(q) \in Nat
    BY <1>2
  <1>4. \A x : x \notin Runner!IdsOf(q, "calls")
    BY <1>1, <1>2, IdsAre
  <1> QED
    BY <1>1, <1>2, <1>3, <1>4 DEF Carries

\* ... the agent says something without effect ...
LEMMA CarriesPlain ==
    ASSUME NEW s \in Seq(Turns), NEW e \in Turns, e.kind # "calls", ~e.refused
    PROVE  Carries(s, Append(s, e))
PROOF
  <1>1. /\ Append(s, e) \in Seq(Turns) /\ Len(Append(s, e)) = Len(s) + 1
        /\ \A i \in 1..Len(s) : Append(s, e)[i] = s[i]
        /\ Append(s, e)[Len(s) + 1] = e /\ Len(s) \in Nat
    OBVIOUS
  <1> QED
    BY <1>1 DEF Carries

\* ... or an aborted message is dropped.
LEMMA CarriesFront ==
    ASSUME NEW s \in Seq(Turns), s # <<>>, s[Len(s)].kind = "aborted"
    PROVE  /\ Carries(s, SubSeq(s, 1, Len(s) - 1))
           /\ Runner!IdsOf(SubSeq(s, 1, Len(s) - 1), "note") = Runner!IdsOf(s, "note")
PROOF
  <1> DEFINE t == SubSeq(s, 1, Len(s) - 1)
  <1>1. /\ Len(s) \in Nat \ {0} /\ t \in Seq(Turns) /\ Len(t) = Len(s) - 1
        /\ \A i \in 1..Len(t) : t[i] = s[i]
    <2>1. PICK n \in Nat \ {0} : n = Len(s)
      OBVIOUS
    <2>2. \A i \in 1..(n - 1) : s[i] \in Turns
      BY <2>1
    <2>3. /\ SubSeq(s, 1, n - 1) \in Seq(Turns)
          /\ Len(SubSeq(s, 1, n - 1)) = (IF 1 <= n - 1 THEN (n - 1) - 1 + 1 ELSE 0)
          /\ \A i \in 1..((n - 1) - 1 + 1) : SubSeq(s, 1, n - 1)[i] = s[1 + i - 1]
      BY <2>2, SubSeqProperties
    <2> QED
      BY <2>1, <2>3
  <1> HIDE DEF t
  <1>2. Carries(s, t)
    BY <1>1 DEF Carries
  <1>3. \A x : x \in Runner!IdsOf(t, "note") <=> x \in Runner!IdsOf(s, "note")
    BY <1>1, IdsAre
  <1> QED
    BY <1>2, <1>3 DEF t

-----------------------------------------------------------------------------
\* A set of numbers has a least one.
LEMMA LeastNumber ==
    ASSUME NEW S \in SUBSET Nat, S # {}
    PROVE  \E x \in S : \A y \in S : x <= y
PROOF
  <1>1. PICK x \in S : \A y \in S : ~(<<y, x>> \in OpToRel(<, Nat))
    BY NatLessThanWellFounded, WFMin, Zenon
  <1>2. \A y \in S : ~(y < x)
    BY <1>1 DEF OpToRel
  <1> QED
    BY <1>2

\* A bounded one has a greatest, which is what Max picks.
LEMMA GreatestIs ==
    ASSUME NEW n \in Nat, NEW S \in SUBSET (0..n), S # {}
    PROVE  Runner!Max(S) \in S /\ \A x \in S : x <= Runner!Max(S)
PROOF
  <1> DEFINE B == {k \in Nat : \A x \in S : x <= k}
  <1>1. PICK b \in B : \A k \in B : b <= k
    <2>1. n \in B
      OBVIOUS
    <2> HIDE DEF B
    <2>2. B \in SUBSET Nat
      BY DEF B
    <2> QED
      BY <2>1, <2>2, LeastNumber
  <1>2. b \in S
    <2> SUFFICES ASSUME b \notin S PROVE FALSE
      OBVIOUS
    <2>1. b \in Nat /\ \A x \in S : x <= b /\ x # b /\ x \in Nat
      BY <1>1
    <2>2. b # 0 /\ \A x \in S : x <= b - 1
      <3>1. PICK x \in S : TRUE
        OBVIOUS
      <3>2. b # 0
        BY <2>1, <3>1
      <3>3. ASSUME NEW y \in S PROVE y <= b - 1
        BY <2>1, <3>3
      <3> QED
        BY <3>2, <3>3
    <2>3. b - 1 \in B
      BY <2>1, <2>2
    <2> QED
      BY <1>1, <2>1, <2>3
  <1>3. \A y \in S : b >= y
    BY <1>1
  <1>4. Runner!Max(S) \in S /\ \A y \in S : Runner!Max(S) >= y
    BY <1>2, <1>3, Zenon DEF Runner!Max
  <1> QED
    BY <1>4

\* NotesOf is computed as its definition says.
LEMMA NotesComputed ==
    ASSUME NEW s \in Seq(Turns)
    PROVE  \E f : /\ f = [i \in 0..Len(s) |-> IF i = 0 THEN <<>>
                            ELSE IF s[i].kind = "note" THEN Append(f[i - 1], s[i]) ELSE f[i - 1]]
                  /\ Runner!NotesOf(s) = f[Len(s)]
PROOF
  <1> DEFINE Upto(n, f) == f = [i \in 0..n |-> IF i = 0 THEN <<>>
                            ELSE IF s[i].kind = "note" THEN Append(f[i - 1], s[i]) ELSE f[i - 1]]
             Missing == {n \in Nat : ~ \E f : Upto(n, f)}
  <1>1. Missing = {}
    <2> SUFFICES ASSUME Missing # {} PROVE FALSE
      OBVIOUS
    <2>0. Missing \in SUBSET Nat
      OBVIOUS
    <2>1. PICK n \in Missing : \A m \in Missing : n <= m
      <3> HIDE DEF Missing
      <3> QED
        BY <2>0, LeastNumber
    <2>2. CASE n = 0
      <3>1. Upto(0, [i \in 0..0 |-> <<>>])
        OBVIOUS
      <3> QED
        BY <2>2, <3>1
    <2>3. CASE n # 0
      <3>1. n - 1 \in Nat /\ n - 1 \notin Missing
        <4> HIDE DEF Missing
        <4>1. n \in Nat
          BY <2>0
        <4> QED
          BY <2>1, <2>3, <4>1
      <3>2. PICK f : Upto(n - 1, f)
        BY <3>1
      <3> DEFINE g == [i \in 0..n |-> IF i < n THEN f[i] ELSE
                          IF s[n].kind = "note" THEN Append(f[n - 1], s[n]) ELSE f[n - 1]]
      <3>3. \A i \in 0..(n - 1) : g[i] = f[i]
        BY <3>1
      <3>4. \A i \in 0..(n - 1) : f[i] = IF i = 0 THEN <<>>
                            ELSE IF s[i].kind = "note" THEN Append(f[i - 1], s[i]) ELSE f[i - 1]
        BY <3>2
      <3>5. \A i \in 0..n : g[i] = IF i = 0 THEN <<>>
                            ELSE IF s[i].kind = "note" THEN Append(g[i - 1], s[i]) ELSE g[i - 1]
        <4> TAKE i \in 0..n
        <4>1. CASE i < n
          <5>1. i \in 0..(n - 1) /\ (i # 0 => i - 1 \in 0..(n - 1))
            BY <3>1, <4>1
          <5> HIDE DEF g
          <5> QED
            BY <3>3, <3>4, <5>1
        <4>2. CASE i = n
          <5>1. g[n] = IF s[n].kind = "note" THEN Append(f[n - 1], s[n]) ELSE f[n - 1]
            BY <2>3
          <5>2. g[n - 1] = f[n - 1]
            BY <3>1, <3>3
          <5> HIDE DEF g
          <5> QED
            BY <2>3, <4>2, <5>1, <5>2
        <4> QED
          BY <4>1, <4>2
      <3>6. g = [i \in 0..n |-> g[i]]
        OBVIOUS
      <3> HIDE DEF g
      <3>7. Upto(n, g)
        BY <3>5, <3>6
      <3> QED
        BY <3>7
    <2> QED
      BY <2>2, <2>3
  <1>2. PICK f0 : Upto(Len(s), f0)
    <2>1. Len(s) \in Nat /\ Len(s) \notin Missing
      BY <1>1
    <2> QED
      BY <2>1
  <1> DEFINE f == CHOOSE f : Upto(Len(s), f)
  <1>3. Upto(Len(s), f)
    BY <1>2, Zenon
  <1>4. Runner!NotesOf(s) = f[Len(s)]
    BY Zenon DEF Runner!NotesOf
  <1> HIDE DEF f
  <1> QED
    BY <1>3, <1>4

\* It has the interjections of the transcript, and nothing else.
LEMMA NotesAre ==
    ASSUME NEW s \in Seq(Turns)
    PROVE  /\ Runner!NotesOf(s) \in Seq(NoteTurns)
           /\ Runner!IdsOf(Runner!NotesOf(s), "note") = Runner!IdsOf(s, "note")
PROOF
  <1>1. PICK f : /\ f = [i \in 0..Len(s) |-> IF i = 0 THEN <<>>
                            ELSE IF s[i].kind = "note" THEN Append(f[i - 1], s[i]) ELSE f[i - 1]]
                 /\ Runner!NotesOf(s) = f[Len(s)]
    BY NotesComputed
  <1> DEFINE Has(i) == /\ f[i] \in Seq(NoteTurns)
                       /\ \A x : x \in Runner!IdsOf(f[i], "note")
                                   <=> \E j \in 1..i : s[j].kind = "note" /\ x \in s[j].ids
             Wrong == {i \in 0..Len(s) : ~Has(i)}
  <1>2. Wrong = {}
    <2> SUFFICES ASSUME Wrong # {} PROVE FALSE
      OBVIOUS
    <2>0. Wrong \in SUBSET Nat /\ Wrong \subseteq 0..Len(s)
      OBVIOUS
    <2>1. PICK n \in Wrong : \A m \in Wrong : n <= m
      <3> HIDE DEF Wrong
      <3> QED
        BY <2>0, LeastNumber
    <2>2. CASE n = 0
      <3>1. f[0] = <<>>
        <4>1. 0 \in 0..Len(s)
          OBVIOUS
        <4> QED
          BY <1>1, <4>1
      <3>2. <<>> \in Seq(Turns) /\ <<>> \in Seq(NoteTurns) /\ Len(<<>>) = 0
        OBVIOUS
      <3>3. \A x : x \notin Runner!IdsOf(<<>>, "note")
        BY <3>2 DEF Runner!IdsOf
      <3>4. Has(0)
        BY <3>1, <3>2, <3>3
      <3> QED
        BY <2>1, <2>2, <3>4
    <2>3. CASE n # 0
      <3>1. n \in 1..Len(s) /\ n - 1 \in 0..Len(s) /\ Has(n - 1)
        <4> HIDE DEF Has
        <4>1. n \in 1..Len(s) /\ n - 1 \in 0..Len(s)
          BY <2>0, <2>3
        <4>2. n - 1 \notin Wrong
          <5> HIDE DEF Wrong
          <5> QED
            BY <2>1, <4>1
        <4> QED
          BY <4>1, <4>2
      <3>2. s[n] \in Turns
        BY <3>1
      <3>3. PICK q \in Seq(NoteTurns) : q = f[n - 1]
        BY <3>1, Zenon
      <3>4. q \in Seq(Turns)
        BY CarriesNotes
      <3>5. \A j \in 1..n : j \in 1..(n - 1) \/ j = n
        BY <3>1
      <3>6. CASE s[n].kind = "note"
        <4>1. f[n] = Append(q, s[n])
          <5>1. n \in 0..Len(s) /\ n # 0
            BY <3>1
          <5>2. f[n] = Append(f[n - 1], s[n])
            BY <1>1, <3>6, <5>1
          <5> QED
            BY <3>3, <5>2, Zenon
        <4>2. Append(q, s[n]) \in Seq(NoteTurns)
          BY <3>2, <3>6 DEF NoteTurns
        <4>3. Runner!IdsOf(Append(q, s[n]), "note") = Runner!IdsOf(q, "note") \cup s[n].ids
          BY <3>2, <3>4, <3>6, IdsAppend
        <4>4. \A x : x \in Runner!IdsOf(f[n], "note")
                   <=> \E j \in 1..n : s[j].kind = "note" /\ x \in s[j].ids
          BY <3>1, <3>3, <3>5, <3>6, <4>1, <4>3
        <4> QED
          BY <2>1, <4>1, <4>2, <4>4
      <3>7. CASE s[n].kind # "note"
        <4>1. f[n] = f[n - 1]
          <5>1. n \in 0..Len(s) /\ n # 0
            BY <3>1
          <5> QED
            BY <1>1, <3>7, <5>1
        <4>2. \A x : x \in Runner!IdsOf(f[n], "note")
                   <=> \E j \in 1..n : s[j].kind = "note" /\ x \in s[j].ids
          BY <3>1, <3>5, <3>7, <4>1
        <4> QED
          BY <2>1, <3>1, <4>1, <4>2
      <3> QED
        BY <3>6, <3>7
    <2> QED
      BY <2>2, <2>3
  <1>3. Has(Len(s))
    <2>1. Len(s) \in 0..Len(s)
      OBVIOUS
    <2> QED
      BY <1>2, <2>1
  <1>4. \A x : x \in Runner!IdsOf(s, "note")
          <=> \E j \in 1..Len(s) : s[j].kind = "note" /\ x \in s[j].ids
    BY IdsAre
  <1> QED
    BY <1>1, <1>3, <1>4

-----------------------------------------------------------------------------
\* The last of the positions in a set of them, or 0.
LEMMA LastIsGreatest ==
    ASSUME NEW s \in Seq(Turns), NEW S \in SUBSET (1..Len(s))
    PROVE  /\ Runner!Max({0} \cup S) \in {0} \cup S
           /\ \A i \in S : i <= Runner!Max({0} \cup S)
PROOF
  <1>1. PICK n \in Nat : n = Len(s)
    OBVIOUS
  <1>2. {0} \cup S \in SUBSET (0..n) /\ {0} \cup S # {}
    BY <1>1
  <1> QED
    BY <1>2, GreatestIs

\* The last message of the agent.
LEMMA LastAssistantIs ==
    ASSUME msgs \in Seq(Turns)
    PROVE  /\ Runner!LastAssistant \in 0..Len(msgs)
           /\ Runner!LastAssistant # 0 => Runner!FromAssistant(msgs[Runner!LastAssistant])
           /\ \A i \in 1..Len(msgs) : Runner!FromAssistant(msgs[i]) => i <= Runner!LastAssistant
PROOF
  <1> DEFINE S == {i \in DOMAIN msgs : Runner!FromAssistant(msgs[i])}
  <1>1. S \in SUBSET (1..Len(msgs)) /\ Len(msgs) \in Nat
    OBVIOUS
  <1>2. Runner!LastAssistant = Runner!Max({0} \cup S)
    BY Zenon DEF Runner!LastAssistant, Runner!LastOf
  <1> HIDE DEF S
  <1>3. /\ Runner!LastAssistant \in {0} \cup S
        /\ \A i \in S : i <= Runner!LastAssistant
    BY <1>1, <1>2, LastIsGreatest
  <1> QED
    BY <1>1, <1>3 DEF S

\* Marking a message changes nothing else of it.
LEMMA Judging ==
    ASSUME NEW e \in Turns, Runner!FromAssistant(e), NEW b \in BOOLEAN,
           NEW d, d = [e EXCEPT !.refused = b]
    PROVE  d \in Turns /\ d.kind = e.kind /\ d.ids = e.ids /\ d.refused = b
PROOF
  <1>1. e \in [kind : {"text", "noreply", "error", "calls", "aborted", "nudge", "note"},
               ids : SUBSET (Sends \cup Notes), refused : BOOLEAN]
    BY DEF Turns
  <1>2. d.kind = e.kind /\ d.ids = e.ids /\ d.refused = b
    BY <1>1
  <1>3. d \in [kind : {"text", "noreply", "error", "calls", "aborted", "nudge", "note"},
               ids : SUBSET (Sends \cup Notes), refused : BOOLEAN]
    BY <1>1
  <1> QED
    BY <1>2, <1>3 DEF Turns, Runner!FromAssistant

\* A message of the agent is marked as refused: it had no effect.
LEMMA Marked ==
    ASSUME msgs \in Seq(Turns), ~Runner!LastIs({"calls"}),
           NEW t, t = [msgs EXCEPT ![Runner!LastAssistant].refused = TRUE]
    PROVE  /\ t \in Seq(Turns)
           /\ Runner!IdsOf(t, "calls") = Runner!IdsOf(msgs, "calls")
           /\ Runner!IdsOf(t, "note") = Runner!IdsOf(msgs, "note")
           /\ \A i \in Nat : RefusedAt(t, i) => RefusedAt(msgs, i) \/ Barren(t, i - 1)
PROOF
  <1> DEFINE k == Runner!LastAssistant
  <1>1. /\ k \in 0..Len(msgs) /\ Len(msgs) \in Nat
        /\ k # 0 => Runner!FromAssistant(msgs[k]) /\ msgs[k].kind # "calls"
        /\ \A i \in 1..Len(msgs) : Runner!FromAssistant(msgs[i]) => i <= k
    BY LastAssistantIs DEF Runner!LastIs
  <1> HIDE DEF k
  <1>2. \A i \in 1..Len(msgs) : msgs[i] \in Turns
    OBVIOUS
  <1>3. /\ t \in Seq(Turns) /\ Len(t) = Len(msgs)
        /\ \A i \in 1..Len(msgs) : /\ t[i].kind = msgs[i].kind /\ t[i].ids = msgs[i].ids
                                   /\ i # k => t[i] = msgs[i]
    <2>1. CASE k = 0
      <3>1. t = msgs
        <4>1. DOMAIN msgs = 1..Len(msgs) /\ 0 \notin 1..Len(msgs)
          BY <1>1
        <4>2. t = [i \in DOMAIN msgs |->
                     IF i = k THEN [msgs[k] EXCEPT !.refused = TRUE] ELSE msgs[i]]
          BY Zenon DEF k
        <4>3. t = [i \in DOMAIN msgs |-> msgs[i]]
          BY <2>1, <4>1, <4>2
        <4> QED
          BY <4>3
      <3> QED
        BY <3>1
    <2>2. CASE k # 0
      <3>1. PICK d : d = [msgs[k] EXCEPT !.refused = TRUE]
        OBVIOUS
      <3>2. k \in 1..Len(msgs) /\ msgs[k] \in Turns /\ Runner!FromAssistant(msgs[k])
        BY <1>1, <1>2, <2>2
      <3>3. d \in Turns /\ d.kind = msgs[k].kind /\ d.ids = msgs[k].ids
        <4>1. PICK e \in Turns : e = msgs[k]
          BY <3>2
        <4>2. Runner!FromAssistant(e) /\ d = [e EXCEPT !.refused = TRUE]
          BY <3>1, <3>2, <4>1
        <4>3. d \in Turns /\ d.kind = e.kind /\ d.ids = e.ids
          BY <4>2, Judging, Zenon
        <4> QED
          BY <4>1, <4>3, Zenon
      <3>4. t = [msgs EXCEPT ![k] = d]
        BY <3>1, Zenon DEF k
      <3> QED
        <4>1. /\ t \in Seq(Turns) /\ Len(t) = Len(msgs)
              /\ \A j \in 1..Len(msgs) : t[j] = IF j = k THEN d ELSE msgs[j]
          <5>1. d \in Turns /\ k \in 1..Len(msgs)
            BY <3>2, <3>3
          <5> QED
            <6>1. PICK n \in 1..Len(msgs) : n = k
              BY <5>1
            <6>2. PICK c \in Turns : c = d
              BY <5>1
            <6>3. /\ [msgs EXCEPT ![n] = c] \in Seq(Turns)
                  /\ Len([msgs EXCEPT ![n] = c]) = Len(msgs)
                  /\ \A j \in 1..Len(msgs) :
                         [msgs EXCEPT ![n] = c][j] = IF j = n THEN c ELSE msgs[j]
              BY ExceptSeq
            <6> QED
              BY <3>4, <6>1, <6>2, <6>3
        <4> QED
          BY <3>3, <4>1
    <2> QED
      BY <2>1, <2>2
  <1>5. t \in Seq(Turns)
    BY <1>3
  <1>6. ASSUME NEW kind PROVE Runner!IdsOf(t, kind) = Runner!IdsOf(msgs, kind)
    <2>0. PICK u \in Seq(Turns) : u = t
      BY <1>5
    <2>1. \A x : x \in Runner!IdsOf(u, kind)
            <=> \E i \in 1..Len(u) : u[i].kind = kind /\ x \in u[i].ids
      BY IdsAre
    <2>2. \A x : x \in Runner!IdsOf(msgs, kind)
                   <=> \E i \in 1..Len(msgs) : msgs[i].kind = kind /\ x \in msgs[i].ids
      BY IdsAre
    <2>3. \A x : x \in Runner!IdsOf(u, kind) <=> x \in Runner!IdsOf(msgs, kind)
      <3>1. /\ Len(u) = Len(msgs)
            /\ \A i \in 1..Len(msgs) : u[i].kind = msgs[i].kind /\ u[i].ids = msgs[i].ids
        BY <1>3, <2>0
      <3> QED
        BY <2>1, <2>2, <3>1
    <2> QED
      BY <2>0, <2>3
  <1>7. ASSUME NEW i \in Nat, RefusedAt(t, i) PROVE RefusedAt(msgs, i) \/ Barren(t, i - 1)
    <2>1. CASE i # k
      BY <1>3, <1>7, <2>1 DEF RefusedAt
    <2>2. CASE i = k
      <3>1. \A j \in i..Len(t) : t[j].kind # "calls"
        BY <1>1, <1>3, <1>7, <2>2 DEF RefusedAt, Runner!FromAssistant
      <3> QED
        BY <3>1, <2>2 DEF Barren
    <2> QED
      BY <2>1, <2>2
  <1> QED
    BY <1>5, <1>6, <1>7

-----------------------------------------------------------------------------
\* A prefix of a transcript.
LEMMA Prefix ==
    ASSUME NEW s \in Seq(Turns), NEW n \in 0..Len(s)
    PROVE  /\ SubSeq(s, 1, n) \in Seq(Turns) /\ Len(SubSeq(s, 1, n)) = n
           /\ \A i \in 1..n : SubSeq(s, 1, n)[i] = s[i]
PROOF
  <1>1. \A i \in 1..n : s[i] \in Turns
    OBVIOUS
  <1>2. n \in Int /\ 1 \in Int
    OBVIOUS
  <1>3. /\ SubSeq(s, 1, n) \in Seq(Turns)
        /\ Len(SubSeq(s, 1, n)) = (IF 1 <= n THEN n - 1 + 1 ELSE 0)
        /\ \A i \in 1..(n - 1 + 1) : SubSeq(s, 1, n)[i] = s[1 + i - 1]
    BY <1>1, <1>2, SubSeqProperties
  <1> QED
    BY <1>3

\* ... and the rest of it.
LEMMA Suffix ==
    ASSUME NEW s \in Seq(Turns), NEW n \in 0..Len(s)
    PROVE  /\ SubSeq(s, n + 1, Len(s)) \in Seq(Turns)
           /\ Len(SubSeq(s, n + 1, Len(s))) = Len(s) - n
           /\ \A i \in 1..(Len(s) - n) : SubSeq(s, n + 1, Len(s))[i] = s[n + i]
PROOF
  <1>0. PICK l \in Nat : l = Len(s)
    OBVIOUS
  <1>1. \A i \in (n + 1)..l : s[i] \in Turns
    BY <1>0
  <1>2. n + 1 \in Int /\ l \in Int
    BY <1>0
  <1>3. /\ SubSeq(s, n + 1, l) \in Seq(Turns)
        /\ Len(SubSeq(s, n + 1, l)) = (IF n + 1 <= l THEN l - (n + 1) + 1 ELSE 0)
        /\ \A i \in 1..(l - (n + 1) + 1) : SubSeq(s, n + 1, l)[i] = s[n + 1 + i - 1]
    BY <1>1, <1>2, SubSeqProperties
  <1> QED
    BY <1>0, <1>3

\* A transcript in two parts; the first may have been judged otherwise.
Parts(s, t, r) ==
    /\ Len(s) = Len(t) + Len(r)
    /\ \A i \in 1..Len(t) : t[i].kind = s[i].kind /\ t[i].ids = s[i].ids
    /\ \A i \in 1..Len(r) : r[i] = s[Len(t) + i]

\* The effects of the whole are those of its parts.
LEMMA IdsSplit ==
    ASSUME NEW s \in Seq(Turns), NEW t \in Seq(Turns), NEW r \in Seq(Turns), NEW kind,
           Parts(s, t, r)
    PROVE  Runner!IdsOf(s, kind) = Runner!IdsOf(t, kind) \cup Runner!IdsOf(r, kind)
PROOF
  <1> DEFINE Has(a, i, x) == a[i].kind = kind /\ x \in a[i].ids
  <1>0. \A x : /\ x \in Runner!IdsOf(s, kind) <=> \E i \in 1..Len(s) : Has(s, i, x)
               /\ x \in Runner!IdsOf(t, kind) <=> \E i \in 1..Len(t) : Has(t, i, x)
               /\ x \in Runner!IdsOf(r, kind) <=> \E i \in 1..Len(r) : Has(r, i, x)
    BY IdsAre
  <1>1. ASSUME NEW x, NEW i \in 1..Len(s), Has(s, i, x)
        PROVE  (\E k \in 1..Len(t) : Has(t, k, x)) \/ (\E k \in 1..Len(r) : Has(r, k, x))
    <2>1. CASE i \in 1..Len(t)
      BY <1>1, <2>1 DEF Parts
    <2>2. CASE i \notin 1..Len(t)
      <3> DEFINE k == i - Len(t)
      <3>0. /\ Len(s) \in Nat /\ Len(t) \in Nat /\ Len(r) \in Nat
            /\ Len(s) = Len(t) + Len(r) /\ \A n \in 1..Len(r) : r[n] = s[Len(t) + n]
        BY DEF Parts
      <3>1. k \in 1..Len(r) /\ Len(t) + k = i
        BY <2>2, <3>0
      <3>2. r[k] = s[i]
        BY <3>0, <3>1
      <3> QED
        BY <1>1, <3>1, <3>2
    <2> QED
      BY <2>1, <2>2
  <1>2. ASSUME NEW x, NEW i \in 1..Len(t), Has(t, i, x) PROVE \E k \in 1..Len(s) : Has(s, k, x)
    <2>1. i \in 1..Len(s)
      BY DEF Parts
    <2> QED
      BY <1>2, <2>1 DEF Parts
  <1>3. ASSUME NEW x, NEW i \in 1..Len(r), Has(r, i, x) PROVE \E k \in 1..Len(s) : Has(s, k, x)
    <2>1. Len(t) + i \in 1..Len(s) /\ r[i] = s[Len(t) + i]
      BY DEF Parts
    <2> QED
      BY <1>3, <2>1
  <1> HIDE DEF Has
  <1>4. \A x : x \in Runner!IdsOf(s, kind)
                 <=> x \in Runner!IdsOf(t, kind) \/ x \in Runner!IdsOf(r, kind)
    BY <1>0, <1>1, <1>2, <1>3, Zenon
  <1> QED
    BY <1>4

\* What a fork keeps: all up to the last delivery before the refused message, or up to that
\* message, which is then refused no more.
LEMMA ForkKeepsIs ==
    ASSUME NEW s \in Seq(Turns), NEW g \in 0..Len(s), g # 0 => s[g].kind = "calls",
           NEW t, t = Runner!ForkKeeps(s, g)
    PROVE  /\ t \in Seq(Turns) /\ Len(t) <= Len(s)
           /\ \A i \in 1..Len(t) : t[i].kind = s[i].kind /\ t[i].ids = s[i].ids
           /\ \A i \in 1..Len(t) : t[i].refused =>
                  /\ s[i].refused
                  /\ IF g = 0 THEN ~Barren(s, i - 1) ELSE i < g
           /\ (g # 0 => Barren(s, g)) => Barren(s, Len(t))
PROOF
  <1>0. Len(s) \in Nat
    OBVIOUS
  <1>1. PICK n \in 0..Len(s) : n = IF g = 0 THEN Len(s) ELSE g - 1
    BY <1>0
  <1>2. PICK before : before = SubSeq(s, 1, n)
    OBVIOUS
  <1>3. /\ before \in Seq(Turns) /\ Len(before) = n
        /\ \A i \in 1..n : before[i] = s[i]
    BY <1>2, Prefix
  <1>4. CASE g # 0 /\ s[g].ids # {}
    <2>1. PICK e \in Turns : e = s[g]
      BY <1>4
    <2>2. PICK d : d = [e EXCEPT !.refused = FALSE]
      OBVIOUS
    <2>3. d \in Turns /\ d.kind = e.kind /\ d.ids = e.ids /\ d.refused = FALSE
      <3>1. Runner!FromAssistant(e)
        BY <1>4, <2>1 DEF Runner!FromAssistant
      <3> QED
        BY <2>2, <3>1, Judging, Zenon
    <2>4. t = Append(before, d)
      BY <1>1, <1>2, <1>4, <2>1, <2>2, Zenon DEF Runner!ForkKeeps
    <2>5. /\ t \in Seq(Turns) /\ Len(t) = g /\ n = g - 1 /\ t[g] = d
          /\ \A i \in 1..(g - 1) : t[i] = s[i]
      BY <1>1, <1>3, <1>4, <2>3, <2>4
    <2>6. \A i \in 1..g : i \in 1..(g - 1) \/ i = g
      OBVIOUS
    <2> QED
      BY <1>4, <2>1, <2>3, <2>5, <2>6
  <1>5. CASE ~(g # 0 /\ s[g].ids # {})
    <2> DEFINE S == {i \in DOMAIN before : before[i].kind = "calls" /\ before[i].ids # {}}
               L == Runner!Max({0} \cup S)
    <2>1. L \in {0} \cup S /\ \A i \in S : i <= L
      <3>1. S \in SUBSET (1..Len(before))
        BY <1>3
      <3> HIDE DEF S
      <3> QED
        BY <1>3, <3>1, LastIsGreatest
    <2>2. t = SubSeq(s, 1, L)
      BY <1>1, <1>2, <1>5, Zenon DEF Runner!ForkKeeps, Runner!LastOf
    <2>3. /\ L \in 0..n
          /\ L # 0 => s[L].kind = "calls" /\ s[L].ids # {}
          /\ \A i \in 1..n : s[i].kind = "calls" /\ s[i].ids # {} => i <= L
      <3> HIDE DEF L
      <3> QED
        BY <1>3, <2>1
    <2> HIDE DEF L
    <2>4. /\ L \in 0..Len(s) /\ t \in Seq(Turns) /\ Len(t) = L
          /\ \A i \in 1..L : t[i] = s[i]
      <3>1. L \in 0..Len(s)
        BY <2>3
      <3> QED
        BY <2>2, <3>1, Prefix
    <2>5. (g # 0 => Barren(s, g)) => Barren(s, Len(t))
      BY <1>0, <1>1, <1>5, <2>3, <2>4 DEF Barren
    <2>6. ASSUME NEW i \in 1..L PROVE IF g = 0 THEN ~Barren(s, i - 1) ELSE i < g
      BY <1>0, <1>1, <2>3, <2>6 DEF Barren
    <2> QED
      BY <2>4, <2>5, <2>6
  <1> QED
    BY <1>4, <1>5

\* The fork: nothing that was delivered after it is discarded, no interjection is lost, and
\* what was refused from there on is gone.
LEMMA ForkedIs ==
    ASSUME NEW s \in Seq(Turns), NEW g \in 0..Len(s), g # 0 => s[g].kind = "calls",
           NEW u, u = Runner!Forked(s, g)
    PROVE  /\ u \in Seq(Turns)
           /\ Runner!IdsOf(u, "note") = Runner!IdsOf(s, "note")
           /\ (g # 0 => Barren(s, g)) => Runner!IdsOf(u, "calls") = Runner!IdsOf(s, "calls")
           /\ (\A i \in Nat : RefusedAt(s, i) => IF g = 0 THEN Barren(s, i - 1) ELSE i >= g)
                => \A i \in Nat : ~RefusedAt(u, i)
PROOF
  <1>1. PICK t : t = Runner!ForkKeeps(s, g)
    OBVIOUS
  <1>2. /\ t \in Seq(Turns) /\ Len(t) <= Len(s)
        /\ \A i \in 1..Len(t) : t[i].kind = s[i].kind /\ t[i].ids = s[i].ids
        /\ \A i \in 1..Len(t) : t[i].refused =>
               /\ s[i].refused
               /\ IF g = 0 THEN ~Barren(s, i - 1) ELSE i < g
        /\ (g # 0 => Barren(s, g)) => Barren(s, Len(t))
    BY <1>1, ForkKeepsIs
  <1>3. PICK r : r = SubSeq(s, Len(t) + 1, Len(s))
    OBVIOUS
  <1>4. /\ r \in Seq(Turns) /\ Len(r) = Len(s) - Len(t)
        /\ \A i \in 1..Len(r) : r[i] = s[Len(t) + i]
    <2>1. PICK n \in 0..Len(s) : n = Len(t)
      BY <1>2
    <2> QED
      BY <1>3, <2>1, Suffix
  <1>5. PICK q : q = Runner!NotesOf(r)
    OBVIOUS
  <1>6. q \in Seq(NoteTurns) /\ Runner!IdsOf(q, "note") = Runner!IdsOf(r, "note")
    BY <1>4, <1>5, NotesAre
  <1>7. u = t \o q
    BY <1>1, <1>3, <1>5, Zenon DEF Runner!Forked
  <1>8. q \in Seq(Turns) /\ Runner!IdsOf(q, "calls") = {} /\ Carries(t, u)
    BY <1>2, <1>6, <1>7, CarriesNotes
  <1>9. \A kind : /\ Runner!IdsOf(s, kind) = Runner!IdsOf(t, kind) \cup Runner!IdsOf(r, kind)
                  /\ Runner!IdsOf(u, kind) = Runner!IdsOf(t, kind) \cup Runner!IdsOf(q, kind)
    <2> TAKE kind
    <2>1. Len(s) = Len(t) + Len(r)
      BY <1>2, <1>4
    <2>2. Runner!IdsOf(s, kind) = Runner!IdsOf(t, kind) \cup Runner!IdsOf(r, kind)
      <3>1. Parts(s, t, r)
        BY <1>2, <1>4, <2>1 DEF Parts
      <3> QED
        BY <1>2, <1>4, <3>1, IdsSplit
    <2>3. Runner!IdsOf(u, kind) = Runner!IdsOf(t, kind) \cup Runner!IdsOf(q, kind)
      BY <1>2, <1>7, <1>8, IdsConcat
    <2> QED
      BY <2>2, <2>3
  <1>10. ASSUME g # 0 => Barren(s, g) PROVE Runner!IdsOf(r, "calls") = {}
    <2>1. Barren(s, Len(t))
      BY <1>2, <1>10
    <2>2. \A i \in 1..Len(r) : r[i].kind = "calls" => r[i].ids = {}
      <3> TAKE i \in 1..Len(r)
      <3>1. Len(t) + i \in (Len(t) + 1)..Len(s) /\ r[i] = s[Len(t) + i]
        BY <1>2, <1>4
      <3> QED
        BY <2>1, <3>1 DEF Barren
    <2>3. \A x : x \notin Runner!IdsOf(r, "calls")
      BY <1>4, <2>2, IdsAre
    <2> QED
      BY <2>3
  <1>11. ASSUME \A i \in Nat : RefusedAt(s, i) => IF g = 0 THEN Barren(s, i - 1) ELSE i >= g,
                NEW i \in Nat, RefusedAt(u, i)
         PROVE  FALSE
    <2>1. RefusedAt(t, i)
      BY <1>2, <1>8, <1>11, CarriedOn
    <2>2. RefusedAt(s, i) /\ IF g = 0 THEN ~Barren(s, i - 1) ELSE i < g
      BY <1>2, <2>1 DEF RefusedAt
    <2> QED
      BY <1>11, <2>2
  <1> QED
    BY <1>6, <1>8, <1>9, <1>10, <1>11 DEF Carries

-----------------------------------------------------------------------------
(***************************************************************************)
(* The inductive invariant of the runner.                                  *)
(***************************************************************************)
\* What is in the transcript, in the queue and in the two requests for a redo; and a redo from
\* scratch is only asked for while one is left.
RunTyped ==
    /\ Runner!TypeOK
    /\ msgs \in Seq(Turns) /\ steering \in Seq(NoteTurns)
    /\ control \in [mode : {"none", "redo", "withhold", "park"}, at : Nat]
    /\ redo \in [mode : {"none", "redo", "withhold", "park"}, at : Nat]
    /\ control.mode = "none" => control = Runner!NoRedo
    /\ lateStep = "restart" \/ step = "restart" => redoCount < MaxRedos

\* A request for a redo points at a call that is in the transcript, and unless a correction
\* left it pending under another request, nothing was delivered since.
Points ==
    /\ control # Runner!NoRedo /\ run # "rebuilding" => CallAt(msgs, control.at)
    /\ control # Runner!NoRedo /\ ~stale =>
           run # "request" /\ (run # "rebuilding" => Barren(msgs, control.at))
    /\ run = "redoing" =>
           /\ control = Runner!NoRedo
           /\ redo.at # 0 => CallAt(msgs, redo.at) /\ (stale \/ Barren(msgs, redo.at))
    /\ run = "rebuilding" => msgs = <<>>
    /\ run \in {"typing", "over"} => control = Runner!NoRedo

\* What was refused at i is going to be forked away: a redo for it is asked for, or taken ...
Condemned(i) ==
    \/ control # Runner!NoRedo /\ i >= control.at
    \/ run = "redoing" /\ redo.at # 0 /\ i >= redo.at
    \/ run = "redoing" /\ redo.at = 0 /\ Barren(msgs, i - 1)
    \/ run = "over" /\ end \notin {"done", "exhausted"}

\* ... unless the run was stopped; and none is asked for when the ending is judged.
Judged == interrupted \/
    /\ run \in {"ending", "exhausted"} => control = Runner!NoRedo
    /\ run = "applying" /\ from # "loop" => control = Runner!NoRedo
    /\ \A i \in Nat : RefusedAt(msgs, i) => Condemned(i)

\* After a Stop the one request that was about to be issued is the last.
Heeded ==
    /\ extra \in 0..1
    /\ extra = 1 => interrupted /\ run \in {"request", "tools", "settled", "ending", "over"}
    /\ end # "none" => run = "over"

RunInv ==
    /\ RunTyped /\ Points /\ Judged /\ Heeded
    /\ Runner!DeliveredKept /\ Runner!NotesKept

\* An empty transcript has no effects.
LEMMA NoIds ==
    /\ <<>> \in Seq(Turns) /\ <<>> \in Seq(NoteTurns)
    /\ \A kind : Runner!IdsOf(<<>>, kind) = {}
PROOF
  <1>1. <<>> \in Seq(Turns) /\ <<>> \in Seq(NoteTurns) /\ Len(<<>>) = 0
    BY EmptySeq
  <1>2. PICK s \in Seq(Turns) : s = <<>>
    BY <1>1, Zenon
  <1>3. ASSUME NEW kind PROVE Runner!IdsOf(s, kind) = {}
    <2>0. Len(s) = 0 /\ 1..0 = {}
      BY <1>1, <1>2
    <2>1. \A x : x \notin Runner!IdsOf(s, kind)
      BY <2>0, IdsAre
    <2> QED
      BY <2>1
  <1> QED
    BY <1>1, <1>2, <1>3

\* The run begins with nothing said, steered or asked for.
THEOREM RunInit == ASSUME Runner!SessionRunnerAssumption PROVE Runner!Init => RunInv
PROOF
  <1> SUFFICES ASSUME Runner!Init PROVE RunInv
    OBVIOUS
  <1>1. RunTyped
    <2>1. Runner!TypeOK
      <3>1. /\ 0 \in 0..MaxRetries /\ 0 \in 0..Tries /\ 0 \in 0..MaxRedos
            /\ {FALSE, FALSE, FALSE} \subseteq BOOLEAN
        BY DEF Runner!SessionRunnerAssumption
      <3> QED
        BY <3>1 DEF Runner!Init, Runner!TypeOK, Runner!NoRedo
    <2>2. msgs \in Seq(Turns) /\ steering \in Seq(NoteTurns)
      BY NoIds DEF Runner!Init
    <2> QED
      BY <2>1, <2>2 DEF Runner!Init, RunTyped, Runner!NoRedo
  <1>2. Points /\ Heeded
    BY DEF Runner!Init, Points, Heeded
  <1>3. Judged
    <2>1. \A i \in Nat : ~RefusedAt(msgs, i)
      BY DEF Runner!Init, RefusedAt
    <2> QED
      BY <2>1 DEF Judged, Runner!Init
  <1>4. Runner!DeliveredKept /\ Runner!NotesKept
    BY NoIds DEF Runner!Init, Runner!DeliveredKept, Runner!NotesKept
  <1> QED
    BY <1>1, <1>2, <1>3, <1>4 DEF RunInv

\* What was steered is read.
LEMMA Taken ==
    ASSUME NEW s \in Seq(Turns), NEW q \in Seq(NoteTurns), NEW u, u = s \o q
    PROVE  /\ Carries(s, u)
           /\ Runner!IdsOf(u, "note") = Runner!IdsOf(s, "note") \cup Runner!IdsOf(q, "note")
PROOF
  <1>1. Carries(s, u) /\ q \in Seq(Turns)
    BY CarriesNotes
  <1> QED
    BY <1>1, IdsConcat

\* The agent says something that has no effect.
LEMMA Says ==
    ASSUME NEW s \in Seq(Turns), NEW kind \in {"text", "noreply", "error", "aborted", "nudge"},
           NEW t, t = Append(s, Runner!Entry(kind, {}, FALSE))
    PROVE  Carries(s, t) /\ t \in Seq(Turns) /\ Runner!IdsOf(t, "note") = Runner!IdsOf(s, "note")
PROOF
  <1>1. PICK e \in Turns : /\ e = Runner!Entry(kind, {}, FALSE)
                           /\ e.kind = kind /\ e.ids = {} /\ ~e.refused
    <2>1. PICK e : e = Runner!Entry(kind, {}, FALSE)
      OBVIOUS
    <2>2. /\ {} \in SUBSET (Sends \cup Notes) /\ FALSE \in BOOLEAN
          /\ kind \in {"text", "noreply", "error", "calls", "aborted", "nudge", "note"}
      OBVIOUS
    <2>3. e \in Turns /\ e.kind = kind /\ e.ids = {} /\ e.refused = FALSE
      BY <2>1, <2>2 DEF Runner!Entry, Turns, Runner!FromAssistant
    <2> QED
      BY <2>1, <2>3
  <1>2. Carries(s, t)
    BY <1>1, CarriesPlain
  <1>3. Runner!IdsOf(t, "note") = Runner!IdsOf(s, "note")
    BY <1>1, IdsAppend, ZenonT(40)
  <1> QED
    BY <1>2, <1>3 DEF Carries

-----------------------------------------------------------------------------
\* What is not a transcript.
Scalars ==
    /\ Runner!TypeOK
    /\ control \in [mode : {"none", "redo", "withhold", "park"}, at : Nat]
    /\ redo \in [mode : {"none", "redo", "withhold", "park"}, at : Nat]
    /\ control.mode = "none" => control = Runner!NoRedo
    /\ lateStep = "restart" \/ step = "restart" => redoCount < MaxRedos

\* Every step keeps the counters within their bounds and the requests well formed.
LEMMA ScalarsKept ==
    ASSUME Runner!SessionRunnerAssumption, Scalars, msgs \in Seq(Turns),
           [Runner!Next]_(Runner!vars)
    PROVE  Scalars'
PROOF
  <1> USE DEF Runner!Request, Runner!Issue, Runner!TakeStep, Runner!Applied, Runner!EndTurn,
              Runner!Over, Runner!Redo, Runner!budgets, Runner!lateVars, Runner!Abort,
              Runner!NoRedo
  <1>0. MaxRetries \in Nat /\ Tries \in Nat /\ MaxRedos \in Nat /\ Len(msgs) \in Nat
    BY DEF Runner!SessionRunnerAssumption
  <1>1. ASSUME NEW kind \in {"text", "noreply", "error"}, Runner!Answer(kind) PROVE Scalars'
    BY <1>0, <1>1 DEF Runner!Answer, Scalars, Runner!TypeOK
  <1>2. ASSUME NEW sent \in SUBSET Sends, NEW refused \in BOOLEAN, Runner!Call(sent, refused)
        PROVE  Scalars'
    BY <1>0, <1>2 DEF Runner!Call, Scalars, Runner!TypeOK, Runner!Verdict, Runner!Advanced,
       Runner!Passes
  <1>3. ASSUME Runner!ToolsDone PROVE Scalars'
    BY <1>0, <1>3 DEF Runner!ToolsDone, Scalars, Runner!TypeOK
  <1>4. ASSUME Runner!Aborted PROVE Scalars'
    BY <1>0, <1>4 DEF Runner!Aborted, Scalars, Runner!TypeOK
  <1>5. ASSUME Runner!Start PROVE Scalars'
    BY <1>0, <1>5 DEF Runner!Start, Scalars, Runner!TypeOK
  <1>6. ASSUME Runner!Settled PROVE Scalars'
    BY <1>0, <1>6 DEF Runner!Settled, Scalars, Runner!TypeOK
  <1>7. ASSUME Runner!TakeRedo PROVE Scalars'
    BY <1>0, <1>7 DEF Runner!TakeRedo, Scalars, Runner!TypeOK
  <1>8. ASSUME Runner!Fail PROVE Scalars'
    BY <1>0, <1>8 DEF Runner!Fail, Scalars, Runner!TypeOK
  <1>9. ASSUME Runner!Report PROVE Scalars'
    BY <1>0, <1>9 DEF Runner!Report, Scalars, Runner!TypeOK
  <1>10. ASSUME Runner!Nudge PROVE Scalars'
    <2>1. {aborting', interrupted', stale'} \subseteq BOOLEAN
      BY <1>10 DEF Runner!Nudge, Scalars, Runner!TypeOK
    <2>2. retries' \in 0..MaxRetries /\ tries' \in 0..Tries /\ redoCount' \in 0..MaxRedos
      BY <1>0, <1>10 DEF Runner!Nudge, Scalars, Runner!TypeOK
    <2> QED
      BY <1>10, <2>1, <2>2 DEF Runner!Nudge, Scalars, Runner!TypeOK
  <1>11. ASSUME Runner!Refused PROVE Scalars'
    BY <1>0, <1>11 DEF Runner!Refused, Scalars, Runner!TypeOK, Runner!Verdict, Runner!Advanced,
       Runner!Passes
  <1>12. ASSUME Runner!Ending PROVE Scalars'
    BY <1>0, <1>12 DEF Runner!Ending, Scalars, Runner!TypeOK, Runner!ContractRedo
  <1>13. ASSUME Runner!ApplyRedo PROVE Scalars'
    <2>1. {aborting', interrupted', stale'} \subseteq BOOLEAN
      BY <1>13 DEF Runner!ApplyRedo, Scalars, Runner!TypeOK
    <2>2. retries' \in 0..MaxRetries /\ tries' \in 0..Tries /\ redoCount' \in 0..MaxRedos
      BY <1>0, <1>13 DEF Runner!ApplyRedo, Scalars, Runner!TypeOK
    <2> QED
      BY <1>13, <2>1, <2>2 DEF Runner!ApplyRedo, Scalars, Runner!TypeOK
  <1>14. ASSUME Runner!GiveUp PROVE Scalars'
    BY <1>0, <1>14 DEF Runner!GiveUp, Scalars, Runner!TypeOK
  <1>15. ASSUME Runner!CancelRun PROVE Scalars'
    BY <1>0, <1>15 DEF Runner!CancelRun, Scalars, Runner!TypeOK
  <1>16. ASSUME Runner!Rebuild PROVE Scalars'
    BY <1>0, <1>16 DEF Runner!Rebuild, Scalars, Runner!TypeOK
  <1>17. ASSUME Runner!Rebuilt PROVE Scalars'
    <2>1. {aborting', interrupted', stale'} \subseteq BOOLEAN
      BY <1>17 DEF Runner!Rebuilt, Scalars, Runner!TypeOK
    <2>2. retries' \in 0..MaxRetries /\ tries' \in 0..Tries /\ redoCount' \in 0..MaxRedos
      BY <1>0, <1>17 DEF Runner!Rebuilt, Scalars, Runner!TypeOK
    <2> QED
      BY <1>17, <2>1, <2>2 DEF Runner!Rebuilt, Scalars, Runner!TypeOK
  <1>18. ASSUME Runner!RebuildEnds PROVE Scalars'
    BY <1>0, <1>18 DEF Runner!RebuildEnds, Scalars, Runner!TypeOK
  <1>19. ASSUME Runner!Continue PROVE Scalars'
    <2>1. {aborting', interrupted', stale'} \subseteq BOOLEAN
      BY <1>19 DEF Runner!Continue, Scalars, Runner!TypeOK
    <2>2. retries' \in 0..MaxRetries /\ tries' \in 0..Tries /\ redoCount' \in 0..MaxRedos
      BY <1>0, <1>19 DEF Runner!Continue, Scalars, Runner!TypeOK
    <2> QED
      BY <1>19, <2>1, <2>2 DEF Runner!Continue, Scalars, Runner!TypeOK
  <1>20. ASSUME NEW n \in Notes, Runner!Steer(n) PROVE Scalars'
    BY <1>0, <1>20 DEF Runner!Steer, Scalars, Runner!TypeOK
  <1>21. ASSUME NEW kind \in {"restart", "cancel"}, Runner!Correct(kind) PROVE Scalars'
    BY <1>0, <1>21 DEF Runner!Correct, Scalars, Runner!TypeOK
  <1>22. ASSUME Runner!Stop PROVE Scalars'
    BY <1>0, <1>22 DEF Runner!Stop, Scalars, Runner!TypeOK
  <1>23. CASE UNCHANGED Runner!vars
    BY <1>23 DEF Runner!vars, Scalars, Runner!TypeOK
  <1> QED
    BY <1>1, <1>2, <1>3, <1>4, <1>5, <1>6, <1>7, <1>8, <1>9, <1>10, <1>11, <1>12, <1>13, <1>14,
       <1>15, <1>16, <1>17, <1>18, <1>19, <1>20, <1>21, <1>22, <1>23 DEF Runner!Next,
       Runner!GoesOn, Runner!Turns

-----------------------------------------------------------------------------
(***************************************************************************)
(* Most steps carry the transcript on, and lose no interjection.           *)
(***************************************************************************)
Quiet ==
    /\ Carries(msgs, msgs')
    /\ steering' \in Seq(NoteTurns)
    /\ delivered' = delivered
    /\ Runner!NotesKept => Runner!NotesKept'

\* The queue is read, or left alone.
LEMMA Onwards ==
    ASSUME msgs \in Seq(Turns), steering \in Seq(NoteTurns),
           NEW s \in Seq(Turns), Carries(msgs, s),
           Runner!IdsOf(s, "note") = Runner!IdsOf(msgs, "note"),
           \/ msgs' = s /\ steering' = steering
           \/ msgs' = s \o steering /\ steering' = <<>>,
           UNCHANGED <<interrupted, delivered, notes>>
    PROVE  Quiet
PROOF
  <1>1. CASE msgs' = s /\ steering' = steering
    BY <1>1 DEF Quiet, Runner!NotesKept
  <1>2. CASE msgs' = s \o steering /\ steering' = <<>>
    <2>1. /\ Carries(s, msgs')
          /\ Runner!IdsOf(msgs', "note")
                = Runner!IdsOf(s, "note") \cup Runner!IdsOf(steering, "note")
      BY <1>2, Taken
    <2>2. Carries(msgs, msgs')
      BY <2>1, CarriesOver
    <2>3. steering' \in Seq(NoteTurns) /\ Runner!IdsOf(steering', "note") = {}
      BY <1>2, NoIds
    <2> QED
      BY <2>1, <2>2, <2>3 DEF Quiet, Runner!NotesKept
  <1> QED
    BY <1>1, <1>2

\* A message was steered.
LEMMA Steered ==
    ASSUME steering \in Seq(NoteTurns), NEW n \in Notes,
           steering' = Append(steering, Runner!Entry("note", {n}, FALSE))
    PROVE  /\ steering' \in Seq(NoteTurns)
           /\ Runner!IdsOf(steering', "note") = Runner!IdsOf(steering, "note") \cup {n}
PROOF
  <1>1. PICK e : e = Runner!Entry("note", {n}, FALSE)
    OBVIOUS
  <1>2. e \in NoteTurns /\ e \in Turns /\ e.kind = "note" /\ e.ids = {n}
    BY <1>1 DEF Runner!Entry, NoteTurns, Turns, Runner!FromAssistant
  <1>3. steering \in Seq(Turns)
    BY DEF NoteTurns
  <1>4. steering' = Append(steering, e)
    BY <1>1
  <1>5. PICK t : t = Append(steering, e)
    OBVIOUS
  <1>6. Runner!IdsOf(t, "note") = Runner!IdsOf(steering, "note") \cup e.ids
    BY <1>2, <1>3, <1>5, IdsAppend
  <1>7. t \in Seq(NoteTurns)
    BY <1>2, <1>5
  <1>8. steering' = t
    BY <1>4, <1>5, Zenon
  <1> QED
    BY <1>2, <1>6, <1>7, <1>8, Zenon

Moves ==
    \/ \E kind \in {"text", "noreply", "error"} : Runner!Answer(kind)
    \/ Runner!ToolsDone \/ Runner!Aborted \/ Runner!Start \/ Runner!Settled \/ Runner!TakeRedo
    \/ Runner!Fail \/ Runner!Report \/ Runner!Nudge \/ Runner!Ending \/ Runner!GiveUp
    \/ Runner!CancelRun \/ Runner!RebuildEnds \/ Runner!Continue
    \/ \E n \in Notes : Runner!Steer(n)
    \/ \E kind \in {"restart", "cancel"} : Runner!Correct(kind)
    \/ Runner!Stop

\* These steps append, read the queue, drop an aborted message, or leave it all alone.
LEMMA MovesQuietly ==
    ASSUME msgs \in Seq(Turns), steering \in Seq(NoteTurns), Moves
    PROVE  Quiet
PROOF
  <1> USE DEF Runner!Request, Runner!Issue, Runner!TakeStep, Runner!EndTurn
  <1>0. Carries(msgs, msgs)
    BY CarriesItself
  <1>1. ASSUME NEW kind \in {"text", "noreply", "error"}, Runner!Answer(kind) PROVE Quiet
    <2>1. PICK t : t = Append(msgs, Runner!Entry(kind, {}, FALSE))
      OBVIOUS
    <2>2. /\ Carries(msgs, t) /\ t \in Seq(Turns)
          /\ Runner!IdsOf(t, "note") = Runner!IdsOf(msgs, "note")
      BY <2>1, Says
    <2>3. /\ \/ msgs' = t /\ steering' = steering
             \/ msgs' = t \o steering /\ steering' = <<>>
          /\ UNCHANGED <<interrupted, delivered, notes>>
      BY <1>1, <2>1 DEF Runner!Answer
    <2> QED
      BY <2>2, <2>3, Onwards
  <1>2. ASSUME Runner!ToolsDone \/ Runner!Aborted PROVE Quiet
    <2>1. PICK t : t = Append(msgs, Runner!Entry("aborted", {}, FALSE))
      OBVIOUS
    <2>2. /\ Carries(msgs, t) /\ t \in Seq(Turns)
          /\ Runner!IdsOf(t, "note") = Runner!IdsOf(msgs, "note")
      BY <2>1, Says
    <2>3. /\ \/ msgs' = t /\ steering' = steering
             \/ msgs' = msgs /\ steering' = steering
             \/ msgs' = msgs \o steering /\ steering' = <<>>
          /\ UNCHANGED <<interrupted, delivered, notes>>
      BY <1>2, <2>1 DEF Runner!ToolsDone, Runner!Aborted
    <2> QED
      BY <1>0, <2>2, <2>3, Onwards
  <1>3. ASSUME Runner!Nudge PROVE Quiet
    <2>1. PICK t : t = Append(msgs, Runner!Entry("nudge", {}, FALSE))
      OBVIOUS
    <2>2. /\ Carries(msgs, t) /\ t \in Seq(Turns)
          /\ Runner!IdsOf(t, "note") = Runner!IdsOf(msgs, "note")
      BY <2>1, Says
    <2>3. msgs' = t \o steering /\ steering' = <<>> /\ UNCHANGED <<interrupted, delivered, notes>>
      BY <1>3, <2>1 DEF Runner!Nudge
    <2> QED
      BY <2>2, <2>3, Onwards
  <1>4. ASSUME Runner!Continue PROVE Quiet
    <2>1. PICK t : t = IF msgs # <<>> /\ msgs[Len(msgs)].kind = "aborted"
                       THEN SubSeq(msgs, 1, Len(msgs) - 1) ELSE msgs
      OBVIOUS
    <2>2. /\ Carries(msgs, t) /\ t \in Seq(Turns)
          /\ Runner!IdsOf(t, "note") = Runner!IdsOf(msgs, "note")
      BY <1>0, <2>1, CarriesFront DEF Carries
    <2>3. /\ \/ msgs' = t /\ steering' = steering
             \/ msgs' = t \o steering /\ steering' = <<>>
          /\ UNCHANGED <<interrupted, delivered, notes>>
      BY <1>4, <2>1 DEF Runner!Continue
    <2> QED
      BY <2>2, <2>3, Onwards
  <1>5. ASSUME Runner!Start PROVE Quiet
    <2>1. /\ \/ msgs' = msgs /\ steering' = steering
             \/ msgs' = msgs \o steering /\ steering' = <<>>
          /\ UNCHANGED <<interrupted, delivered, notes>>
      BY <1>5 DEF Runner!Start
    <2> QED
      BY <1>0, <2>1, Onwards
  <1>6. ASSUME NEW n \in Notes, Runner!Steer(n) PROVE Quiet
    <2>1. /\ steering' \in Seq(NoteTurns)
          /\ Runner!IdsOf(steering', "note") = Runner!IdsOf(steering, "note") \cup {n}
      BY <1>6, Steered DEF Runner!Steer
    <2>2. msgs' = msgs /\ delivered' = delivered /\ interrupted' = interrupted
          /\ notes' = notes \cup {n}
      BY <1>6 DEF Runner!Steer
    <2> QED
      BY <1>0, <2>1, <2>2 DEF Quiet, Runner!NotesKept
  <1>7. ASSUME Runner!Stop PROVE Quiet
    BY <1>0, <1>7, NoIds DEF Runner!Stop, Quiet, Runner!NotesKept
  <1>8. ASSUME \/ Runner!Settled \/ Runner!TakeRedo \/ Runner!Fail \/ Runner!Report
               \/ Runner!Ending \/ Runner!GiveUp \/ Runner!CancelRun \/ Runner!RebuildEnds
               \/ \E kind \in {"restart", "cancel"} : Runner!Correct(kind)
        PROVE  Quiet
    <2>1. UNCHANGED <<msgs, steering, interrupted, delivered, notes>>
      BY <1>8 DEF Runner!Settled, Runner!TakeRedo, Runner!Fail, Runner!Report, Runner!Ending,
                  Runner!GiveUp, Runner!CancelRun, Runner!RebuildEnds, Runner!Correct
    <2> QED
      BY <1>0, <2>1, Onwards
  <1> QED
    BY <1>1, <1>2, <1>3, <1>4, <1>5, <1>6, <1>7, <1>8 DEF Moves

\* So what was said of the transcript stands.
Stands ==
    /\ Runner!IdsOf(msgs', "calls") = Runner!IdsOf(msgs, "calls")
    /\ \A k \in Nat : CallAt(msgs, k) => CallAt(msgs', k)
    /\ \A k \in Nat : Barren(msgs, k) => Barren(msgs', k)
    /\ \A k \in Nat : RefusedAt(msgs', k) => RefusedAt(msgs, k)

\* These steps keep the invariant: what was said of the transcript stands.
LEMMA MovesKeep ==
    ASSUME Runner!SessionRunnerAssumption, RunInv, Moves
    PROVE  RunInv'
PROOF
  <1> USE DEF Runner!Request, Runner!Issue, Runner!TakeStep, Runner!Applied, Runner!EndTurn,
              Runner!Over, Runner!Redo, Runner!budgets, Runner!lateVars, Runner!Abort,
              Runner!LatePending, Runner!Reads, Runner!TakesRedo, Runner!Stops
  <1>0. Quiet
    BY MovesQuietly DEF RunInv, RunTyped
  <1>1. Stands
    <2>1. PICK t : t = msgs' /\ Carries(msgs, t)
      BY <1>0 DEF Quiet
    <2> QED
      BY <2>1, CarriedOn DEF RunInv, RunTyped, Stands
  <1>2. RunTyped'
    <2>1. Scalars /\ [Runner!Next]_(Runner!vars)
      BY DEF RunInv, RunTyped, Scalars, Moves, Runner!Next, Runner!GoesOn, Runner!Turns
    <2>2. Scalars'
      BY <2>1, ScalarsKept DEF RunInv, RunTyped
    <2>3. msgs' \in Seq(Turns) /\ steering' \in Seq(NoteTurns)
      BY <1>0 DEF Quiet, Carries
    <2> QED
      BY <2>2, <2>3 DEF RunTyped, Scalars
  <1>3. Runner!NotesKept'
    BY <1>0 DEF Quiet, RunInv
  <1>4. control.at \in Nat /\ redo.at \in Nat /\ extra \in 0..1
    BY DEF RunInv, RunTyped, Heeded
  <1>5. \A k \in Nat : CallAt(msgs, k) => k # 0
    BY DEF CallAt
  <1>6. ASSUME NEW kind \in {"text", "noreply", "error"}, Runner!Answer(kind) PROVE RunInv'
    <2>1. Points'
      BY <1>1, <1>4, <1>5, <1>6 DEF Runner!Answer, RunInv, Points, Stands
    <2>2. Judged'
      BY <1>1, <1>4, <1>5, <1>6 DEF Runner!Answer, RunInv, Points, Judged, Condemned, Stands
    <2>3. Heeded'
      BY <1>4, <1>6 DEF Runner!Answer, RunInv, Heeded, Runner!Ends
    <2>4. Runner!DeliveredKept'
      BY <1>0, <1>1, <1>6 DEF Runner!Answer, RunInv, Runner!DeliveredKept, Quiet, Stands
    <2> QED
      BY <1>2, <1>3, <2>1, <2>2, <2>3, <2>4 DEF RunInv
  <1>7. ASSUME Runner!ToolsDone PROVE RunInv'
    <2>1. Points'
      BY <1>1, <1>4, <1>5, <1>7 DEF Runner!ToolsDone, RunInv, Points, Stands
    <2>2. Judged'
      BY <1>1, <1>4, <1>5, <1>7 DEF Runner!ToolsDone, RunInv, Points, Judged, Condemned, Stands
    <2>3. Heeded'
      BY <1>4, <1>7 DEF Runner!ToolsDone, RunInv, Heeded, Runner!Ends
    <2>4. Runner!DeliveredKept'
      BY <1>0, <1>1, <1>7 DEF Runner!ToolsDone, RunInv, Runner!DeliveredKept, Quiet, Stands
    <2> QED
      BY <1>2, <1>3, <2>1, <2>2, <2>3, <2>4 DEF RunInv
  <1>8. ASSUME Runner!Aborted PROVE RunInv'
    <2>1. Points'
      BY <1>1, <1>4, <1>5, <1>8 DEF Runner!Aborted, RunInv, Points, Stands
    <2>2. Judged'
      BY <1>1, <1>4, <1>5, <1>8 DEF Runner!Aborted, RunInv, Points, Judged, Condemned, Stands
    <2>3. Heeded'
      BY <1>4, <1>8 DEF Runner!Aborted, RunInv, Heeded, Runner!Ends
    <2>4. Runner!DeliveredKept'
      BY <1>0, <1>1, <1>8 DEF Runner!Aborted, RunInv, Runner!DeliveredKept, Quiet, Stands
    <2> QED
      BY <1>2, <1>3, <2>1, <2>2, <2>3, <2>4 DEF RunInv
  <1>9. ASSUME Runner!Start PROVE RunInv'
    <2>1. Points'
      BY <1>1, <1>4, <1>5, <1>9 DEF Runner!Start, RunInv, Points, Stands
    <2>2. Judged'
      BY <1>1, <1>4, <1>5, <1>9 DEF Runner!Start, RunInv, Points, Judged, Condemned, Stands
    <2>3. Heeded'
      BY <1>4, <1>9 DEF Runner!Start, RunInv, Heeded, Runner!Ends
    <2>4. Runner!DeliveredKept'
      BY <1>0, <1>1, <1>9 DEF Runner!Start, RunInv, Runner!DeliveredKept, Quiet, Stands
    <2> QED
      BY <1>2, <1>3, <2>1, <2>2, <2>3, <2>4 DEF RunInv
  <1>10. ASSUME Runner!Settled PROVE RunInv'
    <2>1. Points'
      BY <1>1, <1>4, <1>5, <1>10 DEF Runner!Settled, RunInv, Points, Stands
    <2>2. Judged'
      BY <1>1, <1>4, <1>5, <1>10 DEF Runner!Settled, RunInv, Points, Judged, Condemned, Stands
    <2>3. Heeded'
      BY <1>4, <1>10 DEF Runner!Settled, RunInv, Heeded, Runner!Ends
    <2>4. Runner!DeliveredKept'
      BY <1>0, <1>1, <1>10 DEF Runner!Settled, RunInv, Runner!DeliveredKept, Quiet, Stands
    <2> QED
      BY <1>2, <1>3, <2>1, <2>2, <2>3, <2>4 DEF RunInv
  <1>11. ASSUME Runner!TakeRedo PROVE RunInv'
    <2>1. Points'
      BY <1>1, <1>4, <1>5, <1>11 DEF Runner!TakeRedo, RunInv, Points, Stands
    <2>2. Judged'
      BY <1>1, <1>4, <1>5, <1>11 DEF Runner!TakeRedo, RunInv, Points, Judged, Condemned, Stands
    <2>3. Heeded'
      BY <1>4, <1>11 DEF Runner!TakeRedo, RunInv, Heeded, Runner!Ends
    <2>4. Runner!DeliveredKept'
      BY <1>0, <1>1, <1>11 DEF Runner!TakeRedo, RunInv, Runner!DeliveredKept, Quiet, Stands
    <2> QED
      BY <1>2, <1>3, <2>1, <2>2, <2>3, <2>4 DEF RunInv
  <1>12. ASSUME Runner!Fail PROVE RunInv'
    <2>1. Points'
      BY <1>1, <1>4, <1>5, <1>12 DEF Runner!Fail, RunInv, Points, Stands
    <2>2. Judged'
      BY <1>1, <1>4, <1>5, <1>12 DEF Runner!Fail, RunInv, Points, Judged, Condemned, Stands
    <2>3. Heeded'
      BY <1>4, <1>12 DEF Runner!Fail, RunInv, Heeded, Runner!Ends
    <2>4. Runner!DeliveredKept'
      BY <1>0, <1>1, <1>12 DEF Runner!Fail, RunInv, Runner!DeliveredKept, Quiet, Stands
    <2> QED
      BY <1>2, <1>3, <2>1, <2>2, <2>3, <2>4 DEF RunInv
  <1>13. ASSUME Runner!Report PROVE RunInv'
    <2>1. Points'
      BY <1>1, <1>4, <1>5, <1>13 DEF Runner!Report, RunInv, Points, Stands
    <2>2. Judged'
      BY <1>1, <1>4, <1>5, <1>13 DEF Runner!Report, RunInv, Points, Judged, Condemned, Stands
    <2>3. Heeded'
      BY <1>4, <1>13 DEF Runner!Report, RunInv, Heeded, Runner!Ends
    <2>4. Runner!DeliveredKept'
      BY <1>0, <1>1, <1>13 DEF Runner!Report, RunInv, Runner!DeliveredKept, Quiet, Stands
    <2> QED
      BY <1>2, <1>3, <2>1, <2>2, <2>3, <2>4 DEF RunInv
  <1>14. ASSUME Runner!Nudge PROVE RunInv'
    <2>1. Points'
      BY <1>1, <1>4, <1>5, <1>14 DEF Runner!Nudge, RunInv, Points, Stands
    <2>2. Judged'
      BY <1>1, <1>4, <1>5, <1>14 DEF Runner!Nudge, RunInv, Points, Judged, Condemned, Stands
    <2>3. Heeded'
      BY <1>4, <1>14 DEF Runner!Nudge, RunInv, Heeded, Runner!Ends
    <2>4. Runner!DeliveredKept'
      BY <1>0, <1>1, <1>14 DEF Runner!Nudge, RunInv, Runner!DeliveredKept, Quiet, Stands
    <2> QED
      BY <1>2, <1>3, <2>1, <2>2, <2>3, <2>4 DEF RunInv
  <1>15. ASSUME Runner!Ending PROVE RunInv'
    <2>1. Points'
      BY <1>1, <1>4, <1>5, <1>15 DEF Runner!Ending, RunInv, Points, Stands, Runner!ContractRedo
    <2>2. Judged'
      BY <1>1, <1>4, <1>5, <1>15 DEF Runner!Ending, RunInv, Points, Judged, Condemned, Stands,
         Runner!ContractRedo
    <2>3. Heeded'
      BY <1>4, <1>15 DEF Runner!Ending, RunInv, Heeded, Runner!Ends, Runner!ContractRedo
    <2>4. Runner!DeliveredKept'
      BY <1>0, <1>1, <1>15 DEF Runner!Ending, RunInv, Runner!DeliveredKept, Quiet, Stands,
         Runner!ContractRedo
    <2> QED
      BY <1>2, <1>3, <2>1, <2>2, <2>3, <2>4 DEF RunInv
  <1>16. ASSUME Runner!GiveUp PROVE RunInv'
    <2>1. Points'
      BY <1>1, <1>4, <1>5, <1>16 DEF Runner!GiveUp, RunInv, Points, Stands
    <2>2. Judged'
      BY <1>1, <1>4, <1>5, <1>16 DEF Runner!GiveUp, RunInv, Points, Judged, Condemned, Stands
    <2>3. Heeded'
      BY <1>4, <1>16 DEF Runner!GiveUp, RunInv, Heeded, Runner!Ends
    <2>4. Runner!DeliveredKept'
      BY <1>0, <1>1, <1>16 DEF Runner!GiveUp, RunInv, Runner!DeliveredKept, Quiet, Stands
    <2> QED
      BY <1>2, <1>3, <2>1, <2>2, <2>3, <2>4 DEF RunInv
  <1>17. ASSUME Runner!CancelRun PROVE RunInv'
    <2>1. Points'
      BY <1>1, <1>4, <1>5, <1>17 DEF Runner!CancelRun, RunInv, Points, Stands
    <2>2. Judged'
      BY <1>1, <1>4, <1>5, <1>17 DEF Runner!CancelRun, RunInv, Points, Judged, Condemned, Stands
    <2>3. Heeded'
      BY <1>4, <1>17 DEF Runner!CancelRun, RunInv, Heeded, Runner!Ends
    <2>4. Runner!DeliveredKept'
      BY <1>0, <1>1, <1>17 DEF Runner!CancelRun, RunInv, Runner!DeliveredKept, Quiet, Stands
    <2> QED
      BY <1>2, <1>3, <2>1, <2>2, <2>3, <2>4 DEF RunInv
  <1>18. ASSUME Runner!RebuildEnds PROVE RunInv'
    <2>1. Points'
      BY <1>1, <1>4, <1>5, <1>18 DEF Runner!RebuildEnds, RunInv, Points, Stands
    <2>2. Judged'
      BY <1>1, <1>4, <1>5, <1>18 DEF Runner!RebuildEnds, RunInv, Points, Judged, Condemned, Stands
    <2>3. Heeded'
      BY <1>4, <1>18 DEF Runner!RebuildEnds, RunInv, Heeded, Runner!Ends
    <2>4. Runner!DeliveredKept'
      BY <1>0, <1>1, <1>18 DEF Runner!RebuildEnds, RunInv, Runner!DeliveredKept, Quiet, Stands
    <2> QED
      BY <1>2, <1>3, <2>1, <2>2, <2>3, <2>4 DEF RunInv
  <1>19. ASSUME Runner!Continue PROVE RunInv'
    <2>1. Points'
      BY <1>1, <1>4, <1>5, <1>19 DEF Runner!Continue, RunInv, Points, Stands
    <2>2. Judged'
      BY <1>1, <1>4, <1>5, <1>19 DEF Runner!Continue, RunInv, Points, Judged, Condemned, Stands
    <2>3. Heeded'
      BY <1>4, <1>19 DEF Runner!Continue, RunInv, Heeded, Runner!Ends
    <2>4. Runner!DeliveredKept'
      BY <1>0, <1>1, <1>19 DEF Runner!Continue, RunInv, Runner!DeliveredKept, Quiet, Stands
    <2> QED
      BY <1>2, <1>3, <2>1, <2>2, <2>3, <2>4 DEF RunInv
  <1>20. ASSUME NEW n \in Notes, Runner!Steer(n) PROVE RunInv'
    <2>1. Points'
      BY <1>1, <1>4, <1>5, <1>20 DEF Runner!Steer, RunInv, Points, Stands
    <2>2. Judged'
      BY <1>1, <1>4, <1>5, <1>20 DEF Runner!Steer, RunInv, Points, Judged, Condemned, Stands
    <2>3. Heeded'
      BY <1>4, <1>20 DEF Runner!Steer, RunInv, Heeded, Runner!Ends
    <2>4. Runner!DeliveredKept'
      BY <1>0, <1>1, <1>20 DEF Runner!Steer, RunInv, Runner!DeliveredKept, Quiet, Stands
    <2> QED
      BY <1>2, <1>3, <2>1, <2>2, <2>3, <2>4 DEF RunInv
  <1>21. ASSUME NEW kind \in {"restart", "cancel"}, Runner!Correct(kind) PROVE RunInv'
    <2>1. Points'
      BY <1>1, <1>4, <1>5, <1>21 DEF Runner!Correct, RunInv, Points, Stands
    <2>2. Judged'
      BY <1>1, <1>4, <1>5, <1>21 DEF Runner!Correct, RunInv, Points, Judged, Condemned, Stands
    <2>3. Heeded'
      BY <1>4, <1>21 DEF Runner!Correct, RunInv, Heeded, Runner!Ends
    <2>4. Runner!DeliveredKept'
      BY <1>0, <1>1, <1>21 DEF Runner!Correct, RunInv, Runner!DeliveredKept, Quiet, Stands
    <2> QED
      BY <1>2, <1>3, <2>1, <2>2, <2>3, <2>4 DEF RunInv
  <1>22. ASSUME Runner!Stop PROVE RunInv'
    <2>1. Points'
      BY <1>1, <1>4, <1>5, <1>22 DEF Runner!Stop, RunInv, Points, Stands
    <2>2. Judged'
      BY <1>1, <1>4, <1>5, <1>22 DEF Runner!Stop, RunInv, Points, Judged, Condemned, Stands
    <2>3. Heeded'
      BY <1>4, <1>22 DEF Runner!Stop, RunInv, Heeded, Runner!Ends
    <2>4. Runner!DeliveredKept'
      BY <1>0, <1>1, <1>22 DEF Runner!Stop, RunInv, Runner!DeliveredKept, Quiet, Stands
    <2> QED
      BY <1>2, <1>3, <2>1, <2>2, <2>3, <2>4 DEF RunInv
  <1> QED
    BY <1>6, <1>7, <1>8, <1>9, <1>10, <1>11, <1>12, <1>13, <1>14, <1>15, <1>16, <1>17, <1>18,
       <1>19, <1>20, <1>21, <1>22 DEF Moves

-----------------------------------------------------------------------------
\* The agent calls: the call is the last of the transcript.
LEMMA CallsIs ==
    ASSUME NEW s \in Seq(Turns), NEW e \in Turns, e.kind = "calls", NEW t, t = Append(s, e)
    PROVE  /\ t \in Seq(Turns)
           /\ Runner!IdsOf(t, "calls") = Runner!IdsOf(s, "calls") \cup e.ids
           /\ Runner!IdsOf(t, "note") = Runner!IdsOf(s, "note")
           /\ \A k \in Nat : CallAt(s, k) => CallAt(t, k) /\ k <= Len(s)
           /\ CallAt(t, Len(s) + 1) /\ Barren(t, Len(s) + 1)
           /\ \A k \in Nat : RefusedAt(t, k) => RefusedAt(s, k) \/ (k = Len(s) + 1 /\ e.refused)
PROOF
  <1>1. /\ t \in Seq(Turns) /\ Len(t) = Len(s) + 1 /\ Len(s) \in Nat
        /\ \A i \in 1..Len(s) : t[i] = s[i]
        /\ t[Len(s) + 1] = e
    OBVIOUS
  <1>2. /\ Runner!IdsOf(t, "calls") = Runner!IdsOf(s, "calls") \cup e.ids
        /\ Runner!IdsOf(t, "note") = Runner!IdsOf(s, "note")
    BY IdsAppend
  <1>3. /\ \A k \in Nat : CallAt(s, k) => CallAt(t, k) /\ k <= Len(s)
        /\ CallAt(t, Len(s) + 1)
    BY <1>1 DEF CallAt
  <1>4. Barren(t, Len(s) + 1)
    BY <1>1 DEF Barren
  <1>5. \A k \in Nat : RefusedAt(t, k) => RefusedAt(s, k) \/ (k = Len(s) + 1 /\ e.refused)
    <2> TAKE k \in Nat
    <2>1. CASE k = Len(s) + 1
      BY <1>1, <2>1, Zenon DEF RefusedAt
    <2>2. CASE k \in 1..Len(s)
      <3>1. (t[k].refused <=> s[k].refused) /\ k \in 1..Len(s)
        BY <1>1, <2>2
      <3>2. ASSUME RefusedAt(t, k) PROVE RefusedAt(s, k)
        <4>1. t[k].refused
          BY <3>2 DEF RefusedAt
        <4>2. s[k].refused
          BY <3>1, <4>1
        <4> QED
          BY <3>1, <4>2 DEF RefusedAt
      <3> QED
        BY <3>2, Zenon
    <2>3. CASE k \notin 1..(Len(s) + 1)
      BY <1>1, <2>3, Zenon DEF RefusedAt
    <2> QED
      BY <1>1, <2>1, <2>2, <2>3
  <1> QED
    BY <1>1, <1>2, <1>3, <1>4, <1>5

\* A call that posts: a refused one is pointed at, unless one is already.
LEMMA CallKeeps ==
    ASSUME Runner!SessionRunnerAssumption, RunInv,
           NEW sent \in SUBSET Sends, NEW refused \in BOOLEAN,
           sent # {} \/ refused, Runner!Call(sent, refused)
    PROVE  RunInv'
PROOF
  <1>1. PICK e : e = Runner!Entry("calls", sent, refused)
    OBVIOUS
  <1>2. e \in Turns /\ e.kind = "calls" /\ e.ids = sent /\ e.refused = refused
    BY <1>1 DEF Runner!Entry, Turns, Runner!FromAssistant
  <1>3. msgs \in Seq(Turns) /\ msgs' = Append(msgs, e) /\ Len(msgs) \in Nat
    BY <1>1 DEF RunInv, RunTyped, Runner!Call
  <1>4. /\ msgs' \in Seq(Turns)
        /\ Runner!IdsOf(msgs', "calls") = Runner!IdsOf(msgs, "calls") \cup sent
        /\ Runner!IdsOf(msgs', "note") = Runner!IdsOf(msgs, "note")
        /\ \A k \in Nat : CallAt(msgs, k) => CallAt(msgs', k) /\ k <= Len(msgs)
        /\ CallAt(msgs', Len(msgs) + 1) /\ Barren(msgs', Len(msgs) + 1)
        /\ \A k \in Nat : RefusedAt(msgs', k) =>
               RefusedAt(msgs, k) \/ (k = Len(msgs) + 1 /\ refused)
    BY <1>2, <1>3, CallsIs
  <1>5. RunTyped'
    <2>1. Scalars /\ [Runner!Next]_(Runner!vars)
      BY DEF RunInv, RunTyped, Scalars, Runner!Next, Runner!GoesOn, Runner!Turns
    <2>2. Scalars'
      BY <1>3, <2>1, ScalarsKept
    <2>3. steering' \in Seq(NoteTurns)
      BY DEF Runner!Call, RunInv, RunTyped
    <2> QED
      BY <1>4, <2>2, <2>3 DEF RunTyped, Scalars
  <1>6. Runner!NotesKept' /\ Runner!DeliveredKept' /\ Heeded'
    BY <1>4 DEF Runner!Call, RunInv, Runner!NotesKept, Runner!DeliveredKept, Heeded,
                Runner!budgets, Runner!lateVars
  <1>7. control.at \in Nat /\ redo.at \in Nat
    BY DEF RunInv, RunTyped
  <1>8. /\ run = "request" /\ run' = "tools" /\ UNCHANGED <<stale, interrupted, redo, from, end>>
        /\ \/ ~refused /\ control' = control
           \/ control # Runner!NoRedo /\ control' = control
           \/ control = Runner!NoRedo /\ control'.at = Len(msgs) + 1 /\ control' # Runner!NoRedo
    BY <1>3 DEF Runner!Call, Runner!Verdict, Runner!NoRedo, Runner!lateVars
  <1>9. Points'
    BY <1>3, <1>4, <1>7, <1>8 DEF RunInv, Points
  <1>10. Judged'
    BY <1>3, <1>4, <1>7, <1>8 DEF RunInv, Points, Judged, Condemned
  <1> QED
    BY <1>5, <1>6, <1>9, <1>10 DEF RunInv

\* A refused ending: the redo for it is taken at once.
LEMMA RefusedKeeps ==
    ASSUME Runner!SessionRunnerAssumption, RunInv, Runner!Refused
    PROVE  RunInv'
PROOF
  <1>1. /\ ~Runner!LastIs({"calls"}) /\ msgs \in Seq(Turns)
        /\ msgs' = [msgs EXCEPT ![Runner!LastAssistant].refused = TRUE]
    BY DEF Runner!Refused, RunInv, RunTyped
  <1>2. /\ msgs' \in Seq(Turns)
        /\ Runner!IdsOf(msgs', "calls") = Runner!IdsOf(msgs, "calls")
        /\ Runner!IdsOf(msgs', "note") = Runner!IdsOf(msgs, "note")
        /\ \A i \in Nat : RefusedAt(msgs', i) => RefusedAt(msgs, i) \/ Barren(msgs', i - 1)
    BY <1>1, Marked
  <1>3. RunTyped'
    <2>1. Scalars /\ [Runner!Next]_(Runner!vars)
      BY DEF RunInv, RunTyped, Scalars, Runner!Next, Runner!GoesOn
    <2>2. Scalars'
      BY <1>1, <2>1, ScalarsKept
    <2>3. steering' \in Seq(NoteTurns)
      BY DEF Runner!Refused, RunInv, RunTyped
    <2> QED
      BY <1>2, <2>2, <2>3 DEF RunTyped, Scalars
  <1>4. Runner!NotesKept' /\ Runner!DeliveredKept' /\ Heeded'
    BY <1>2 DEF Runner!Refused, RunInv, Runner!NotesKept, Runner!DeliveredKept, Heeded,
                Runner!Redo, Runner!lateVars
  <1>5. /\ run \in {"ending", "exhausted"} /\ ~interrupted /\ control = Runner!NoRedo
        /\ run' = "redoing" /\ control' = Runner!NoRedo /\ redo'.at = 0
    BY DEF Runner!Refused, Runner!Redo, Runner!Verdict, RunInv, Judged
  <1>6. Points'
    BY <1>5 DEF Points
  <1>7. Judged'
    BY <1>2, <1>5 DEF RunInv, Judged, Condemned
  <1> QED
    BY <1>3, <1>4, <1>6, <1>7 DEF RunInv

\* The fork: what was refused is discarded, what was delivered is kept.
LEMMA RedoKeeps ==
    ASSUME Runner!SessionRunnerAssumption, RunInv, Runner!ApplyRedo
    PROVE  RunInv'
PROOF
  <1>1. PICK g \in Nat : g = redo.at
    BY DEF RunInv, RunTyped
  <1>2. PICK u : u = Runner!Forked(msgs, g)
    OBVIOUS
  <1>3. /\ msgs \in Seq(Turns) /\ steering \in Seq(NoteTurns) /\ run = "redoing"
        /\ control = Runner!NoRedo /\ g \in 0..Len(msgs) /\ (g # 0 => msgs[g].kind = "calls")
        /\ stale \/ (g # 0 => Barren(msgs, g))
    BY <1>1 DEF Runner!ApplyRedo, RunInv, RunTyped, Points, CallAt
  <1>4. /\ u \in Seq(Turns)
        /\ Runner!IdsOf(u, "note") = Runner!IdsOf(msgs, "note")
        /\ stale \/ Runner!IdsOf(u, "calls") = Runner!IdsOf(msgs, "calls")
        /\ (\A i \in Nat : RefusedAt(msgs, i) => IF g = 0 THEN Barren(msgs, i - 1) ELSE i >= g)
             => \A i \in Nat : ~RefusedAt(u, i)
    BY <1>2, <1>3, ForkedIs
  <1>5. /\ \/ msgs' = u /\ steering' = steering /\ run' = "applying" /\ from' = "issue"
              /\ UNCHANGED <<extra, stale>>
           \/ msgs' = u \o steering /\ steering' = <<>> /\ run' = "request"
              /\ extra' = (IF interrupted THEN extra + 1 ELSE extra) /\ (stale' <=> stale)
        /\ UNCHANGED <<interrupted, control, end, delivered, notes>>
    <2>1. Runner!Issue(u) /\ UNCHANGED <<interrupted, control, end, delivered, notes>>
      BY <1>1, <1>2 DEF Runner!ApplyRedo
    <2> QED
      BY <1>3, <2>1 DEF Runner!Issue, Runner!Request, Runner!TakeStep
  <1>6. /\ Carries(u, msgs') /\ steering' \in Seq(NoteTurns)
        /\ Runner!IdsOf(msgs', "note") \cup Runner!IdsOf(steering', "note")
             = Runner!IdsOf(u, "note") \cup Runner!IdsOf(steering, "note")
    <2>1. CASE msgs' = u /\ steering' = steering
      BY <1>3, <1>4, <2>1, CarriesItself
    <2>2. CASE msgs' = u \o steering /\ steering' = <<>>
      <3>1. /\ Carries(u, msgs')
            /\ Runner!IdsOf(msgs', "note")
                 = Runner!IdsOf(u, "note") \cup Runner!IdsOf(steering, "note")
        BY <1>3, <1>4, <2>2, Taken
      <3>2. steering' \in Seq(NoteTurns) /\ Runner!IdsOf(steering', "note") = {}
        BY <2>2, NoIds
      <3> QED
        BY <3>1, <3>2
    <2> QED
      BY <1>5, <2>1, <2>2
  <1>7. /\ msgs' \in Seq(Turns)
        /\ Runner!IdsOf(msgs', "calls") = Runner!IdsOf(u, "calls")
        /\ \A k \in Nat : RefusedAt(msgs', k) => RefusedAt(u, k)
    <2>1. PICK t : t = msgs' /\ Carries(u, t)
      BY <1>6
    <2> QED
      BY <1>4, <2>1, CarriedOn DEF Carries
  <1>8. RunTyped'
    <2>1. Scalars /\ [Runner!Next]_(Runner!vars)
      BY DEF RunInv, RunTyped, Scalars, Runner!Next, Runner!GoesOn
    <2>2. Scalars'
      BY <1>3, <2>1, ScalarsKept
    <2> QED
      BY <1>6, <1>7, <2>2 DEF RunTyped, Scalars
  <1>9. Runner!NotesKept' /\ Runner!DeliveredKept'
    BY <1>4, <1>5, <1>6, <1>7 DEF RunInv, Runner!NotesKept, Runner!DeliveredKept
  <1>10. Heeded'
    BY <1>3, <1>5 DEF RunInv, Heeded
  <1>11. Points'
    BY <1>3, <1>5 DEF Points
  <1>12. Judged'
    <2>1. CASE interrupted
      BY <1>5, <2>1 DEF Judged
    <2>2. CASE ~interrupted
      <3>1. \A i \in Nat : RefusedAt(msgs, i) => IF g = 0 THEN Barren(msgs, i - 1) ELSE i >= g
        BY <1>1, <1>3, <2>2 DEF RunInv, Judged, Condemned
      <3> QED
        BY <1>3, <1>4, <1>5, <1>7, <3>1 DEF Judged
    <2> QED
      BY <2>1, <2>2
  <1> QED
    BY <1>8, <1>9, <1>10, <1>11, <1>12 DEF RunInv

\* A redo from scratch: nothing was delivered, and the interjections are queued again.
LEMMA RebuildKeeps ==
    ASSUME Runner!SessionRunnerAssumption, RunInv, Runner!Rebuild \/ Runner!Rebuilt
    PROVE  RunInv'
PROOF
  <1>1. msgs \in Seq(Turns) /\ steering \in Seq(NoteTurns)
    BY DEF RunInv, RunTyped
  <1>2. Scalars'
    <2>1. Scalars /\ [Runner!Next]_(Runner!vars)
      BY DEF RunInv, RunTyped, Scalars, Runner!Next, Runner!GoesOn
    <2> QED
      BY <1>1, <2>1, ScalarsKept
  <1>3. CASE Runner!Rebuild
    <2>1. PICK q : q = Runner!NotesOf(msgs)
      OBVIOUS
    <2>2. q \in Seq(NoteTurns) /\ Runner!IdsOf(q, "note") = Runner!IdsOf(msgs, "note")
      BY <1>1, <2>1, NotesAre
    <2>3. /\ msgs' = <<>> /\ steering' = q \o steering /\ run' = "rebuilding" /\ delivered = {}
          /\ run = "applying"
          /\ UNCHANGED <<delivered, interrupted, notes, extra, end>>
      BY <1>3, <2>1 DEF Runner!Rebuild
    <2>4. /\ steering' \in Seq(NoteTurns)
          /\ Runner!IdsOf(steering', "note")
               = Runner!IdsOf(msgs, "note") \cup Runner!IdsOf(steering, "note")
      <3>1. q \in Seq(Turns)
        BY <2>2 DEF NoteTurns
      <3>2. steering' \in Seq(NoteTurns)
        BY <1>1, <2>2, <2>3
      <3>3. PICK u : u = q \o steering
        OBVIOUS
      <3>4. Runner!IdsOf(u, "note") = Runner!IdsOf(q, "note") \cup Runner!IdsOf(steering, "note")
        BY <1>1, <3>1, <3>3, Taken
      <3>5. u = steering'
        BY <2>3, <3>3
      <3> QED
        BY <2>2, <3>2, <3>4, <3>5
    <2>5. msgs' \in Seq(Turns) /\ \A kind : Runner!IdsOf(msgs', kind) = {}
      BY <2>3, NoIds
    <2>6. RunTyped'
      BY <1>2, <2>4, <2>5 DEF RunTyped, Scalars
    <2>7. Runner!NotesKept' /\ Runner!DeliveredKept' /\ Heeded'
      BY <2>3, <2>4, <2>5 DEF RunInv, Runner!NotesKept, Runner!DeliveredKept, Heeded
    <2>8. Points'
      BY <2>3 DEF Points
    <2>9. Judged'
      <3>1. \A i \in Nat : ~RefusedAt(msgs', i)
        BY <2>3, EmptySeq DEF RefusedAt
      <3> QED
        BY <2>3, <3>1 DEF Judged
    <2> QED
      BY <2>6, <2>7, <2>8, <2>9 DEF RunInv
  <1>4. CASE Runner!Rebuilt
    <2>1. /\ msgs = <<>> /\ msgs' = steering /\ steering' = <<>> /\ control' = Runner!NoRedo
          /\ run = "rebuilding" /\ run' = "request"
          /\ extra' = (IF interrupted THEN extra + 1 ELSE extra)
          /\ UNCHANGED <<delivered, interrupted, notes, stale, end>>
      BY <1>4 DEF Runner!Rebuilt, RunInv, Points
    <2>2. /\ msgs' \in Seq(Turns) /\ steering' \in Seq(NoteTurns)
          /\ Runner!IdsOf(msgs', "calls") = {}
          /\ \A kind : Runner!IdsOf(steering', kind) = {} /\ Runner!IdsOf(msgs, kind) = {}
      BY <1>1, <2>1, NoIds, CarriesNotes
    <2>3. RunTyped'
      BY <1>2, <2>2 DEF RunTyped, Scalars
    <2>4. Runner!NotesKept' /\ Runner!DeliveredKept' /\ Heeded'
      <3>1. Runner!IdsOf(msgs', "note") = Runner!IdsOf(steering, "note")
        BY <2>1
      <3>2. Runner!NotesKept'
        BY <2>1, <2>2, <3>1 DEF RunInv, Runner!NotesKept
      <3>3. Runner!DeliveredKept'
        BY <2>1, <2>2 DEF RunInv, Runner!DeliveredKept
      <3> QED
        BY <2>1, <3>2, <3>3 DEF RunInv, Heeded
    <2>5. Points'
      BY <2>1 DEF Points
    <2>6. Judged'
      <3>1. \A i \in Nat : ~RefusedAt(msgs', i)
        BY <1>1, <2>1 DEF RefusedAt, NoteTurns, Turns, Runner!FromAssistant
      <3> QED
        BY <2>1, <3>1 DEF Judged
    <2> QED
      BY <2>3, <2>4, <2>5, <2>6 DEF RunInv
  <1> QED
    BY <1>3, <1>4

\* So every step keeps the invariant ...
LEMMA RunStep ==
    ASSUME Runner!SessionRunnerAssumption, RunInv, [Runner!Next]_(Runner!vars)
    PROVE  RunInv'
PROOF
  <1>1. CASE Moves
    BY <1>1, MovesKeep
  <1>2. CASE \E sent \in SUBSET Sends, refused \in BOOLEAN :
                 (sent # {} \/ refused) /\ Runner!Call(sent, refused)
    BY <1>2, CallKeeps
  <1>3. CASE Runner!Refused \/ Runner!ApplyRedo \/ Runner!Rebuild \/ Runner!Rebuilt
    BY <1>3, RefusedKeeps, RedoKeeps, RebuildKeeps
  <1>4. CASE UNCHANGED Runner!vars
    <2>1. UNCHANGED <<onExhausted, run, msgs, steering, aborting, interrupted, retries,
                      contractRedone, tries, control, redo, lateStep, step, from, redoCount,
                      asked, end, delivered, notes, extra, stale>>
      BY <1>4 DEF Runner!vars, Runner!budgets, Runner!lateVars
    <2>2. RunTyped'
      BY <2>1 DEF RunInv, RunTyped, Runner!TypeOK
    <2>3. Points' /\ Judged' /\ Heeded'
      BY <2>1 DEF RunInv, Points, Judged, Condemned, Heeded
    <2>4. Runner!NotesKept' /\ Runner!DeliveredKept'
      BY <2>1 DEF RunInv, Runner!NotesKept, Runner!DeliveredKept
    <2> QED
      BY <2>2, <2>3, <2>4 DEF RunInv
  <1> QED
    BY <1>1, <1>2, <1>3, <1>4 DEF Moves, Runner!Next, Runner!GoesOn, Runner!Turns

\* ... which says what the runs check.
LEMMA RunSafety ==
    ASSUME Runner!SessionRunnerAssumption, RunInv
    PROVE  /\ Runner!TypeOK /\ Runner!DeliveredKept /\ Runner!NotesKept
           /\ Runner!RefusalsRedone /\ Runner!StopHeeded
PROOF
  <1>1. Runner!StopHeeded
    BY DEF RunInv, Heeded, Runner!StopHeeded
  <1>2. Runner!RefusalsRedone
    BY DEF RunInv, RunTyped, Heeded, Points, Judged, Condemned, RefusedAt, Runner!RefusalsRedone
  <1> QED
    BY <1>1, <1>2 DEF RunInv, RunTyped

\* The run of a session, whatever the agent says, the gate judges, corrections ask for and the
\* operator does: no fork discards what was delivered or forgets what was steered, no refused
\* output stands as the answer, and after a Stop at most one request is issued.
THEOREM RunHonest ==
    ASSUME Runner!SessionRunnerAssumption
    PROVE  Runner!Spec => [](/\ Runner!TypeOK /\ Runner!DeliveredKept /\ Runner!NotesKept
                             /\ Runner!RefusalsRedone /\ Runner!StopHeeded)
PROOF
  <1>1. Runner!Init => RunInv
    BY RunInit
  <1>2. RunInv /\ [Runner!Next]_(Runner!vars) => RunInv'
    BY RunStep
  <1>3. RunInv => /\ Runner!TypeOK /\ Runner!DeliveredKept /\ Runner!NotesKept
                  /\ Runner!RefusalsRedone /\ Runner!StopHeeded
    BY RunSafety
  <1> QED
    BY <1>1, <1>2, <1>3, PTL DEF Runner!Spec

\* A request is issued by a handler that looked for a pending step first, or by the loop when
\* it has read the last turn.
LEMMA IssuesLook ==
    ASSUME [Runner!Next]_(Runner!vars) PROVE Runner!NoneStale
PROOF
  <1> SUFFICES ASSUME extra' = extra, run # "request", run' = "request"
               PROVE  ~Runner!LatePending \/ run \in {"tools", "checked"}
    BY DEF Runner!NoneStale
  <1> USE DEF Runner!Request, Runner!Issue, Runner!TakeStep, Runner!EndTurn, Runner!Over,
              Runner!Redo, Runner!LatePending, Runner!Reads
  <1>1. CASE Runner!Turns
    BY <1>1 DEF Runner!Turns, Runner!Answer, Runner!Call, Runner!ToolsDone, Runner!Aborted
  <1>2. CASE Runner!Nudge \/ Runner!Start \/ Runner!ApplyRedo
    BY <1>2 DEF Runner!Nudge, Runner!Start, Runner!ApplyRedo
  <1>3. CASE Runner!Rebuilt \/ Runner!Continue
    BY <1>3 DEF Runner!Rebuilt, Runner!Continue, Runner!Applied
  <1>4. CASE Runner!Settled \/ Runner!TakeRedo \/ Runner!Fail \/ Runner!Report
    BY <1>4 DEF Runner!Settled, Runner!TakeRedo, Runner!Fail, Runner!Report
  <1>5. CASE Runner!Refused \/ Runner!Ending \/ Runner!GiveUp
    BY <1>5 DEF Runner!Refused, Runner!Ending, Runner!GiveUp, Runner!ContractRedo
  <1>6. CASE Runner!CancelRun \/ Runner!Rebuild \/ Runner!RebuildEnds
    BY <1>6 DEF Runner!CancelRun, Runner!Rebuild, Runner!RebuildEnds
  <1>7. CASE \/ \E n \in Notes : Runner!Steer(n)
             \/ \E kind \in {"restart", "cancel"} : Runner!Correct(kind)
             \/ Runner!Stop
    BY <1>7 DEF Runner!Steer, Runner!Correct, Runner!Stop
  <1>8. CASE UNCHANGED Runner!vars
    BY <1>8 DEF Runner!vars
  <1> QED
    BY <1>1, <1>2, <1>3, <1>4, <1>5, <1>6, <1>7, <1>8 DEF Runner!Next, Runner!GoesOn

\* No request is issued that a pending redo or cancel has made stale, but for a nudge after a
\* step that came to nothing.
THEOREM NothingStale == Runner!Spec => [][Runner!NoneStale]_(Runner!vars)
PROOF
  <1>1. [Runner!Next]_(Runner!vars) => [Runner!NoneStale]_(Runner!vars)
    BY IssuesLook
  <1> QED
    BY <1>1, PTL DEF Runner!Spec

-----------------------------------------------------------------------------
(***************************************************************************)
(* WorkerRpc.                                                              *)
(***************************************************************************)
Messages == [kind : {"request", "cancel"}, id : Rpc!Ids]

\* The three queues are sequences.
Queues == toChild \in Seq(Messages) /\ chain \in Seq(Rpc!Ids) /\ fromChild \in Seq(Rpc!Ids)

\* Where a request is: on its way to the child, waiting in it, worked on, or answered.
SentAt(i, k) == k \in 1..Len(toChild) /\ toChild[k].kind = "request" /\ toChild[k].id = i
ReadAt(i, k) == k \in 1..Len(chain) /\ chain[k] = i
AnsweredAt(i, k) == k \in 1..Len(fromChild) /\ fromChild[k] = i
OnTheWay(i) ==
    \/ \E k \in Nat : SentAt(i, k)
    \/ \E k \in Nat : ReadAt(i, k)
    \/ i = running
    \/ \E k \in Nat : AnsweredAt(i, k)

\* The child takes requests in the order of their numbers: those answered come before the one
\* worked on, that one before those it has read, and those before what is in the pipe.
InOrder ==
    /\ \A i, j \in Rpc!Ids : \A k, l \in Nat :
          /\ AnsweredAt(i, k) /\ AnsweredAt(j, l) /\ k < l => i < j
          /\ ReadAt(i, k) /\ ReadAt(j, l) /\ k < l => i < j
          /\ SentAt(i, k) /\ SentAt(j, l) /\ k < l => i < j
          /\ AnsweredAt(i, k) /\ ReadAt(j, l) => i < j
          /\ AnsweredAt(i, k) /\ SentAt(j, l) => i < j
          /\ ReadAt(i, k) /\ SentAt(j, l) => i < j
    /\ running # 0 => \A i \in Rpc!Ids : \A k \in Nat :
          /\ AnsweredAt(i, k) => i < running
          /\ ReadAt(i, k) \/ SentAt(i, k) => running < i

\* While the worker is not given up, each request sent and not answered has a deadline, each of
\* the child's is one of them, and only the oldest has a grace; when the child has not gone,
\* all of them are on the way.
Watched ==
    /\ outstanding \subseteq deadlines
    /\ \A i \in Rpc!Ids : promise[i] = "pending" => i \in outstanding
    /\ \A i \in Rpc!Ids : OnTheWay(i) => i \in outstanding
    /\ child = "up" => \A i \in outstanding : OnTheWay(i)
    /\ \A g \in graces, i \in outstanding : g <= i
    /\ \A i \in outstanding, j \in Rpc!Ids : \A k \in Nat :
          AnsweredAt(j, k) /\ i < j => \E l \in Nat : AnsweredAt(i, l)

RpcInv ==
    /\ Rpc!TypeOK
    /\ Queues
    /\ outstanding \cup graces \subseteq 1..issued /\ closer <= issued
    /\ \A i \in Rpc!Ids : OnTheWay(i) \/ promise[i] # "unsent" => i <= issued
    /\ InOrder
    /\ dead \/ Watched
    /\ dead => \A i \in Rpc!Ids : promise[i] = "pending" => i \in Rpc!Late

\* A sequence without its first element, by position.
LEMMA TailIs ==
    ASSUME NEW S, NEW s \in Seq(S), s # <<>>
    PROVE  /\ Tail(s) \in Seq(S) /\ Len(s) \in Nat \ {0} /\ Len(Tail(s)) = Len(s) - 1
           /\ Head(s) = s[1] /\ s[1] \in S
           /\ \A k \in 1..Len(Tail(s)) : Tail(s)[k] = s[k + 1]
PROOF
  <1>1. PICK n \in Nat : n = Len(s)
    BY LenProperties
  <1>2. n # 0
    BY <1>1, EmptySeq
  <1>3. Head(s) = s[1] /\ s[1] \in S
    BY <1>1, <1>2, ElementOfSeq
  <1> QED
    BY <1>1, <1>2, <1>3, HeadTailProperties

\* A sequence with one more element, by position.
LEMMA AppendIs ==
    ASSUME NEW S, NEW s \in Seq(S), NEW x \in S
    PROVE  /\ Append(s, x) \in Seq(S) /\ Len(s) \in Nat /\ Len(Append(s, x)) = Len(s) + 1
           /\ Append(s, x)[Len(s) + 1] = x
           /\ \A k \in 1..Len(s) : Append(s, x)[k] = s[k]
  BY AppendProperties, LenProperties

LEMMA ReplyTaken ==
    ASSUME Queues, fromChild # <<>>, fromChild' = Tail(fromChild)
    PROVE  /\ (fromChild \in Seq(Rpc!Ids))'
           /\ Head(fromChild) \in Rpc!Ids /\ AnsweredAt(Head(fromChild), 1)
           /\ \A i : AnsweredAt(i, 1) => i = Head(fromChild)
           /\ \A i : \A k \in Nat : AnsweredAt(i, k)' <=> k # 0 /\ AnsweredAt(i, k + 1)
PROOF
  <1>1. PICK n \in Nat : n = Len(fromChild)
    BY LenProperties DEF Queues
  <1> QED
    BY <1>1, TailIs DEF Queues, AnsweredAt

LEMMA ReplySent ==
    ASSUME Queues, NEW j \in Rpc!Ids, fromChild' = Append(fromChild, j)
    PROVE  /\ (fromChild \in Seq(Rpc!Ids))'
           /\ \E n \in Nat :
                /\ \A i : \A k \in Nat : AnsweredAt(i, k) => k <= n
                /\ \A i : \A k \in Nat : AnsweredAt(i, k)' <=>
                                             AnsweredAt(i, k) \/ (k = n + 1 /\ i = j)
PROOF
  <1>1. PICK n \in Nat : n = Len(fromChild)
    BY LenProperties DEF Queues
  <1>2. /\ (fromChild \in Seq(Rpc!Ids))' /\ Len(fromChild') = n + 1 /\ fromChild'[n + 1] = j
        /\ \A k \in 1..n : fromChild'[k] = fromChild[k]
    BY <1>1, AppendIs DEF Queues
  <1>3. \A i : \A k \in Nat : AnsweredAt(i, k) => k <= n
    BY <1>1 DEF AnsweredAt
  <1>4. \A i : \A k \in Nat : AnsweredAt(i, k)' <=> AnsweredAt(i, k) \/ (k = n + 1 /\ i = j)
    BY <1>1, <1>2 DEF AnsweredAt
  <1> QED
    BY <1>2, <1>3, <1>4

LEMMA RequestTaken ==
    ASSUME Queues, chain # <<>>, chain' = Tail(chain)
    PROVE  /\ (chain \in Seq(Rpc!Ids))'
           /\ Head(chain) \in Rpc!Ids /\ ReadAt(Head(chain), 1)
           /\ \A i : ReadAt(i, 1) => i = Head(chain)
           /\ \A i : \A k \in Nat : ReadAt(i, k)' <=> k # 0 /\ ReadAt(i, k + 1)
PROOF
  <1>1. PICK n \in Nat : n = Len(chain)
    BY LenProperties DEF Queues
  <1> QED
    BY <1>1, TailIs DEF Queues, ReadAt

LEMMA RequestQueued ==
    ASSUME Queues, NEW j \in Rpc!Ids, chain' = Append(chain, j)
    PROVE  /\ (chain \in Seq(Rpc!Ids))'
           /\ \E n \in Nat :
                /\ \A i : \A k \in Nat : ReadAt(i, k) => k <= n
                /\ \A i : \A k \in Nat : ReadAt(i, k)' <=> ReadAt(i, k) \/ (k = n + 1 /\ i = j)
PROOF
  <1>1. PICK n \in Nat : n = Len(chain)
    BY LenProperties DEF Queues
  <1>2. /\ (chain \in Seq(Rpc!Ids))' /\ Len(chain') = n + 1 /\ chain'[n + 1] = j
        /\ \A k \in 1..n : chain'[k] = chain[k]
    BY <1>1, AppendIs DEF Queues
  <1>3. \A i : \A k \in Nat : ReadAt(i, k) => k <= n
    BY <1>1 DEF ReadAt
  <1>4. \A i : \A k \in Nat : ReadAt(i, k)' <=> ReadAt(i, k) \/ (k = n + 1 /\ i = j)
    BY <1>1, <1>2 DEF ReadAt
  <1> QED
    BY <1>2, <1>3, <1>4

LEMMA MessageRead ==
    ASSUME Queues, toChild # <<>>, toChild' = Tail(toChild)
    PROVE  /\ (toChild \in Seq(Messages))'
           /\ Head(toChild).kind \in {"request", "cancel"} /\ Head(toChild).id \in Rpc!Ids
           /\ \A i : SentAt(i, 1) <=> Head(toChild).kind = "request" /\ i = Head(toChild).id
           /\ \A i : \A k \in Nat : SentAt(i, k)' <=> k # 0 /\ SentAt(i, k + 1)
PROOF
  <1>1. PICK n \in Nat : n = Len(toChild)
    BY LenProperties DEF Queues
  <1>2. PICK m \in Messages : m = Head(toChild)
    BY TailIs DEF Queues
  <1>3. m.kind \in {"request", "cancel"} /\ m.id \in Rpc!Ids
    BY DEF Messages
  <1>4. n # 0 /\ m = toChild[1] /\ (toChild \in Seq(Messages))' /\ Len(toChild') = n - 1
        /\ \A k \in 1..(n - 1) : toChild'[k] = toChild[k + 1]
    BY <1>1, <1>2, TailIs DEF Queues
  <1>5. \A i : SentAt(i, 1) <=> m.kind = "request" /\ i = m.id
    BY <1>1, <1>4 DEF SentAt
  <1>6. ASSUME NEW i, NEW k \in Nat PROVE SentAt(i, k)' <=> k # 0 /\ SentAt(i, k + 1)
    BY <1>1, <1>4 DEF SentAt
  <1> QED
    BY <1>2, <1>3, <1>4, <1>5, <1>6

LEMMA MessageSent ==
    ASSUME Queues, NEW kind \in {"request", "cancel"}, NEW j \in Rpc!Ids, Rpc!Send(kind, j)
    PROVE  /\ (toChild \in Seq(Messages))'
           /\ \E n \in Nat :
                /\ \A i : \A k \in Nat : SentAt(i, k) => k <= n
                /\ \A i : \A k \in Nat : SentAt(i, k)' <=>
                     SentAt(i, k) \/ (k = n + 1 /\ i = j /\ kind = "request" /\ child = "up")
PROOF
  <1>1. PICK n \in Nat : n = Len(toChild)
    BY LenProperties DEF Queues
  <1>2. PICK m \in Messages : m = [kind |-> kind, id |-> j]
    BY DEF Messages
  <1>3. m.kind = kind /\ m.id = j
    BY <1>2
  <1>4. CASE child = "up"
    <2>1. toChild' = Append(toChild, m)
      BY <1>2, <1>4, Zenon DEF Rpc!Send
    <2>2. /\ (toChild \in Seq(Messages))' /\ Len(toChild') = n + 1 /\ toChild'[n + 1] = m
          /\ \A k \in 1..n : toChild'[k] = toChild[k]
      BY <1>1, <2>1, AppendIs DEF Queues
    <2>3. ASSUME NEW i, NEW k \in Nat
          PROVE  SentAt(i, k)' <=>
                     SentAt(i, k) \/ (k = n + 1 /\ i = j /\ kind = "request" /\ child = "up")
      BY <1>1, <1>3, <1>4, <2>2 DEF SentAt
    <2>4. \A i : \A k \in Nat : SentAt(i, k) => k <= n
      BY <1>1 DEF SentAt
    <2> QED
      BY <2>2, <2>3, <2>4
  <1>5. CASE child # "up"
    <2>1. toChild' = toChild
      BY <1>5, Zenon DEF Rpc!Send
    <2>2. \A i : \A k \in Nat : SentAt(i, k) => k <= n
      BY <1>1 DEF SentAt
    <2>3. \A i : \A k \in Nat : SentAt(i, k)' <=> SentAt(i, k)
      BY <2>1, Zenon DEF SentAt
    <2> QED
      BY <1>5, <2>1, <2>2, <2>3 DEF Queues
  <1> QED
    BY <1>4, <1>5

LEMMA Still ==
    /\ toChild' = toChild => /\ (toChild \in Seq(Messages))' <=> toChild \in Seq(Messages)
                             /\ \A i : \A k \in Nat : SentAt(i, k)' <=> SentAt(i, k)
    /\ chain' = chain => /\ (chain \in Seq(Rpc!Ids))' <=> chain \in Seq(Rpc!Ids)
                         /\ \A i : \A k \in Nat : ReadAt(i, k)' <=> ReadAt(i, k)
    /\ fromChild' = fromChild => /\ (fromChild \in Seq(Rpc!Ids))' <=> fromChild \in Seq(Rpc!Ids)
                                 /\ \A i : \A k \in Nat : AnsweredAt(i, k)' <=> AnsweredAt(i, k)
PROOF
  <1>1. toChild' = toChild => \A i : \A k \in Nat : SentAt(i, k)' <=> SentAt(i, k)
    BY Zenon DEF SentAt
  <1>2. chain' = chain => \A i : \A k \in Nat : ReadAt(i, k)' <=> ReadAt(i, k)
    BY Zenon DEF ReadAt
  <1>3. fromChild' = fromChild => \A i : \A k \in Nat : AnsweredAt(i, k)' <=> AnsweredAt(i, k)
    BY Zenon DEF AnsweredAt
  <1>4. /\ (toChild \in Seq(Messages))' <=> toChild' \in Seq(Messages)
        /\ (chain \in Seq(Rpc!Ids))' <=> chain' \in Seq(Rpc!Ids)
        /\ (fromChild \in Seq(Rpc!Ids))' <=> fromChild' \in Seq(Rpc!Ids)
    BY Zenon DEF Messages, Rpc!Ids
  <1> QED
    BY <1>1, <1>2, <1>3, <1>4

\* The head of the unanswered requests gets its grace, and no other.
LEMMA OldestIs ==
    ASSUME Rpc!WorkerRpcAssumption,
           NEW out \in SUBSET Rpc!Ids, NEW aband, NEW gr \in SUBSET Rpc!Ids
    PROVE  /\ Rpc!Armed(out, aband, gr) \subseteq gr \cup out
           /\ gr \subseteq Rpc!Armed(out, aband, gr)
           /\ \A g \in Rpc!Armed(out, aband, gr) : g \in gr \/ \A i \in out : g <= i
PROOF
  <1>1. CASE out # {}
    <2>1. out \in SUBSET Nat
      BY DEF Rpc!WorkerRpcAssumption, Rpc!Ids
    <2>2. \E i \in out : \A j \in out : i <= j
      BY <1>1, <2>1, LeastNumber, Zenon
    <2>3. Rpc!Oldest(out) \in out /\ \A j \in out : Rpc!Oldest(out) <= j
      BY <2>2, Zenon DEF Rpc!Oldest
    <2> QED
      BY <2>3, Zenon DEF Rpc!Armed
  <1>2. CASE out = {}
    BY <1>2, Zenon DEF Rpc!Armed
  <1> QED
    BY <1>1, <1>2

LEMMA RpcInit ==
    ASSUME Rpc!WorkerRpcAssumption
    PROVE  Rpc!Init => RpcInv
PROOF
  <1> SUFFICES ASSUME Rpc!Init PROVE RpcInv
    OBVIOUS
  <1>1. Rpc!TypeOK
    <2>1. promise \in [Rpc!Ids -> {"unsent", "pending", "answered", "aborted", "failed"}]
      BY DEF Rpc!Init
    <2>2. MaxCalls \in Nat /\ 0 \in 0..MaxCalls
      BY DEF Rpc!WorkerRpcAssumption
    <2> QED
      BY <2>1, <2>2 DEF Rpc!Init, Rpc!TypeOK
  <1>2. Queues
    BY EmptySeq DEF Rpc!Init, Queues
  <1>3. Len(toChild) = 0 /\ Len(chain) = 0 /\ Len(fromChild) = 0
    BY EmptySeq DEF Rpc!Init
  <1>4. \A i : \A k \in Nat : ~SentAt(i, k) /\ ~ReadAt(i, k) /\ ~AnsweredAt(i, k)
    BY <1>3 DEF SentAt, ReadAt, AnsweredAt
  <1>5. \A i \in Rpc!Ids : ~OnTheWay(i)
    BY <1>4 DEF OnTheWay, Rpc!Init, Rpc!Ids
  <1>6. InOrder
    BY <1>4 DEF InOrder, Rpc!Init
  <1>7. Watched
    BY <1>4, <1>5 DEF Watched, Rpc!Init, Rpc!Ids
  <1> QED
    BY <1>1, <1>2, <1>5, <1>6, <1>7 DEF RpcInv, Rpc!Init, Rpc!Ids

\* A request: call() and close() send one that is later than all the others.
LEMMA RpcIssues ==
    ASSUME Rpc!WorkerRpcAssumption, RpcInv, ~dead, issued < MaxCalls, Rpc!Issue(issued + 1),
           \/ UNCHANGED <<closing, closer>>
           \/ closing' = "asked" /\ closer' = issued + 1
    PROVE  RpcInv'
PROOF
  <1> DEFINE j == issued + 1
  <1>1. j \in Rpc!Ids /\ issued \in 0..MaxCalls /\ MaxCalls \in Nat
    BY DEF RpcInv, Rpc!TypeOK, Rpc!Ids, Rpc!WorkerRpcAssumption
  <1>2. PICK n \in Nat :
          /\ \A i : \A k \in Nat : SentAt(i, k) => k <= n
          /\ \A i : \A k \in Nat : SentAt(i, k)' <=>
                                       SentAt(i, k) \/ (k = n + 1 /\ i = j /\ child = "up")
    BY <1>1, MessageSent DEF RpcInv, Rpc!Issue
  <1>3. /\ \A i : \A k \in Nat : ReadAt(i, k)' <=> ReadAt(i, k)
        /\ \A i : \A k \in Nat : AnsweredAt(i, k)' <=> AnsweredAt(i, k)
        /\ running' = running /\ child' = child
    BY Still DEF Rpc!Issue, Rpc!childVars
  <1>4. Queues'
    BY <1>1, Still, MessageSent DEF RpcInv, Rpc!Issue, Rpc!childVars, Queues
  <1>5. Rpc!TypeOK'
    BY <1>1 DEF RpcInv, Rpc!TypeOK, Rpc!Issue, Rpc!childVars, Rpc!Ids
  <1>6. /\ \A i \in Rpc!Ids : \A k \in Nat :
              SentAt(i, k) \/ ReadAt(i, k) \/ AnsweredAt(i, k) => i < j
        /\ running < j /\ running \in Nat
    BY <1>1 DEF RpcInv, OnTheWay, Rpc!Ids, Rpc!TypeOK
  <1>7. InOrder'
    <2>1. InOrder
      BY DEF RpcInv
    <2>2. \A i \in Rpc!Ids : i \in Nat
      BY <1>1 DEF Rpc!Ids
    <2>3. Rpc!Ids' = Rpc!Ids
      BY DEF Rpc!Ids
    <2> HIDE DEF j
    <2> QED
      BY <1>2, <1>3, <1>6, <2>1, <2>2, <2>3, <1>1 DEF InOrder
  <1>8. \A i \in Rpc!Ids : OnTheWay(i)' <=> OnTheWay(i) \/ (i = j /\ child = "up")
    <2> HIDE DEF j
    <2> QED
      BY <1>2, <1>3 DEF OnTheWay
  <1>9. Watched'
    <2>1. Watched /\ outstanding \cup graces \subseteq 1..issued
      BY DEF RpcInv
    <2>2. outstanding' = outstanding \cup {j} /\ deadlines' = deadlines \cup {j}
              /\ graces' = graces
      BY DEF Rpc!Issue
    <2>3. promise' = [promise EXCEPT ![j] = "pending"]
              /\ promise \in [Rpc!Ids -> {"unsent", "pending", "answered", "aborted", "failed"}]
      BY DEF Rpc!Issue, RpcInv, Rpc!TypeOK
    <2>4. \A i \in Rpc!Ids : promise'[i] = "pending" => i \in outstanding'
      BY <2>1, <2>2, <2>3 DEF Watched
    <2>5. \A i \in outstanding', k2 \in Rpc!Ids : \A k \in Nat :
             AnsweredAt(k2, k)' /\ i < k2 => \E l \in Nat : AnsweredAt(i, l)'
      <3> SUFFICES ASSUME NEW i \in outstanding', NEW k2 \in Rpc!Ids, NEW k \in Nat,
                          AnsweredAt(k2, k), i < k2
                   PROVE  \E l \in Nat : AnsweredAt(i, l)
        BY <1>3
      <3>1. k2 < j /\ k2 \in Nat
        BY <1>1, <1>6 DEF Rpc!Ids
      <3>2. i \in outstanding
        BY <1>1, <2>2, <3>1
      <3> QED
        BY <2>1, <3>2 DEF Watched
    <2>6. \A g \in graces', i \in outstanding' : g <= i
      BY <1>1, <2>1, <2>2 DEF Watched
    <2>7. /\ outstanding' \subseteq deadlines'
          /\ \A i \in Rpc!Ids : OnTheWay(i)' => i \in outstanding'
          /\ child' = "up" => \A i \in outstanding' : OnTheWay(i)'
      <3>1. outstanding \subseteq Rpc!Ids
        BY DEF RpcInv, Rpc!TypeOK
      <3> HIDE DEF j
      <3> QED
        BY <1>1, <1>3, <1>8, <2>1, <2>2, <3>1 DEF Watched
    <2> QED
      BY <2>4, <2>5, <2>6, <2>7 DEF Watched, Rpc!Ids
  <1>10. /\ (outstanding \cup graces \subseteq 1..issued /\ closer <= issued)'
         /\ (\A i \in Rpc!Ids : OnTheWay(i) \/ promise[i] # "unsent" => i <= issued)'
         /\ dead' = dead
    <2>1. \A i \in Rpc!Ids : OnTheWay(i)' => i <= issued'
      <3>1. issued' = j /\ \A i \in Rpc!Ids : OnTheWay(i) => i <= issued
        BY DEF Rpc!Issue, RpcInv
      <3> QED
        BY <1>1, <1>8, <3>1 DEF Rpc!Ids
    <2>2. \A i \in Rpc!Ids : promise'[i] # "unsent" => i <= issued'
      <3>1. issued' = j /\ promise' = [promise EXCEPT ![j] = "pending"]
            /\ promise \in [Rpc!Ids -> {"unsent", "pending", "answered", "aborted", "failed"}]
            /\ \A i \in Rpc!Ids : promise[i] # "unsent" => i <= issued
        BY DEF Rpc!Issue, RpcInv, Rpc!TypeOK
      <3> QED
        BY <1>1, <3>1 DEF Rpc!Ids
    <2>3. (outstanding \cup graces \subseteq 1..issued /\ closer <= issued)' /\ dead' = dead
      BY <1>1 DEF RpcInv, Rpc!Issue, Rpc!TypeOK
    <2> QED
      BY <2>1, <2>2, <2>3 DEF Rpc!Ids
  <1> QED
    BY <1>4, <1>5, <1>7, <1>9, <1>10 DEF RpcInv

\* Only what the parent keeps changes: the order of the requests is what it was.
LEMMA RpcOrder ==
    ASSUME RpcInv, UNCHANGED <<chain, running, fromChild>>,
           \A i : \A k \in Nat : SentAt(i, k)' <=> SentAt(i, k)
    PROVE  InOrder' /\ \A i \in Rpc!Ids : OnTheWay(i)' <=> OnTheWay(i)
PROOF
  <1>1. /\ \A i : \A k \in Nat : ReadAt(i, k)' <=> ReadAt(i, k)
        /\ \A i : \A k \in Nat : AnsweredAt(i, k)' <=> AnsweredAt(i, k)
        /\ running' = running /\ Rpc!Ids' = Rpc!Ids
    BY Still DEF Rpc!Ids
  <1>2. InOrder
    BY DEF RpcInv
  <1>3. InOrder'
    BY <1>1, <1>2 DEF InOrder
  <1>4. \A i \in Rpc!Ids : OnTheWay(i)' <=> OnTheWay(i)
    BY <1>1 DEF OnTheWay
  <1> QED
    BY <1>3, <1>4

LEMMA RpcAborts ==
    ASSUME Rpc!WorkerRpcAssumption, RpcInv, NEW x \in Rpc!Ids, Rpc!Abort(x)
    PROVE  RpcInv'
PROOF
  <1>1. PICK n \in Nat :
          /\ \A i : \A k \in Nat : SentAt(i, k)' <=>
                SentAt(i, k) \/ (k = n + 1 /\ i = x /\ "cancel" = "request" /\ child = "up")
    BY MessageSent DEF RpcInv, Rpc!Abort
  <1>2. (toChild \in Seq(Messages))'
    BY MessageSent DEF RpcInv, Rpc!Abort
  <1>3. \A i : \A k \in Nat : SentAt(i, k)' <=> SentAt(i, k)
    BY <1>1
  <1>4. UNCHANGED <<chain, running, fromChild, child, cancelled, dead, issued, closer, closing,
                    outstanding, deadlines>>
    BY DEF Rpc!Abort, Rpc!childVars
  <1>5. InOrder' /\ \A i \in Rpc!Ids : OnTheWay(i)' <=> OnTheWay(i)
    BY <1>3, <1>4, RpcOrder
  <1>6. Queues'
    BY <1>2, <1>4, Still DEF RpcInv, Queues
  <1>7. /\ graces' \subseteq graces \cup outstanding
        /\ \A g \in graces' : g \in graces \/ \A i \in outstanding : g <= i
    BY OldestIs DEF RpcInv, Rpc!TypeOK, Rpc!Abort
  <1>8. promise' = [promise EXCEPT ![x] = "aborted"] /\ promise[x] = "pending"
        /\ promise \in [Rpc!Ids -> {"unsent", "pending", "answered", "aborted", "failed"}]
    BY DEF Rpc!Abort, RpcInv, Rpc!TypeOK
  <1>9. /\ promise' \in [Rpc!Ids -> {"unsent", "pending", "answered", "aborted", "failed"}]
        /\ \A i \in Rpc!Ids : promise'[i] = "pending" => promise[i] = "pending"
        /\ \A i \in Rpc!Ids : promise'[i] # "unsent" => promise[i] # "unsent"
    BY <1>8
  <1>10. abandoned' = abandoned \cup {x} /\ (dead \/ x \in outstanding)
    BY <1>8 DEF RpcInv, Watched, Rpc!Abort
  <1>11. Rpc!TypeOK'
    BY <1>4, <1>7, <1>9, <1>10 DEF RpcInv, Rpc!TypeOK, Rpc!Ids
  <1>12. dead \/ Watched'
    <2> SUFFICES ASSUME ~dead PROVE Watched'
      OBVIOUS
    <2>1. Watched
      BY DEF RpcInv
    <2>2. \A i : \A k \in Nat : AnsweredAt(i, k)' <=> AnsweredAt(i, k)
      BY <1>4, Still
    <2>3. outstanding \subseteq Rpc!Ids /\ Rpc!Ids' = Rpc!Ids
      BY DEF RpcInv, Rpc!TypeOK, Rpc!Ids
    <2>4. \A g \in graces', i \in outstanding' : g <= i
      BY <1>4, <1>7, <2>1 DEF Watched
    <2>5. \A i \in outstanding', j \in Rpc!Ids' : \A k \in Nat :
             AnsweredAt(j, k)' /\ i < j => \E l \in Nat : AnsweredAt(i, l)'
      BY <1>4, <2>1, <2>2, <2>3 DEF Watched
    <2> QED
      BY <1>4, <1>5, <1>9, <2>1, <2>3, <2>4, <2>5 DEF Watched
  <1>13. /\ (outstanding \cup graces \subseteq 1..issued /\ closer <= issued)'
         /\ (\A i \in Rpc!Ids : OnTheWay(i) \/ promise[i] # "unsent" => i <= issued)'
         /\ (dead => \A i \in Rpc!Ids : promise[i] = "pending" => i \in Rpc!Late)'
    BY <1>4, <1>5, <1>7, <1>9 DEF RpcInv, Rpc!Ids, Rpc!Late
  <1> QED
    BY <1>4, <1>5, <1>6, <1>11, <1>12, <1>13 DEF RpcInv

\* What the child does: the parent's books are as they were, so what is to be shown is where
\* the requests are.
LEMMA RpcChild ==
    ASSUME RpcInv, UNCHANGED Rpc!parentVars,
           child' \in {child, "gone"}, running' \in 0..MaxCalls, cancelled' \subseteq Rpc!Ids,
           Queues', InOrder', \A i \in Rpc!Ids : OnTheWay(i)' <=> OnTheWay(i),
           \A i \in outstanding, j \in Rpc!Ids : \A k \in Nat :
              ~dead /\ AnsweredAt(j, k)' /\ i < j => \E l \in Nat : AnsweredAt(i, l)'
    PROVE  RpcInv'
PROOF
  <1>1. UNCHANGED <<issued, promise, outstanding, abandoned, deadlines, graces, dead, closing,
                    closer>>
    BY DEF Rpc!parentVars
  <1>2. Rpc!TypeOK'
    BY <1>1 DEF RpcInv, Rpc!TypeOK, Rpc!Ids
  <1>3. dead \/ Watched'
    <2> SUFFICES ASSUME ~dead PROVE Watched'
      OBVIOUS
    <2>1. Watched
      BY DEF RpcInv
    <2>2. outstanding \subseteq Rpc!Ids
      BY DEF RpcInv, Rpc!TypeOK
    <2>3. child' = "up" => child = "up"
      OBVIOUS
    <2> QED
      BY <1>1, <2>1, <2>2, <2>3 DEF Watched, Rpc!Ids
  <1> QED
    BY <1>1, <1>2, <1>3 DEF RpcInv, Rpc!Ids, Rpc!Late

LEMMA RpcReads ==
    ASSUME Rpc!WorkerRpcAssumption, RpcInv, Rpc!ChildReads
    PROVE  RpcInv'
PROOF
  <1>1. /\ toChild # <<>> /\ toChild' = Tail(toChild)
        /\ UNCHANGED <<running, fromChild, child>> /\ UNCHANGED Rpc!parentVars
    BY DEF Rpc!ChildReads
  <1>2. PICK m : m = Head(toChild)
    OBVIOUS
  <1>3. \/ m.kind = "request" /\ chain' = Append(chain, m.id) /\ UNCHANGED cancelled
        \/ m.kind = "cancel" /\ cancelled' = cancelled \cup {m.id} /\ UNCHANGED chain
    BY <1>2, Zenon DEF Rpc!ChildReads
  <1>4. /\ (toChild \in Seq(Messages))' /\ m.id \in Rpc!Ids
        /\ \A i : SentAt(i, 1) <=> m.kind = "request" /\ i = m.id
        /\ \A i : \A k \in Nat : SentAt(i, k)' <=> k # 0 /\ SentAt(i, k + 1)
    BY <1>1, <1>2, MessageRead DEF RpcInv
  <1>5. /\ \A i : \A k \in Nat : AnsweredAt(i, k)' <=> AnsweredAt(i, k)
        /\ (fromChild \in Seq(Rpc!Ids))' /\ Rpc!Ids' = Rpc!Ids
    BY <1>1, Still DEF RpcInv, Queues, Rpc!Ids
  <1>6. InOrder /\ \A i \in Rpc!Ids : i \in Nat \ {0}
    BY DEF RpcInv, Rpc!WorkerRpcAssumption, Rpc!Ids
  <1>7. \A i : ~SentAt(i, 0)
    BY DEF SentAt
  <1>8. /\ (chain \in Seq(Rpc!Ids))' /\ cancelled' \subseteq Rpc!Ids /\ InOrder'
        /\ \A i \in Rpc!Ids : OnTheWay(i)' <=> OnTheWay(i)
    <2>1. CASE m.kind = "request" /\ chain' = Append(chain, m.id) /\ UNCHANGED cancelled
      <3>1. PICK n \in Nat :
              /\ \A i : \A k \in Nat : ReadAt(i, k) => k <= n
              /\ \A i : \A k \in Nat : ReadAt(i, k)' <=> ReadAt(i, k) \/ (k = n + 1 /\ i = m.id)
        BY <1>4, <2>1, RequestQueued DEF RpcInv
      <3>2. (chain \in Seq(Rpc!Ids))'
        BY <1>4, <2>1, RequestQueued DEF RpcInv
      <3>3. InOrder'
        <4>1. \A i : \A k \in Nat : SentAt(i, k)' =>
                                        SentAt(i, k + 1) /\ k + 1 > 1 /\ k + 1 \in Nat
          BY <1>4
        <4>2. SentAt(m.id, 1) /\ m.id \in Nat
          BY <1>4, <1>6, <2>1
        <4>3. ASSUME NEW i \in Rpc!Ids, NEW j \in Rpc!Ids, NEW k \in Nat, NEW l \in Nat
              PROVE  /\ AnsweredAt(i, k)' /\ AnsweredAt(j, l)' /\ k < l => i < j
                     /\ ReadAt(i, k)' /\ ReadAt(j, l)' /\ k < l => i < j
                     /\ SentAt(i, k)' /\ SentAt(j, l)' /\ k < l => i < j
                     /\ AnsweredAt(i, k)' /\ ReadAt(j, l)' => i < j
                     /\ AnsweredAt(i, k)' /\ SentAt(j, l)' => i < j
                     /\ ReadAt(i, k)' /\ SentAt(j, l)' => i < j
          <5>1. AnsweredAt(i, k)' /\ AnsweredAt(j, l)' /\ k < l => i < j
            BY <1>5, <1>6 DEF InOrder
          <5>2. ReadAt(i, k)' /\ ReadAt(j, l)' /\ k < l => i < j
            BY <1>6, <3>1, <4>2 DEF InOrder
          <5>3. SentAt(i, k)' /\ SentAt(j, l)' /\ k < l => i < j
            BY <1>6, <4>1 DEF InOrder
          <5>4. AnsweredAt(i, k)' /\ ReadAt(j, l)' => i < j
            BY <1>5, <1>6, <3>1, <4>2 DEF InOrder
          <5>5. AnsweredAt(i, k)' /\ SentAt(j, l)' => i < j
            BY <1>5, <1>6, <4>1 DEF InOrder
          <5>6. ReadAt(i, k)' /\ SentAt(j, l)' => i < j
            BY <1>4, <1>6, <3>1, <4>1, <4>2 DEF InOrder
          <5> QED
            BY <5>1, <5>2, <5>3, <5>4, <5>5, <5>6
        <4>4. running # 0 => \A i \in Rpc!Ids : \A k \in Nat :
                /\ AnsweredAt(i, k)' => i < running
                /\ ReadAt(i, k)' \/ SentAt(i, k)' => running < i
          BY <1>5, <1>6, <3>1, <4>1, <4>2 DEF InOrder
        <4> QED
          BY <1>1, <1>5, <4>3, <4>4 DEF InOrder
      <3>4. ASSUME NEW i \in Rpc!Ids PROVE OnTheWay(i)' <=> OnTheWay(i)
        <4>1. (\E k \in Nat : SentAt(i, k)) <=> i = m.id \/ \E k \in Nat : SentAt(i, k)'
          <5>1. \A k \in Nat : SentAt(i, k) =>
                                   k = 1 \/ (k # 0 /\ k - 1 \in Nat \ {0} /\ (k - 1) + 1 = k)
            BY <1>7
          <5>2. \A k \in Nat : SentAt(i, k) => k = 1 \/ SentAt(i, k - 1)'
            BY <1>4, <5>1
          <5> QED
            BY <1>4, <2>1, <5>1, <5>2, SMTT(30)
        <4>2. (\E k \in Nat : ReadAt(i, k)') <=> i = m.id \/ \E k \in Nat : ReadAt(i, k)
          BY <3>1
        <4> QED
          BY <1>1, <1>5, <4>1, <4>2 DEF OnTheWay
      <3> QED
        BY <2>1, <3>2, <3>3, <3>4 DEF RpcInv, Rpc!TypeOK
    <2>2. CASE m.kind = "cancel" /\ cancelled' = cancelled \cup {m.id} /\ UNCHANGED chain
      <3>1. \A i : \A k \in Nat : ReadAt(i, k)' <=> ReadAt(i, k)
        BY <2>2, Still
      <3>2. (chain \in Seq(Rpc!Ids))'
        BY <2>2, Still DEF RpcInv, Queues
      <3>3. InOrder'
        BY <1>1, <1>4, <1>5, <1>6, <2>2, <3>1 DEF InOrder
      <3>4. ASSUME NEW i \in Rpc!Ids PROVE OnTheWay(i)' <=> OnTheWay(i)
        <4>1. (\E k \in Nat : SentAt(i, k)) <=> \E k \in Nat : SentAt(i, k)'
          <5>1. \A k \in Nat : SentAt(i, k) =>
                                   k # 1 /\ k # 0 /\ k - 1 \in Nat \ {0} /\ (k - 1) + 1 = k
            BY <1>4, <1>7, <2>2
          <5>2. \A k \in Nat : SentAt(i, k) => SentAt(i, k - 1)'
            BY <1>4, <5>1
          <5> QED
            BY <1>4, <5>1, <5>2
        <4> QED
          BY <1>1, <1>5, <3>1, <4>1 DEF OnTheWay
      <3> QED
        BY <1>4, <2>2, <3>2, <3>3, <3>4 DEF RpcInv, Rpc!TypeOK
    <2> QED
      BY <1>3, <2>1, <2>2
  <1>9. \A i \in outstanding, j \in Rpc!Ids : \A k \in Nat :
              ~dead /\ AnsweredAt(j, k)' /\ i < j => \E l \in Nat : AnsweredAt(i, l)'
    BY <1>5 DEF RpcInv, Watched
  <1>10. running' \in 0..MaxCalls /\ child' \in {child, "gone"}
    BY <1>1 DEF RpcInv, Rpc!TypeOK
  <1> QED
    BY <1>1, <1>4, <1>5, <1>8, <1>9, <1>10, RpcChild DEF Queues

LEMMA RpcStarts ==
    ASSUME Rpc!WorkerRpcAssumption, RpcInv, Rpc!ChildStarts
    PROVE  RpcInv'
PROOF
  <1>1. /\ child = "up" /\ running = 0 /\ chain # <<>> /\ chain' = Tail(chain)
        /\ UNCHANGED toChild /\ UNCHANGED Rpc!parentVars
    BY DEF Rpc!ChildStarts
  <1>2. PICK h : h = Head(chain)
    OBVIOUS
  <1>3. \/ /\ cancelled' \subseteq cancelled /\ fromChild' = Append(fromChild, h)
           /\ running' = running /\ child' \in {child, "gone"}
        \/ /\ running' = h
           /\ UNCHANGED <<cancelled, fromChild, child>>
    BY <1>2 DEF Rpc!ChildStarts
  <1>4. /\ (chain \in Seq(Rpc!Ids))' /\ h \in Rpc!Ids /\ ReadAt(h, 1)
        /\ \A i : ReadAt(i, 1) => i = h
        /\ \A i : \A k \in Nat : ReadAt(i, k)' <=> k # 0 /\ ReadAt(i, k + 1)
    BY <1>1, <1>2, RequestTaken DEF RpcInv
  <1>5. /\ \A i : \A k \in Nat : SentAt(i, k)' <=> SentAt(i, k)
        /\ (toChild \in Seq(Messages))' /\ Rpc!Ids' = Rpc!Ids
    BY <1>1, Still DEF RpcInv, Queues, Rpc!Ids
  <1>6. InOrder /\ \A i \in Rpc!Ids : i \in Nat \ {0}
    BY DEF RpcInv, Rpc!WorkerRpcAssumption, Rpc!Ids
  <1>7. \A i : ~ReadAt(i, 0)
    BY DEF ReadAt
  <1>8. /\ \A i : \A k \in Nat : ReadAt(i, k)' => ReadAt(i, k + 1) /\ k + 1 > 1 /\ k + 1 \in Nat
        /\ \A i \in Rpc!Ids : \A k \in Nat : ReadAt(i, k)' => h < i
        /\ \A i \in Rpc!Ids : \A k \in Nat : SentAt(i, k) => h < i
        /\ \A i \in Rpc!Ids : \A k \in Nat : AnsweredAt(i, k) => i < h
    <2>1. \A i : \A k \in Nat : ReadAt(i, k)' => ReadAt(i, k + 1) /\ k + 1 > 1 /\ k + 1 \in Nat
      BY <1>4
    <2>2. \A i \in Rpc!Ids : \A k \in Nat : ReadAt(i, k)' => h < i
      BY <1>4, <1>6, <2>1 DEF InOrder
    <2>3. \A i \in Rpc!Ids : \A k \in Nat : SentAt(i, k) => h < i
      BY <1>4, <1>6 DEF InOrder
    <2>4. \A i \in Rpc!Ids : \A k \in Nat : AnsweredAt(i, k) => i < h
      BY <1>4, <1>6 DEF InOrder
    <2> QED
      BY <2>1, <2>2, <2>3, <2>4
  <1>9. \A i : (\E k \in Nat : ReadAt(i, k)) <=> i = h \/ \E k \in Nat : ReadAt(i, k)'
    <2> TAKE i
    <2>1. \A k \in Nat : ReadAt(i, k) =>
                             k = 1 \/ (k # 0 /\ k - 1 \in Nat \ {0} /\ (k - 1) + 1 = k)
      BY <1>7
    <2>2. \A k \in Nat : ReadAt(i, k) => k = 1 \/ ReadAt(i, k - 1)'
      BY <1>4, <2>1
    <2> QED
      BY <1>4, <2>1, <2>2
  <1>10. CASE running' = h /\ UNCHANGED <<cancelled, fromChild, child>>
    <2>1. /\ \A i : \A k \in Nat : AnsweredAt(i, k)' <=> AnsweredAt(i, k)
          /\ (fromChild \in Seq(Rpc!Ids))'
      BY <1>10, Still DEF RpcInv, Queues
    <2>2. \A i, j \in Rpc!Ids : \A k, l \in Nat :
                     /\ AnsweredAt(i, k)' /\ AnsweredAt(j, l)' /\ k < l => i < j
                     /\ ReadAt(i, k)' /\ ReadAt(j, l)' /\ k < l => i < j
                     /\ SentAt(i, k)' /\ SentAt(j, l)' /\ k < l => i < j
                     /\ AnsweredAt(i, k)' /\ ReadAt(j, l)' => i < j
                     /\ AnsweredAt(i, k)' /\ SentAt(j, l)' => i < j
                     /\ ReadAt(i, k)' /\ SentAt(j, l)' => i < j
      BY <1>5, <1>6, <1>8, <2>1 DEF InOrder
    <2>3. InOrder'
      BY <1>5, <1>8, <1>10, <2>1, <2>2 DEF InOrder
    <2>4. \A i \in Rpc!Ids : OnTheWay(i)' <=> OnTheWay(i)
      BY <1>1, <1>5, <1>6, <1>9, <1>10, <2>1 DEF OnTheWay
    <2>5. \A i \in outstanding, j \in Rpc!Ids : \A k \in Nat :
              ~dead /\ AnsweredAt(j, k)' /\ i < j => \E l \in Nat : AnsweredAt(i, l)'
      BY <2>1 DEF RpcInv, Watched
    <2>6. /\ running' \in 0..MaxCalls /\ child' \in {child, "gone"}
                 /\ cancelled' \subseteq Rpc!Ids
      BY <1>4, <1>10 DEF RpcInv, Rpc!TypeOK, Rpc!Ids, Rpc!WorkerRpcAssumption
    <2> QED
      BY <1>1, <1>4, <1>5, <2>1, <2>3, <2>4, <2>5, <2>6, RpcChild DEF Queues
  <1>11. CASE /\ cancelled' \subseteq cancelled /\ fromChild' = Append(fromChild, h)
              /\ running' = running /\ child' \in {child, "gone"}
    <2>1. PICK n \in Nat :
              /\ \A i : \A k \in Nat : AnsweredAt(i, k) => k <= n
              /\ \A i : \A k \in Nat : AnsweredAt(i, k)' <=>
                                           AnsweredAt(i, k) \/ (k = n + 1 /\ i = h)
      BY <1>4, <1>11, ReplySent DEF RpcInv
    <2>2. (fromChild \in Seq(Rpc!Ids))'
      BY <1>4, <1>11, ReplySent DEF RpcInv
    <2>3. \A i, j \in Rpc!Ids : \A k, l \in Nat :
                     /\ AnsweredAt(i, k)' /\ AnsweredAt(j, l)' /\ k < l => i < j
                     /\ ReadAt(i, k)' /\ ReadAt(j, l)' /\ k < l => i < j
                     /\ SentAt(i, k)' /\ SentAt(j, l)' /\ k < l => i < j
                     /\ AnsweredAt(i, k)' /\ ReadAt(j, l)' => i < j
                     /\ AnsweredAt(i, k)' /\ SentAt(j, l)' => i < j
                     /\ ReadAt(i, k)' /\ SentAt(j, l)' => i < j
      <3> SUFFICES ASSUME NEW i \in Rpc!Ids, NEW j \in Rpc!Ids, NEW k \in Nat, NEW l \in Nat
                   PROVE  /\ AnsweredAt(i, k)' /\ AnsweredAt(j, l)' /\ k < l => i < j
                          /\ ReadAt(i, k)' /\ ReadAt(j, l)' /\ k < l => i < j
                          /\ SentAt(i, k)' /\ SentAt(j, l)' /\ k < l => i < j
                          /\ AnsweredAt(i, k)' /\ ReadAt(j, l)' => i < j
                          /\ AnsweredAt(i, k)' /\ SentAt(j, l)' => i < j
                          /\ ReadAt(i, k)' /\ SentAt(j, l)' => i < j
        OBVIOUS
      <3>1. AnsweredAt(i, k)' /\ AnsweredAt(j, l)' /\ k < l => i < j
        BY <1>6, <1>8, <2>1 DEF InOrder
      <3>2. ReadAt(i, k)' /\ ReadAt(j, l)' /\ k < l => i < j
        BY <1>6, <1>8 DEF InOrder
      <3>3. SentAt(i, k)' /\ SentAt(j, l)' /\ k < l => i < j
        BY <1>5, <1>6 DEF InOrder
      <3>4. AnsweredAt(i, k)' /\ ReadAt(j, l)' => i < j
        BY <1>6, <1>8, <2>1 DEF InOrder
      <3>5. AnsweredAt(i, k)' /\ SentAt(j, l)' => i < j
        BY <1>5, <1>6, <1>8, <2>1 DEF InOrder
      <3>6. ReadAt(i, k)' /\ SentAt(j, l)' => i < j
        BY <1>5, <1>6, <1>8 DEF InOrder
      <3> QED
        BY <3>1, <3>2, <3>3, <3>4, <3>5, <3>6
    <2>4. InOrder'
      BY <1>1, <1>5, <1>11, <2>3 DEF InOrder
    <2>5. \A i \in Rpc!Ids : OnTheWay(i)' <=> OnTheWay(i)
      <3> TAKE i \in Rpc!Ids
      <3>1. (\E k \in Nat : AnsweredAt(i, k)') <=> i = h \/ \E k \in Nat : AnsweredAt(i, k)
        BY <2>1
      <3> QED
        BY <1>5, <1>9, <1>11, <3>1 DEF OnTheWay
    <2>6. \A i \in outstanding, j \in Rpc!Ids : \A k \in Nat :
              ~dead /\ AnsweredAt(j, k)' /\ i < j => \E l \in Nat : AnsweredAt(i, l)'
      <3> SUFFICES ASSUME NEW i \in outstanding, NEW j \in Rpc!Ids, NEW k \in Nat,
                          ~dead, AnsweredAt(j, k)', i < j
                   PROVE  \E l \in Nat : AnsweredAt(i, l)
        BY <2>1
      <3>1. Watched /\ i \in Rpc!Ids
        BY DEF RpcInv, Rpc!TypeOK
      <3>2. CASE AnsweredAt(j, k)
        BY <3>1, <3>2 DEF Watched
      <3>3. CASE j = h
        <4>1. OnTheWay(i)
          BY <1>1, <3>1 DEF Watched
        <4>2. \A l \in Nat : ~SentAt(i, l)
          BY <1>6, <1>8, <3>1, <3>3
        <4>3. \A l \in Nat : ~ReadAt(i, l)'
          BY <1>6, <1>8, <3>1, <3>3
        <4>4. i # running /\ i # h
          BY <1>1, <1>6, <3>1, <3>3
        <4>5. \A l \in Nat : ~ReadAt(i, l)
          BY <1>9, <4>3, <4>4
        <4> QED
          BY <4>1, <4>2, <4>4, <4>5 DEF OnTheWay
      <3> QED
        BY <2>1, <3>2, <3>3
    <2>7. /\ running' \in 0..MaxCalls /\ child' \in {child, "gone"}
                 /\ cancelled' \subseteq Rpc!Ids
      BY <1>11 DEF RpcInv, Rpc!TypeOK
    <2> QED
      BY <1>1, <1>4, <1>5, <2>2, <2>4, <2>5, <2>6, <2>7, RpcChild DEF Queues
  <1> QED
    BY <1>3, <1>10, <1>11

LEMMA RpcAnswers ==
    ASSUME Rpc!WorkerRpcAssumption, RpcInv, Rpc!ChildAnswers
    PROVE  RpcInv'
PROOF
  <1>1. /\ child = "up" /\ running # 0 /\ fromChild' = Append(fromChild, running)
        /\ running' = 0 /\ cancelled' = cancelled \ {running}
        /\ UNCHANGED <<toChild, chain, child>> /\ UNCHANGED Rpc!parentVars
    BY DEF Rpc!ChildAnswers
  <1>2. running \in Rpc!Ids
    BY <1>1 DEF RpcInv, Rpc!TypeOK, Rpc!Ids, Rpc!WorkerRpcAssumption
  <1>3. InOrder /\ \A i \in Rpc!Ids : i \in Nat \ {0}
    BY DEF RpcInv, Rpc!WorkerRpcAssumption, Rpc!Ids
  <1>4. /\ \A i : \A k \in Nat : SentAt(i, k)' <=> SentAt(i, k)
        /\ \A i : \A k \in Nat : ReadAt(i, k)' <=> ReadAt(i, k)
        /\ (toChild \in Seq(Messages))' /\ (chain \in Seq(Rpc!Ids))' /\ Rpc!Ids' = Rpc!Ids
    BY <1>1, Still DEF RpcInv, Queues, Rpc!Ids
  <1>5. PICK n \in Nat :
            /\ \A i : \A k \in Nat : AnsweredAt(i, k) => k <= n
            /\ \A i : \A k \in Nat : AnsweredAt(i, k)' <=>
                                         AnsweredAt(i, k) \/ (k = n + 1 /\ i = running)
    BY <1>1, <1>2, ReplySent DEF RpcInv
  <1>6. (fromChild \in Seq(Rpc!Ids))'
    BY <1>1, <1>2, ReplySent DEF RpcInv
  <1>7. \A i \in Rpc!Ids : \A k \in Nat :
          /\ AnsweredAt(i, k) => i < running
          /\ ReadAt(i, k) \/ SentAt(i, k) => running < i
    BY <1>1, <1>3 DEF InOrder
  <1>8. \A i, j \in Rpc!Ids : \A k, l \in Nat :
                     /\ AnsweredAt(i, k)' /\ AnsweredAt(j, l)' /\ k < l => i < j
                     /\ ReadAt(i, k)' /\ ReadAt(j, l)' /\ k < l => i < j
                     /\ SentAt(i, k)' /\ SentAt(j, l)' /\ k < l => i < j
                     /\ AnsweredAt(i, k)' /\ ReadAt(j, l)' => i < j
                     /\ AnsweredAt(i, k)' /\ SentAt(j, l)' => i < j
                     /\ ReadAt(i, k)' /\ SentAt(j, l)' => i < j
    <2> SUFFICES ASSUME NEW i \in Rpc!Ids, NEW j \in Rpc!Ids, NEW k \in Nat, NEW l \in Nat
                 PROVE  /\ AnsweredAt(i, k)' /\ AnsweredAt(j, l)' /\ k < l => i < j
                        /\ ReadAt(i, k)' /\ ReadAt(j, l)' /\ k < l => i < j
                        /\ SentAt(i, k)' /\ SentAt(j, l)' /\ k < l => i < j
                        /\ AnsweredAt(i, k)' /\ ReadAt(j, l)' => i < j
                        /\ AnsweredAt(i, k)' /\ SentAt(j, l)' => i < j
                        /\ ReadAt(i, k)' /\ SentAt(j, l)' => i < j
      OBVIOUS
    <2>1. AnsweredAt(i, k)' /\ AnsweredAt(j, l)' /\ k < l => i < j
      BY <1>2, <1>3, <1>5, <1>7 DEF InOrder
    <2>2. AnsweredAt(i, k)' /\ ReadAt(j, l)' => i < j
      BY <1>2, <1>3, <1>4, <1>5, <1>7 DEF InOrder
    <2>3. AnsweredAt(i, k)' /\ SentAt(j, l)' => i < j
      BY <1>2, <1>3, <1>4, <1>5, <1>7 DEF InOrder
    <2> QED
      BY <1>3, <1>4, <2>1, <2>2, <2>3 DEF InOrder
  <1>9. InOrder'
    BY <1>1, <1>4, <1>8 DEF InOrder
  <1>10. \A i \in Rpc!Ids : OnTheWay(i)' <=> OnTheWay(i)
    <2> TAKE i \in Rpc!Ids
    <2>1. (\E k \in Nat : AnsweredAt(i, k)') <=> i = running \/ \E k \in Nat : AnsweredAt(i, k)
      BY <1>5
    <2> QED
      BY <1>1, <1>3, <1>4, <2>1 DEF OnTheWay
  <1>11. \A i \in outstanding, j \in Rpc!Ids : \A k \in Nat :
              ~dead /\ AnsweredAt(j, k)' /\ i < j => \E l \in Nat : AnsweredAt(i, l)'
    <2> SUFFICES ASSUME NEW i \in outstanding, NEW j \in Rpc!Ids, NEW k \in Nat,
                        ~dead, AnsweredAt(j, k)', i < j
                 PROVE  \E l \in Nat : AnsweredAt(i, l)
      BY <1>5
    <2>1. Watched /\ i \in Rpc!Ids
      BY DEF RpcInv, Rpc!TypeOK
    <2>2. CASE AnsweredAt(j, k)
      BY <2>1, <2>2 DEF Watched
    <2>3. CASE j = running
      <3>1. OnTheWay(i)
        BY <1>1, <2>1 DEF Watched
      <3>2. \A l \in Nat : ~SentAt(i, l) /\ ~ReadAt(i, l)
        BY <1>3, <1>7, <2>1, <2>3
      <3>3. i # running
        BY <1>3, <2>1, <2>3
      <3> QED
        BY <3>1, <3>2, <3>3 DEF OnTheWay
    <2> QED
      BY <1>5, <2>2, <2>3
  <1>12. /\ running' \in 0..MaxCalls /\ child' \in {child, "gone"} /\ cancelled' \subseteq Rpc!Ids
    BY <1>1 DEF RpcInv, Rpc!TypeOK, Rpc!WorkerRpcAssumption
  <1> QED
    BY <1>1, <1>4, <1>6, <1>9, <1>10, <1>11, <1>12, RpcChild DEF Queues

LEMMA RpcDies ==
    ASSUME RpcInv, Rpc!ChildDies
    PROVE  RpcInv'
PROOF
  <1>1. /\ child' = "gone" /\ UNCHANGED <<toChild, chain, running, cancelled, fromChild>>
        /\ UNCHANGED Rpc!parentVars
    BY DEF Rpc!ChildDies, Rpc!childVars
  <1>2. InOrder' /\ (\A i \in Rpc!Ids : OnTheWay(i)' <=> OnTheWay(i)) /\ Queues'
        /\ \A i : \A k \in Nat : AnsweredAt(i, k)' <=> AnsweredAt(i, k)
    BY <1>1, Still, RpcOrder DEF RpcInv, Queues
  <1>3. \A i \in outstanding, j \in Rpc!Ids : \A k \in Nat :
              ~dead /\ AnsweredAt(j, k)' /\ i < j => \E l \in Nat : AnsweredAt(i, l)'
    BY <1>2 DEF RpcInv, Watched
  <1>4. /\ running' \in 0..MaxCalls /\ child' \in {child, "gone"} /\ cancelled' \subseteq Rpc!Ids
    BY <1>1 DEF RpcInv, Rpc!TypeOK
  <1> QED
    BY <1>1, <1>2, <1>3, <1>4, RpcChild

LEMMA RpcReply ==
    ASSUME Rpc!WorkerRpcAssumption, RpcInv, Rpc!ReplyArrives
    PROVE  RpcInv'
PROOF
  <1>1. /\ fromChild # <<>> /\ fromChild' = Tail(fromChild)
        /\ UNCHANGED <<issued, closer, toChild, chain, running, cancelled, child>>
    BY DEF Rpc!ReplyArrives, Rpc!childVars
  <1>2. PICK h : h = Head(fromChild)
    OBVIOUS
  <1>3. /\ deadlines' = deadlines \ {h} /\ outstanding' = outstanding \ {h}
        /\ abandoned' = abandoned \ {h}
        /\ graces' = Rpc!Armed(outstanding', abandoned', graces \ {h})
        /\ promise' = IF promise[h] = "pending" THEN [promise EXCEPT ![h] = "answered"]
                      ELSE promise
        /\ IF h = closer /\ promise[h] = "pending"
           THEN closing' = "over" /\ dead' = TRUE
           ELSE UNCHANGED <<closing, dead>>
    BY <1>2, Zenon DEF Rpc!ReplyArrives
  <1>4. /\ (fromChild \in Seq(Rpc!Ids))' /\ h \in Rpc!Ids /\ AnsweredAt(h, 1)
        /\ \A i : AnsweredAt(i, 1) => i = h
        /\ \A i : \A k \in Nat : AnsweredAt(i, k)' <=> k # 0 /\ AnsweredAt(i, k + 1)
    BY <1>1, <1>2, ReplyTaken DEF RpcInv
  <1>5. /\ \A i : \A k \in Nat : SentAt(i, k)' <=> SentAt(i, k)
        /\ \A i : \A k \in Nat : ReadAt(i, k)' <=> ReadAt(i, k)
        /\ (toChild \in Seq(Messages))' /\ (chain \in Seq(Rpc!Ids))' /\ Rpc!Ids' = Rpc!Ids
    BY <1>1, Still DEF RpcInv, Queues, Rpc!Ids
  <1>6. InOrder /\ \A i \in Rpc!Ids : i \in Nat \ {0}
    BY DEF RpcInv, Rpc!WorkerRpcAssumption, Rpc!Ids
  <1>7. \A i : ~AnsweredAt(i, 0)
    BY DEF AnsweredAt
  <1>8. \A i : \A k \in Nat : AnsweredAt(i, k)' =>
                                  AnsweredAt(i, k + 1) /\ k + 1 > 1 /\ k + 1 \in Nat
    BY <1>4
  <1>9. \A i : \A k \in Nat : AnsweredAt(i, k) =>
                                  i = h \/ (k - 1 \in Nat /\ AnsweredAt(i, k - 1)')
    <2> TAKE i
    <2>1. \A k \in Nat : AnsweredAt(i, k) =>
                             k = 1 \/ (k # 0 /\ k - 1 \in Nat \ {0} /\ (k - 1) + 1 = k)
      BY <1>7
    <2> QED
      BY <1>4, <2>1
  <1>10. \A i \in Rpc!Ids : \A k \in Nat :
           /\ AnsweredAt(i, k)' => h < i
           /\ SentAt(i, k) => h < i
           /\ ReadAt(i, k) => h < i
    BY <1>4, <1>6, <1>8 DEF InOrder
  <1>11. running # 0 => h < running
    BY <1>4, <1>6 DEF InOrder
  <1>12. InOrder'
    <2>1. \A i, j \in Rpc!Ids : \A k, l \in Nat :
                     /\ AnsweredAt(i, k)' /\ AnsweredAt(j, l)' /\ k < l => i < j
                     /\ ReadAt(i, k)' /\ ReadAt(j, l)' /\ k < l => i < j
                     /\ SentAt(i, k)' /\ SentAt(j, l)' /\ k < l => i < j
                     /\ AnsweredAt(i, k)' /\ ReadAt(j, l)' => i < j
                     /\ AnsweredAt(i, k)' /\ SentAt(j, l)' => i < j
                     /\ ReadAt(i, k)' /\ SentAt(j, l)' => i < j
      BY <1>5, <1>6, <1>8 DEF InOrder
    <2>2. running # 0 => \A i \in Rpc!Ids : \A k \in Nat :
            /\ AnsweredAt(i, k)' => i < running
            /\ ReadAt(i, k)' \/ SentAt(i, k)' => running < i
      BY <1>5, <1>6, <1>8 DEF InOrder
    <2> QED
      BY <1>1, <1>5, <2>1, <2>2 DEF InOrder
  <1>13. \A i \in Rpc!Ids : OnTheWay(i) <=> i = h \/ OnTheWay(i)'
    BY <1>1, <1>4, <1>5, <1>8, <1>9 DEF OnTheWay
  <1>14. ~OnTheWay(h)'
    BY <1>1, <1>4, <1>5, <1>6, <1>10, <1>11 DEF OnTheWay
  <1>15. /\ graces' \subseteq graces \cup outstanding'
         /\ \A g \in graces' : g \in graces \/ \A i \in outstanding' : g <= i
    <2>1. outstanding' \subseteq Rpc!Ids /\ graces \ {h} \subseteq Rpc!Ids
      BY <1>3 DEF RpcInv, Rpc!TypeOK
    <2> QED
      BY <1>3, <2>1, OldestIs
  <1>16. /\ promise \in [Rpc!Ids -> {"unsent", "pending", "answered", "aborted", "failed"}]
         /\ promise' \in [Rpc!Ids -> {"unsent", "pending", "answered", "aborted", "failed"}]
         /\ promise'[h] # "pending"
         /\ \A i \in Rpc!Ids : i # h => promise'[i] = promise[i]
         /\ promise'[h] # "unsent" => promise[h] # "unsent"
    <2>1. promise \in [Rpc!Ids -> {"unsent", "pending", "answered", "aborted", "failed"}]
      BY DEF RpcInv, Rpc!TypeOK
    <2>2. CASE promise[h] = "pending"
      BY <1>3, <1>4, <2>1, <2>2
    <2>3. CASE promise[h] # "pending"
      BY <1>3, <1>4, <2>1, <2>3
    <2> QED
      BY <2>2, <2>3
  <1>17. Rpc!TypeOK'
    <2>1. dead' \in BOOLEAN /\ closing' \in {"no", "asked", "over", "closed"} /\ (dead => dead')
      BY <1>3 DEF RpcInv, Rpc!TypeOK
    <2>2. /\ abandoned' \subseteq outstanding' \cup {i \in Rpc!Ids : dead'}
          /\ outstanding' \subseteq Rpc!Ids /\ deadlines' \subseteq Rpc!Ids
                 /\ graces' \subseteq Rpc!Ids
      BY <1>3, <1>15, <2>1 DEF RpcInv, Rpc!TypeOK
    <2> QED
      BY <1>1, <1>16, <2>1, <2>2 DEF RpcInv, Rpc!TypeOK, Rpc!Ids
  <1>18. dead' \/ Watched'
    <2> SUFFICES ASSUME ~dead PROVE Watched'
      BY <1>3
    <2>1. Watched /\ outstanding \subseteq Rpc!Ids
      BY DEF RpcInv, Rpc!TypeOK
    <2>2. \A g \in graces', i \in outstanding' : g <= i
      BY <1>3, <1>15, <2>1 DEF Watched
    <2>3. \A i \in outstanding', j \in Rpc!Ids : \A k \in Nat :
             AnsweredAt(j, k)' /\ i < j => \E l \in Nat : AnsweredAt(i, l)'
      <3> SUFFICES ASSUME NEW i \in outstanding', NEW j \in Rpc!Ids, NEW k \in Nat,
                          AnsweredAt(j, k)', i < j
                   PROVE  \E l \in Nat : AnsweredAt(i, l)'
        OBVIOUS
      <3>1. i \in outstanding /\ i # h /\ k + 1 \in Nat /\ AnsweredAt(j, k + 1)
        BY <1>3, <1>8
      <3>2. PICK l \in Nat : AnsweredAt(i, l)
        BY <2>1, <3>1 DEF Watched
      <3> QED
        BY <1>9, <3>1, <3>2
    <2>4. /\ outstanding' \subseteq deadlines'
          /\ \A i \in Rpc!Ids : promise'[i] = "pending" => i \in outstanding'
          /\ \A i \in Rpc!Ids : OnTheWay(i)' => i \in outstanding'
          /\ child' = "up" => \A i \in outstanding' : OnTheWay(i)'
      BY <1>1, <1>3, <1>4, <1>13, <1>14, <1>16, <2>1 DEF Watched
    <2> QED
      BY <1>5, <2>2, <2>3, <2>4 DEF Watched
  <1>19. dead' => \A i \in Rpc!Ids : promise'[i] = "pending" => i \in Rpc!Late'
    <2> SUFFICES ASSUME dead', NEW i \in Rpc!Ids, promise'[i] = "pending"
                 PROVE  closer # 0 /\ i > closer
      BY <1>1, <1>5 DEF Rpc!Late
    <2>1. promise[i] = "pending" /\ i # h
      BY <1>16
    <2>2. CASE dead
      BY <2>1, <2>2 DEF RpcInv, Rpc!Late
    <2>3. CASE ~dead
      <3>1. h = closer
        BY <1>3, <2>3
      <3>2. Watched /\ i \in outstanding
        BY <2>1, <2>3 DEF RpcInv, Watched
      <3>3. ~(i < h)
        <4> SUFFICES ASSUME i < h PROVE FALSE
          OBVIOUS
        <4>1. PICK l \in Nat : AnsweredAt(i, l)
          BY <1>4, <3>2 DEF Watched
        <4>2. AnsweredAt(i, l - 1)' /\ l - 1 \in Nat
          BY <1>9, <2>1, <4>1
        <4>3. h < i
          BY <1>10, <4>2
        <4> QED
          BY <1>4, <1>6, <4>3
      <3> QED
        BY <1>4, <1>6, <2>1, <3>1, <3>3
    <2> QED
      BY <2>2, <2>3
  <1>20. /\ (outstanding \cup graces \subseteq 1..issued /\ closer <= issued)'
         /\ (\A i \in Rpc!Ids : OnTheWay(i) \/ promise[i] # "unsent" => i <= issued)'
    <2>1. (outstanding \cup graces \subseteq 1..issued /\ closer <= issued)'
      BY <1>1, <1>3, <1>15 DEF RpcInv
    <2>2. \A i \in Rpc!Ids : OnTheWay(i)' \/ promise'[i] # "unsent" => i <= issued
      BY <1>13, <1>16 DEF RpcInv
    <2> QED
      BY <1>1, <1>5, <2>1, <2>2
  <1> QED
    BY <1>4, <1>5, <1>12, <1>17, <1>18, <1>19, <1>20 DEF RpcInv, Queues

\* The end of the worker: no timer, no request, and nothing pending but what is late.
LEMMA RpcFails ==
    ASSUME Rpc!WorkerRpcAssumption, RpcInv, Rpc!Fail,
           UNCHANGED <<toChild, chain, running, cancelled, fromChild>>,
           child' \in {"up", "gone", "seen"}
    PROVE  RpcInv'
PROOF
  <1>1. InOrder' /\ (\A i \in Rpc!Ids : OnTheWay(i)' <=> OnTheWay(i)) /\ Queues'
    BY Still, RpcOrder DEF RpcInv, Queues
  <1>2. /\ deadlines' = {} /\ graces' = {} /\ outstanding' = {} /\ abandoned' = {} /\ dead'
        /\ closing' \in {closing, "over"} /\ UNCHANGED <<issued, closer>>
    BY DEF Rpc!Fail
  <1>3. /\ promise' \in [Rpc!Ids -> {"unsent", "pending", "answered", "aborted", "failed"}]
        /\ \A i \in Rpc!Ids : promise'[i] # "unsent" => promise[i] # "unsent"
        /\ \A i \in Rpc!Ids : promise'[i] = "pending" => promise[i] = "pending" /\ dead
    <2>1. promise \in [Rpc!Ids -> {"unsent", "pending", "answered", "aborted", "failed"}]
      BY DEF RpcInv, Rpc!TypeOK
    <2>2. CASE dead
      BY <2>1, <2>2 DEF Rpc!Fail
    <2>3. CASE ~dead
      <3>1. promise' = [i \in Rpc!Ids |-> IF promise[i] = "pending" THEN "failed" ELSE promise[i]]
        BY <2>3 DEF Rpc!Fail
      <3> QED
        BY <2>1, <3>1
    <2> QED
      BY <2>2, <2>3
  <1>4. Rpc!TypeOK'
    BY <1>2, <1>3 DEF RpcInv, Rpc!TypeOK, Rpc!Ids
  <1>5. \A i \in Rpc!Ids : promise'[i] = "pending" => i \in Rpc!Late'
    BY <1>2, <1>3 DEF RpcInv, Rpc!Late, Rpc!Ids
  <1>6. Rpc!Ids' = Rpc!Ids
    BY DEF Rpc!Ids
  <1> QED
    BY <1>1, <1>2, <1>3, <1>4, <1>5, <1>6 DEF RpcInv

\* A timer of a worker that is given up already, and the end of close().
LEMMA RpcLate ==
    ASSUME RpcInv, dead \/ (UNCHANGED <<deadlines, graces>> /\ child' \in {child, "gone"}),
           deadlines' \subseteq deadlines, graces' \subseteq graces,
           closing' \in {closing, "closed"}, child' \in {child, "gone"},
           UNCHANGED <<issued, promise, outstanding, abandoned, dead, closer>>,
           UNCHANGED <<toChild, chain, running, cancelled, fromChild>>
    PROVE  RpcInv'
PROOF
  <1>1. /\ InOrder' /\ (\A i \in Rpc!Ids : OnTheWay(i)' <=> OnTheWay(i)) /\ Queues'
        /\ \A i : \A k \in Nat : AnsweredAt(i, k)' <=> AnsweredAt(i, k)
    BY Still, RpcOrder DEF RpcInv, Queues
  <1>2. Rpc!TypeOK' /\ Rpc!Ids' = Rpc!Ids /\ outstanding \subseteq Rpc!Ids
    BY DEF RpcInv, Rpc!TypeOK, Rpc!Ids
  <1>3. dead \/ Watched'
    <2> SUFFICES ASSUME ~dead PROVE Watched'
      OBVIOUS
    <2>1. Watched
      BY DEF RpcInv
    <2>2. child' = "up" => child = "up"
      OBVIOUS
    <2> QED
      BY <1>1, <1>2, <2>1, <2>2 DEF Watched
  <1> QED
    BY <1>1, <1>2, <1>3 DEF RpcInv, Rpc!Late

LEMMA RpcStep ==
    ASSUME Rpc!WorkerRpcAssumption
    PROVE  RpcInv /\ [Rpc!Next]_Rpc!vars => RpcInv'
PROOF
  <1> SUFFICES ASSUME RpcInv, [Rpc!Next]_Rpc!vars PROVE RpcInv'
    OBVIOUS
  <1>1. CASE Rpc!Call
    BY <1>1, RpcIssues DEF Rpc!Call
  <1>2. CASE Rpc!Close
    BY <1>2, RpcIssues DEF Rpc!Close
  <1>3. ASSUME NEW i \in Rpc!Ids, Rpc!Abort(i) PROVE RpcInv'
    BY <1>3, RpcAborts
  <1>4. CASE Rpc!ChildReads
    BY <1>4, RpcReads
  <1>5. CASE Rpc!ChildStarts
    BY <1>5, RpcStarts
  <1>6. CASE Rpc!ChildAnswers
    BY <1>6, RpcAnswers
  <1>7. CASE Rpc!ChildDies
    BY <1>7, RpcDies
  <1>8. CASE Rpc!ReplyArrives
    BY <1>8, RpcReply
  <1>9. CASE Rpc!ExitSeen
    <2>1. Rpc!Fail /\ child' = "seen"
              /\ UNCHANGED <<toChild, chain, running, cancelled, fromChild>>
      BY <1>9 DEF Rpc!ExitSeen, Rpc!childVars
    <2> QED
      BY <2>1, RpcFails
  <1>10. ASSUME NEW i \in Rpc!Ids, Rpc!TimerFires(i) PROVE RpcInv'
    <2>1. UNCHANGED <<toChild, chain, running, cancelled, fromChild>>
      BY <1>10 DEF Rpc!TimerFires, Rpc!childVars
    <2>2. CASE dead
      <3>1. /\ deadlines' \subseteq deadlines /\ graces' \subseteq graces
            /\ UNCHANGED <<issued, promise, outstanding, abandoned, dead, closing, closer, child>>
        BY <1>10, <2>2 DEF Rpc!TimerFires
      <3> QED
        BY <2>1, <2>2, <3>1, RpcLate
    <2>3. CASE ~dead
      <3>1. Rpc!Fail /\ child' = IF child = "up" THEN "gone" ELSE child
        BY <1>10, <2>3 DEF Rpc!TimerFires
      <3>2. child' \in {"up", "gone", "seen"}
        BY <3>1 DEF RpcInv, Rpc!TypeOK
      <3> QED
        BY <2>1, <3>1, <3>2, RpcFails
    <2> QED
      BY <2>2, <2>3
  <1>11. CASE Rpc!Closed
    <2>1. /\ closing' = "closed" /\ child' \in {child, "gone"}
          /\ UNCHANGED <<issued, promise, outstanding, abandoned, deadlines, graces, dead,
               closer>>
          /\ UNCHANGED <<toChild, chain, running, cancelled, fromChild>>
      BY <1>11 DEF Rpc!Closed, Rpc!childVars
    <2> QED
      BY <2>1, RpcLate
  <1>12. CASE UNCHANGED Rpc!vars
    <2>1. UNCHANGED <<issued, promise, outstanding, abandoned, deadlines, graces, dead, closing,
                      closer>>
          /\ UNCHANGED <<toChild, chain, running, cancelled, fromChild, child>>
      BY <1>12 DEF Rpc!vars
    <2> QED
      BY <2>1, RpcLate
  <1> QED
    BY <1>1, <1>2, <1>3, <1>4, <1>5, <1>6, <1>7, <1>8, <1>9, <1>10, <1>11, <1>12
       DEF Rpc!Next, Rpc!SomeTimer

\* Where the requests are is what the model calls in the child.
LEMMA InChildIs ==
    ASSUME RpcInv, NEW i \in Rpc!Ids
    PROVE  i \in Rpc!InChild <=> OnTheWay(i)
PROOF
  <1>1. /\ DOMAIN toChild = 1..Len(toChild) /\ Len(toChild) \in Nat
        /\ DOMAIN chain = 1..Len(chain) /\ Len(chain) \in Nat
        /\ DOMAIN fromChild = 1..Len(fromChild) /\ Len(fromChild) \in Nat
    BY LenProperties DEF RpcInv, Queues
  <1>2. (\E k \in Nat : SentAt(i, k)) <=>
             \E k \in DOMAIN toChild : toChild[k].kind = "request" /\ toChild[k].id = i
    BY <1>1 DEF SentAt
  <1>3. (\E k \in Nat : ReadAt(i, k)) <=> \E k \in DOMAIN chain : chain[k] = i
    BY <1>1 DEF ReadAt
  <1>4. (\E k \in Nat : AnsweredAt(i, k)) <=> \E k \in DOMAIN fromChild : fromChild[k] = i
    BY <1>1 DEF AnsweredAt
  <1>5. /\ i \in {toChild[k].id : k \in {n \in DOMAIN toChild : toChild[n].kind = "request"}} <=>
             \E k \in DOMAIN toChild : toChild[k].kind = "request" /\ toChild[k].id = i
        /\ i \in {chain[k] : k \in DOMAIN chain} <=> \E k \in DOMAIN chain : chain[k] = i
        /\ i \in {fromChild[k] : k \in DOMAIN fromChild} <=>
               \E k \in DOMAIN fromChild : fromChild[k] = i
    OBVIOUS
  <1> QED
    BY <1>2, <1>3, <1>4, <1>5 DEF OnTheWay, Rpc!InChild

LEMMA RpcSafety ==
    ASSUME Rpc!WorkerRpcAssumption
    PROVE  RpcInv => Rpc!TypeOK /\ Rpc!GraceIsTheHeads /\ Rpc!StuckIsNoticed /\ Rpc!NoneLeftBehind
PROOF
  <1> SUFFICES ASSUME RpcInv PROVE Rpc!GraceIsTheHeads /\ Rpc!StuckIsNoticed /\ Rpc!NoneLeftBehind
    BY DEF RpcInv
  <1>1. Rpc!GraceIsTheHeads
    <2> SUFFICES ASSUME ~dead, NEW g \in graces, NEW i \in Rpc!Ids, i < g, i \in Rpc!InChild
                 PROVE  FALSE
      BY DEF Rpc!GraceIsTheHeads
    <2>1. g <= i
      BY InChildIs DEF RpcInv, Watched
    <2>2. g \in Int /\ i \in Int
      BY DEF RpcInv, Rpc!TypeOK, Rpc!Ids, Rpc!WorkerRpcAssumption
    <2> QED
      BY <2>1, <2>2
  <1>2. Rpc!StuckIsNoticed
    <2> SUFFICES ASSUME ~dead
                 PROVE  /\ outstanding \subseteq deadlines
                        /\ child = "up" => outstanding = Rpc!InChild
      BY DEF Rpc!StuckIsNoticed
    <2>1. Watched
      BY DEF RpcInv
    <2>2. Rpc!InChild \subseteq Rpc!Ids
      <3>1. \A k \in DOMAIN toChild : toChild[k] \in Messages
        BY ElementOfSeq, LenProperties DEF RpcInv, Queues
      <3>2. \A m \in Messages : m.id \in Rpc!Ids
        BY DEF Messages
      <3>3. (\A k \in DOMAIN chain : chain[k] \in Rpc!Ids)
                 /\ \A k \in DOMAIN fromChild : fromChild[k] \in Rpc!Ids
        BY ElementOfSeq, LenProperties DEF RpcInv, Queues
      <3> QED
        BY <3>1, <3>2, <3>3 DEF Rpc!InChild
    <2>3. \A i \in Rpc!Ids : i \in Rpc!InChild <=> OnTheWay(i)
      BY InChildIs
    <2> QED
      BY <2>1, <2>2, <2>3 DEF Watched, RpcInv, Rpc!TypeOK
  <1>3. Rpc!NoneLeftBehind
    BY DEF RpcInv, Rpc!NoneLeftBehind
  <1> QED
    BY <1>1, <1>2, <1>3

\* The request layer: a grace runs only for the request the child is on, a child that is stuck
\* is found out, and no request outlives its worker but those issued after close().
THEOREM CallsWatched ==
    ASSUME Rpc!WorkerRpcAssumption
    PROVE  Rpc!Spec =>
               [](Rpc!TypeOK /\ Rpc!GraceIsTheHeads /\ Rpc!StuckIsNoticed /\ Rpc!NoneLeftBehind)
PROOF
  <1>1. Rpc!Init => RpcInv
    BY RpcInit
  <1>2. RpcInv /\ [Rpc!Next]_Rpc!vars => RpcInv'
    BY RpcStep
  <1>3. RpcInv => Rpc!TypeOK /\ Rpc!GraceIsTheHeads /\ Rpc!StuckIsNoticed /\ Rpc!NoneLeftBehind
    BY RpcSafety
  <1> QED
    BY <1>1, <1>2, <1>3, PTL DEF Rpc!Spec

-----------------------------------------------------------------------------
(***************************************************************************)
(* LateWindow.                                                             *)
(***************************************************************************)
\* T holds the newest blocks of S, however many.
TopOf(T, S) == T \subseteq S /\ \A b \in S \ T, c \in T : b < c

\* A window with the newest blocks.
Full(ms) == ms = Resident!Newest(withVectors, WindowSize)

\* Nothing was written since the key was taken, up to the raise of the version.
Current(k) == k = version /\ ~unbumped

\* The rows: with a key that is current the blocks read are the newest there are, and after
\* the last page they are the window.
Honest ==
    /\ Current(window.key) => Full(window.members)
    /\ update = "rows" /\ Current(windowKey) => TopOf(members, withVectors)
    /\ update \in {"opening", "adding", "yield"} /\ Current(windowKey) => Full(members)

\* The worker: the recorded window is loaded whenever it may be used, and of a window being
\* filled all that is not still to be sent; an update that took the record for loaded has
\* the worker it was loaded into, or was torn.
Held ==
    /\ update \in {"idle", "recency", "removing"} /\ resident /\ ~window.torn =>
          window.members \subseteq loaded
    /\ update \in {"rows", "yield", "adding"} /\ had /\ ~torn => resident
    /\ update \in {"rows", "yield", "adding"} /\ had /\ ~torn /\ ~window.torn =>
          window.members \subseteq loaded
    /\ update \in {"opening", "adding", "yield"} /\ ~Resident!WindowTorn(had, torn) =>
          members \ toAdd \subseteq loaded
    /\ update = "opening" /\ ~torn => ~had
    /\ update = "yield" /\ ~resident => torn
    /\ update = "adding" => resident
    /\ update = "removing" => window.members = members

\* The requests: an update that nobody asked to repeat has the current key.
Requested ==
    /\ update = "idle" /\ ~refreshTimer /\ ~failed => window.key = version
    /\ update \in {"rows", "opening", "adding", "yield"} /\ ~refreshTimer /\ ~rerun =>
          windowKey = version
    /\ update = "removing" /\ ~refreshTimer /\ ~rerun => window.key = version

WindowTypes ==
    /\ withVectors \subseteq Blocks /\ loaded \subseteq Blocks
    /\ members \subseteq Blocks /\ base \subseteq Blocks /\ toAdd \subseteq members
    /\ window \in [key : Nat, members : SUBSET Blocks, torn : BOOLEAN]
    /\ version \in Nat \ {0} /\ window.key <= version /\ windowKey \in 0..version
    /\ version + (IF unbumped THEN 1 ELSE 0) <= 1 + Cardinality(withVectors)
    /\ update \in {"idle", "recency", "rows", "opening", "yield", "adding", "removing"}
    /\ {unbumped, resident, alive, refreshTimer, rerun, had, torn, failed} \subseteq BOOLEAN
    /\ (resident => alive) /\ (rerun => update # "idle")

WindowInv == WindowTypes /\ Honest /\ Held /\ Requested

\* The cardinality of the module instantiated is that of FiniteSets.
LEMMA WindowCardinality == \A S : /\ Resident!Cardinality(S) = Cardinality(S)
                                  /\ Resident!IsFiniteSet(S) = IsFiniteSet(S)
  BY Zenon DEF Resident!Cardinality, Cardinality, Resident!IsFiniteSet, IsFiniteSet

\* The blocks newer than b.
Above(S, b) == {c \in S : c > b}

LEMMA NewestIs ==
    ASSUME NEW S, NEW n
    PROVE  Resident!Newest(S, n) = {b \in S : Cardinality(Above(S, b)) < n}
  BY WindowCardinality, Zenon DEF Resident!Newest, Above

LEMMA AboveFinite ==
    ASSUME NEW S \in SUBSET Nat, IsFiniteSet(S), NEW T \in SUBSET S
    PROVE  /\ IsFiniteSet(T) /\ Cardinality(T) \in Nat /\ Cardinality(T) <= Cardinality(S)
           /\ \A b : IsFiniteSet(Above(T, b)) /\ Cardinality(Above(T, b)) \in Nat
PROOF
  <1>1. IsFiniteSet(T) /\ Cardinality(T) <= Cardinality(S)
    BY FS_Subset
  <1>2. \A b : Above(T, b) \in SUBSET T
    BY DEF Above
  <1>3. \A b : IsFiniteSet(Above(T, b))
    BY <1>1, <1>2, FS_Subset
  <1> QED
    BY <1>1, <1>3, FS_CardinalityType

\* Of two sets of blocks one in the other has no more of them.
LEMMA NoMore ==
    ASSUME NEW T, IsFiniteSet(T), NEW U \in SUBSET T
    PROVE  Cardinality(U) \in Nat /\ Cardinality(T) \in Nat /\ Cardinality(U) <= Cardinality(T)
  BY FS_Subset, FS_CardinalityType

\* The newest n of a set: no more than n, all of it when there are fewer, and its top.
LEMMA NewestOf ==
    ASSUME NEW S \in SUBSET Nat, IsFiniteSet(S), NEW n \in Nat
    PROVE  /\ TopOf(Resident!Newest(S, n), S)
           /\ Cardinality(Resident!Newest(S, n)) \in Nat
           /\ Cardinality(Resident!Newest(S, n)) <= n
           /\ Cardinality(Resident!Newest(S, n)) < n => Resident!Newest(S, n) = S
PROOF
  <1> DEFINE N == Resident!Newest(S, n)
  <1>1. N = {b \in S : Cardinality(Above(S, b)) < n}
    BY NewestIs
  <1> HIDE DEF N
  <1>2. /\ IsFiniteSet(N) /\ Cardinality(N) \in Nat /\ N \subseteq S
        /\ \A b : IsFiniteSet(Above(S, b)) /\ Cardinality(Above(S, b)) \in Nat
    BY <1>1, AboveFinite
  <1>3. TopOf(N, S)
    <2> SUFFICES ASSUME NEW b \in S \ N, NEW c \in N, ~(b < c) PROVE FALSE
      BY <1>2 DEF TopOf
    <2>1. Above(S, b) \in SUBSET Above(S, c)
      <3> SUFFICES ASSUME NEW x \in S, x > b PROVE x > c
        BY DEF Above
      <3>1. x \in Nat /\ b \in Nat /\ c \in Nat
        BY <1>2
      <3> QED
        BY <3>1
    <2>2. Cardinality(Above(S, b)) <= Cardinality(Above(S, c))
      BY <1>2, <2>1, NoMore
    <2>3. Cardinality(Above(S, c)) < n
      BY <1>1
    <2> QED
      BY <1>1, <1>2, <2>2, <2>3
  <1>4. Cardinality(N) <= n
    <2>1. CASE N = {}
      BY <2>1, FS_EmptySet
    <2>2. CASE N # {}
      <3>1. PICK m \in N : \A y \in N : m <= y
        BY <1>2, <2>2, LeastNumber
      <3>2. N \ {m} \in SUBSET Above(S, m)
        BY <1>2, <3>1 DEF Above
      <3>3. Cardinality(N \ {m}) = Cardinality(N) - 1
        BY <1>2, FS_RemoveElement
      <3>4. Cardinality(N \ {m}) <= Cardinality(Above(S, m))
        BY <1>2, <3>2, NoMore
      <3>5. Cardinality(Above(S, m)) < n
        BY <1>1
      <3> QED
        BY <1>2, <3>3, <3>4, <3>5
    <2> QED
      BY <2>1, <2>2
  <1>5. ASSUME Cardinality(N) < n PROVE N = S
    <2> SUFFICES ASSUME S \ N # {} PROVE FALSE
      BY <1>2
    <2> DEFINE counts == {Cardinality(Above(S, b)) : b \in S \ N}
    <2>1. counts \in SUBSET Nat /\ counts # {}
      BY <1>2
    <2>2. PICK k \in counts : \A y \in counts : k <= y
      BY <2>1, LeastNumber
    <2>3. PICK b \in S \ N : k = Cardinality(Above(S, b))
      BY <2>2
    <2>4. Above(S, b) \in SUBSET N
      <3> SUFFICES ASSUME NEW c \in S, c > b, c \notin N PROVE FALSE
        BY DEF Above
      <3>1. Above(S, c) \in SUBSET Above(S, b) /\ c \in Above(S, b) /\ c \notin Above(S, c)
        <4>1. b \in Nat /\ c \in Nat /\ c > b /\ ~(c > c) /\ \A x \in S : x > c => x > b
          OBVIOUS
        <4>2. Above(S, c) \in SUBSET Above(S, b)
          BY <4>1, Zenon DEF Above
        <4>3. c \in Above(S, b) /\ c \notin Above(S, c)
          BY <4>1, Zenon DEF Above
        <4> QED
          BY <4>2, <4>3
      <3>2. Cardinality(Above(S, c)) <= Cardinality(Above(S, b))
        BY <1>2, <3>1, NoMore
      <3>3. Cardinality(Above(S, c)) >= Cardinality(Above(S, b))
        BY <2>2, <2>3
      <3>4. Cardinality(Above(S, c)) = Cardinality(Above(S, b))
        BY <1>2, <3>2, <3>3
      <3> QED
        BY <1>2, <3>1, <3>4, FS_Subset
    <2>5. Cardinality(Above(S, b)) <= Cardinality(N)
      BY <1>2, <2>4, NoMore
    <2>6. Cardinality(Above(S, b)) < n
      BY <1>2, <1>5, <2>5
    <2> QED
      BY <1>1, <2>6
  <1> QED
    BY <1>2, <1>3, <1>4, <1>5 DEF N

\* The top of a set with n members is its newest n.
LEMMA TopIsNewest ==
    ASSUME NEW S \in SUBSET Nat, IsFiniteSet(S), NEW T, TopOf(T, S)
    PROVE  T = Resident!Newest(S, Cardinality(T))
PROOF
  <1>1. /\ T \subseteq S /\ IsFiniteSet(T) /\ Cardinality(T) \in Nat
        /\ \A b : IsFiniteSet(Above(S, b)) /\ Cardinality(Above(S, b)) \in Nat
    BY AboveFinite DEF TopOf
  <1>2. ASSUME NEW b \in T PROVE Cardinality(Above(S, b)) < Cardinality(T)
    <2>1. Above(S, b) \in SUBSET (T \ {b})
      <3> SUFFICES ASSUME NEW x \in S, x > b PROVE x \in T /\ x # b
        BY DEF Above
      <3>1. x \in Nat /\ b \in Nat
        BY <1>1
      <3> QED
        BY <3>1 DEF TopOf
    <2>2. IsFiniteSet(T \ {b}) /\ Cardinality(T \ {b}) = Cardinality(T) - 1
      BY <1>1, FS_RemoveElement
    <2>3. Cardinality(Above(S, b)) <= Cardinality(T \ {b})
      BY <2>1, <2>2, NoMore
    <2> QED
      BY <1>1, <2>2, <2>3
  <1>3. ASSUME NEW b \in S \ T PROVE ~(Cardinality(Above(S, b)) < Cardinality(T))
    <2>1. T \in SUBSET Above(S, b)
      BY <1>1 DEF TopOf, Above
    <2>2. Cardinality(T) <= Cardinality(Above(S, b))
      BY <1>1, <2>1, NoMore
    <2> QED
      BY <1>1, <2>2
  <1> QED
    BY <1>1, <1>2, <1>3, NewestIs

\* One page more: what was read is still the top, and after the last page the window is full.
LEMMA PageRead ==
    ASSUME NEW S \in SUBSET Nat, IsFiniteSet(S), NEW before, TopOf(before, S),
           NEW w \in Nat, NEW p \in Nat
    PROVE  LET fetched == Resident!Newest({b \in S : \A c \in before : b < c}, p)
               all == Resident!Newest(before \cup fetched, w)
           IN  /\ Cardinality(all) = w \/ Cardinality(fetched) < p => all = Resident!Newest(S, w)
               /\ Cardinality(all) # w => TopOf(all, S)
PROOF
  <1> DEFINE older == {b \in S : \A c \in before : b < c}
             fetched == Resident!Newest(older, p)
             all == Resident!Newest(before \cup fetched, w)
  <1>1. before \subseteq S /\ older = S \ before
    <2>1. before \subseteq S /\ \A b \in S \ before, c \in before : b < c
      BY DEF TopOf
    <2>2. \A b \in before : b \in Nat /\ ~(b < b)
      BY <2>1
    <2> QED
      BY <2>1, <2>2
  <1>2. older \in SUBSET Nat /\ IsFiniteSet(older)
    BY FS_Subset
  <1> HIDE DEF older
  <1>3. TopOf(fetched, older) /\ (Cardinality(fetched) < p => fetched = older)
    BY <1>2, NewestOf
  <1> HIDE DEF fetched
  <1>4. TopOf(before \cup fetched, S)
    <2> SUFFICES ASSUME NEW b \in S \ (before \cup fetched), NEW c \in before \cup fetched
                 PROVE  b < c
      BY <1>1, <1>3 DEF TopOf
    <2> QED
      BY <1>1, <1>3 DEF TopOf
  <1>5. before \cup fetched \in SUBSET Nat /\ IsFiniteSet(before \cup fetched)
            /\ before \cup fetched \subseteq S
    BY <1>4, FS_Subset DEF TopOf
  <1>6. /\ TopOf(all, before \cup fetched) /\ Cardinality(all) \in Nat /\ Cardinality(all) <= w
        /\ (Cardinality(all) < w => all = before \cup fetched)
    BY <1>5, NewestOf
  <1> HIDE DEF all
  <1>7. TopOf(all, S)
    <2> SUFFICES ASSUME NEW b \in S \ all, NEW c \in all PROVE b < c
      BY <1>5, <1>6 DEF TopOf
    <2>1. CASE b \in before \cup fetched
      BY <1>6, <2>1 DEF TopOf
    <2>2. CASE b \notin before \cup fetched
      BY <1>4, <1>6, <2>2 DEF TopOf
    <2> QED
      BY <2>1, <2>2
  <1>8. Cardinality(all) = w => all = Resident!Newest(S, w)
    BY <1>7, TopIsNewest
  <1>9. Cardinality(fetched) < p => all = Resident!Newest(S, w)
    <2> SUFFICES ASSUME Cardinality(fetched) < p PROVE all = Resident!Newest(S, w)
      OBVIOUS
    <2>1. before \cup fetched = S
      BY <1>1, <1>3
    <2> QED
      BY <2>1 DEF all
  <1> QED
    BY <1>7, <1>8, <1>9 DEF all, fetched, older

\* The index, the worker and the locals have their types ...
IndexTypes ==
    /\ withVectors \subseteq Blocks
    /\ version \in Nat \ {0}
    /\ version + (IF unbumped THEN 1 ELSE 0) <= 1 + Cardinality(withVectors)
RecordTypes ==
    /\ window \in [key : Nat, members : SUBSET Blocks, torn : BOOLEAN]
    /\ window.key <= version
LocalTypes ==
    /\ windowKey \in 0..version
    /\ members \subseteq Blocks /\ base \subseteq Blocks /\ toAdd \subseteq members
    /\ loaded \subseteq Blocks
StageTypes ==
    /\ update \in {"idle", "recency", "rows", "opening", "yield", "adding", "removing"}
    /\ (rerun => update # "idle")
FlagTypes ==
    /\ {unbumped, resident, alive, refreshTimer, rerun, had, torn, failed} \subseteq BOOLEAN
    /\ (resident => alive)

LEMMA TypesAre ==
    /\ WindowTypes <=> IndexTypes /\ RecordTypes /\ LocalTypes /\ StageTypes /\ FlagTypes
    /\ WindowTypes' <=> IndexTypes' /\ RecordTypes' /\ LocalTypes' /\ StageTypes' /\ FlagTypes'
  BY Zenon DEF WindowTypes, IndexTypes, RecordTypes, LocalTypes, StageTypes, FlagTypes

\* The end of an update.
LEMMA Ended ==
    ASSUME WindowTypes, NEW f \in BOOLEAN, Resident!Ends(f)
    PROVE  /\ update' \in {"idle", "recency"} /\ rerun' = FALSE /\ failed' = f
           /\ StageTypes' /\ (update' = "idle" => ~rerun)
  BY DEF Resident!Ends, StageTypes

LEMMA Idles ==
    ASSUME update' \in {"idle", "recency"},
           (Current(window.key) => Full(window.members))',
           (resident /\ ~window.torn => window.members \subseteq loaded)',
           (update = "idle" /\ ~refreshTimer /\ ~failed => window.key = version)'
    PROVE  Honest' /\ Held' /\ Requested'
  BY DEF Honest, Held, Requested

\* The record is set: what it names is loaded, newest and asked for.
LEMMA Committed ==
    ASSUME WindowTypes, NEW k \in Nat, NEW ms \in SUBSET Blocks, NEW bs, NEW t \in BOOLEAN,
           k <= version', version' \in Nat, Resident!Commit(k, ms, bs, t),
           members' = ms, resident', ~t => ms \subseteq loaded',
           k = version' /\ ~unbumped' => Full(ms)',
           ~refreshTimer' /\ ~rerun => k = version'
    PROVE  /\ RecordTypes' /\ StageTypes' /\ {rerun', failed'} \subseteq BOOLEAN
           /\ Honest' /\ Held' /\ Requested'
PROOF
  <1>1. PICK w : w = [key |-> k, members |-> ms, torn |-> t]
    OBVIOUS
  <1>2. /\ w \in [key : Nat, members : SUBSET Blocks, torn : BOOLEAN]
        /\ w.key = k /\ w.members = ms /\ (w.torn <=> t)
    BY <1>1
  <1>3. window' = w
    BY <1>1, Zenon DEF Resident!Commit
  <1>4. \/ update' = "removing" /\ UNCHANGED <<rerun, failed>>
        \/ Resident!Ends(FALSE)
    BY Zenon DEF Resident!Commit
  <1>5. RecordTypes'
    BY <1>2, <1>3 DEF RecordTypes
  <1>6. CASE update' = "removing" /\ UNCHANGED <<rerun, failed>>
    <2>1. StageTypes' /\ {rerun', failed'} \subseteq BOOLEAN
      BY <1>6 DEF StageTypes, WindowTypes
    <2>2. Honest'
      BY <1>2, <1>3, <1>6 DEF Honest, Current
    <2>3. Held'
      BY <1>2, <1>3, <1>6 DEF Held
    <2>4. Requested'
      BY <1>2, <1>3, <1>6 DEF Requested
    <2> QED
      BY <1>5, <2>1, <2>2, <2>3, <2>4
  <1>7. CASE Resident!Ends(FALSE)
    <2>1. /\ update' \in {"idle", "recency"} /\ rerun' = FALSE /\ failed' = FALSE
          /\ StageTypes' /\ (update' = "idle" => ~rerun)
      BY <1>7, Ended
    <2>2. (Current(window.key) => Full(window.members))'
      BY <1>2, <1>3 DEF Current
    <2>3. (resident /\ ~window.torn => window.members \subseteq loaded)'
      BY <1>2, <1>3
    <2>4. (update = "idle" /\ ~refreshTimer /\ ~failed => window.key = version)'
      BY <1>2, <1>3, <2>1
    <2> QED
      BY <1>5, <2>1, <2>2, <2>3, <2>4, Idles
  <1> QED
    BY <1>4, <1>6, <1>7

\* A page: the key and the record it starts from are right, and it is the next one.
LEMMA PageTaken ==
    ASSUME Resident!LateWindowAssumption, WindowInv,
           UNCHANGED <<withVectors, unbumped, version, resident, loaded, alive, refreshTimer>>,
           NEW k \in 0..version, NEW before \in SUBSET Blocks, NEW h \in BOOLEAN,
             NEW t \in BOOLEAN,
           Current(k) => TopOf(before, withVectors),
           h /\ ~t => resident, h /\ ~t /\ ~window.torn => window.members \subseteq loaded,
           ~refreshTimer /\ ~rerun => k = version,
           update \in {"recency", "rows"}, Resident!TakePage(k, before, h, t)
    PROVE  WindowInv'
PROOF
  <1> DEFINE older == {b \in withVectors : \A c \in before : b < c}
             fetchedIs == Resident!Newest(older, Page)
             allIs == Resident!Newest(before \cup fetchedIs, WindowSize)
             lastIs == Cardinality(allIs) = WindowSize \/ Cardinality(fetchedIs) < Page
  <1>1. PICK fetched : fetched = fetchedIs
    OBVIOUS
  <1>2. PICK all : all = allIs
    OBVIOUS
  <1>3. PICK last \in BOOLEAN : last <=> lastIs
    OBVIOUS
  <1>4. PICK bs : bs = IF last THEN Resident!StartsFrom(h) ELSE {}
    OBVIOUS
  <1>5. PICK ta : ta = IF last THEN all \ bs ELSE {}
    OBVIOUS
  <1>6. PICK wt : wt = Resident!WindowTorn(h, t)
    OBVIOUS
  <1>60. wt \in BOOLEAN /\ (wt <=> Resident!WindowTorn(h, t))
    BY <1>6 DEF Resident!WindowTorn
  <1>7. /\ windowKey' = k /\ members' = all /\ had' = h /\ torn' = t /\ base' = bs /\ toAdd' = ta
        /\ IF last /\ resident /\ ta = {}
           THEN Resident!Commit(k, all, bs, Resident!WindowTorn(h, t))
           ELSE /\ update' = IF ~last THEN "rows" ELSE IF resident THEN "adding" ELSE "opening"
                /\ UNCHANGED <<window, rerun, failed>>
    BY <1>1, <1>2, <1>3, <1>4, <1>5, WindowCardinality, Zenon DEF Resident!TakePage
  <1>8. fetched \subseteq withVectors /\ all \subseteq before \cup fetched /\ all \subseteq Blocks
    BY <1>1, <1>2, NewestIs DEF WindowInv, WindowTypes
  <1>9. /\ withVectors \in SUBSET Nat /\ IsFiniteSet(withVectors) /\ WindowSize \in Nat
               /\ Page \in Nat
    BY WindowCardinality, FS_Subset DEF WindowInv, WindowTypes, Resident!LateWindowAssumption
  <1>10. Current(k) => /\ last => Full(all)
                       /\ ~last => TopOf(all, withVectors)
    <2> SUFFICES ASSUME Current(k) PROVE (last => Full(all)) /\ (~last => TopOf(all, withVectors))
      OBVIOUS
    <2>1. /\ Cardinality(allIs) = WindowSize \/ Cardinality(fetchedIs) < Page =>
                 allIs = Resident!Newest(withVectors, WindowSize)
          /\ Cardinality(allIs) # WindowSize => TopOf(allIs, withVectors)
      BY <1>9, PageRead
    <2> QED
      BY <1>2, <1>3, <2>1, Zenon DEF Full
  <1>11. /\ bs \in SUBSET Blocks /\ ta \subseteq all
         /\ last => all \ ta \subseteq bs
         /\ last /\ ~h => bs = {}
         /\ last /\ h => bs = window.members
    BY <1>4, <1>5, <1>8 DEF Resident!StartsFrom, WindowInv, WindowTypes
  <1>12. last /\ ~wt => bs \subseteq loaded
    BY <1>60, <1>11 DEF Resident!WindowTorn
  <1> HIDE DEF older, fetchedIs, allIs, lastIs
  <1>13. IndexTypes' /\ LocalTypes'
    <2>1. IndexTypes'
      BY TypesAre DEF WindowInv, IndexTypes
    <2>2. LocalTypes'
      BY <1>7, <1>8, <1>11 DEF WindowInv, WindowTypes, LocalTypes
    <2> QED
      BY <2>1, <2>2
  <1>14. CASE last /\ resident /\ ta = {}
    <2>1. Resident!Commit(k, all, bs, wt)
      BY <1>6, <1>7, <1>14
    <2>2. ~wt => all \subseteq loaded'
      BY <1>11, <1>12, <1>14
    <2>3. k = version' /\ ~unbumped' => Full(all)'
      BY <1>10, <1>14 DEF Current, Full
    <2>4. k \in Nat /\ k <= version' /\ version' \in Nat
      BY DEF WindowInv, WindowTypes
    <2>5. /\ RecordTypes' /\ StageTypes' /\ {rerun', failed'} \subseteq BOOLEAN
          /\ Honest' /\ Held' /\ Requested'
      BY <1>60, <1>7, <1>8, <1>14, <2>1, <2>2, <2>3, <2>4, Committed DEF WindowInv
    <2>6. FlagTypes'
      BY <1>7, <2>5 DEF WindowInv, WindowTypes, FlagTypes
    <2> QED
      BY <1>13, <2>5, <2>6, TypesAre DEF WindowInv
  <1>15. CASE ~(last /\ resident /\ ta = {})
    <2>1. /\ update' = IF ~last THEN "rows" ELSE IF resident THEN "adding" ELSE "opening"
          /\ UNCHANGED <<window, rerun, failed>>
      BY <1>7, <1>15, Zenon
    <2>2. RecordTypes' /\ StageTypes' /\ FlagTypes'
      BY <1>7, <2>1 DEF WindowInv, WindowTypes, RecordTypes, StageTypes, FlagTypes
    <2>3. Honest'
      <3>1. Current(window.key) => Full(window.members)
        BY DEF WindowInv, Honest
      <3> QED
        BY <1>7, <1>10, <2>1, <3>1 DEF Honest, Current, Full
    <2>4. Held'
      <3>1. update' \in {"adding", "opening"} => last /\ (update' = "adding" <=> resident)
        BY <2>1
      <3>2. Resident!WindowTorn(had, torn)' <=> wt
        BY <1>60, <1>7, <2>1 DEF Resident!WindowTorn
      <3>3. update' \in {"opening", "adding", "yield"} /\ ~wt =>
                members' \ toAdd' \subseteq loaded'
        BY <1>7, <1>11, <1>12, <2>1, <3>1
      <3> QED
        BY <1>7, <2>1, <3>1, <3>2, <3>3 DEF Held
    <2>5. Requested'
      BY <1>7, <2>1 DEF Requested
    <2> QED
      BY <1>13, <2>2, <2>3, <2>4, <2>5, TypesAre DEF WindowInv
  <1> QED
    BY <1>14, <1>15

\* What a step of the index or of a timer leaves alone.
Untouched ==
    UNCHANGED <<window, resident, loaded, windowKey, members, base, toAdd, had, torn, failed>>

LEMMA StillHeld ==
    ASSUME WindowInv, Untouched, update' = update \/ (update = "idle" /\ update' = "recency")
    PROVE  Held'
PROOF
  <1>1. Resident!WindowTorn(had, torn)' <=> Resident!WindowTorn(had, torn)
    BY DEF Untouched, Resident!WindowTorn
  <1> QED
    BY <1>1 DEF WindowInv, Held, Untouched

LEMMA WindowStores ==
    ASSUME Resident!LateWindowAssumption, WindowInv, NEW b \in Blocks, Resident!Store(b)
    PROVE  WindowInv'
PROOF
  <1>1. /\ b \notin withVectors /\ withVectors' = withVectors \cup {b} /\ unbumped' = TRUE
        /\ Untouched /\ UNCHANGED <<version, alive, refreshTimer, rerun, update>>
    BY DEF Resident!Store, Resident!workerVars, Resident!locals, Untouched
  <1>2. IsFiniteSet(withVectors) /\ Cardinality(withVectors) \in Nat
    BY WindowCardinality, FS_Subset, FS_CardinalityType DEF WindowInv, WindowTypes,
                                                            Resident!LateWindowAssumption
  <1>3. Cardinality(withVectors') = Cardinality(withVectors) + 1
    BY <1>1, <1>2, FS_AddElement
  <1>4. IndexTypes'
    BY <1>1, <1>2, <1>3 DEF WindowInv, WindowTypes, IndexTypes
  <1>5. RecordTypes' /\ LocalTypes' /\ StageTypes' /\ FlagTypes'
    BY <1>1 DEF WindowInv, WindowTypes, RecordTypes, LocalTypes, StageTypes, FlagTypes, Untouched
  <1>6. Honest'
    BY <1>1 DEF Honest, Current
  <1>7. Held'
    BY <1>1, StillHeld
  <1>8. Requested'
    BY <1>1 DEF WindowInv, Requested, Untouched
  <1> QED
    BY <1>4, <1>5, <1>6, <1>7, <1>8, TypesAre DEF WindowInv

LEMMA WindowBumps ==
    ASSUME Resident!LateWindowAssumption, WindowInv, Resident!Bump
    PROVE  WindowInv'
PROOF
  <1>1. /\ unbumped /\ unbumped' = FALSE /\ version' = version + 1 /\ refreshTimer' = TRUE
        /\ Untouched /\ UNCHANGED <<withVectors, alive, rerun, update>>
    BY DEF Resident!Bump, Resident!workerVars, Resident!locals, Untouched
  <1>2. IndexTypes'
    BY <1>1 DEF WindowInv, WindowTypes, IndexTypes
  <1>3. RecordTypes' /\ LocalTypes' /\ StageTypes' /\ FlagTypes'
    <2>1. window.key \in Nat /\ window.key <= version /\ windowKey \in 0..version
              /\ version \in Nat
      BY DEF WindowInv, WindowTypes
    <2>2. window.key <= version + 1 /\ windowKey \in 0..(version + 1)
      BY <2>1
    <2>3. RecordTypes' /\ LocalTypes'
      BY <1>1, <2>2 DEF WindowInv, WindowTypes, RecordTypes, LocalTypes, Untouched
    <2>4. StageTypes' /\ FlagTypes'
      BY <1>1 DEF WindowInv, WindowTypes, StageTypes, FlagTypes, Untouched
    <2> QED
      BY <2>3, <2>4
  <1>4. Honest'
    <2>1. ~Current(window.key)' /\ ~Current(windowKey)'
      BY <1>1 DEF WindowInv, WindowTypes, Current, Untouched
    <2> QED
      BY <2>1 DEF Honest
  <1>5. Held'
    BY <1>1, StillHeld
  <1>6. Requested'
    BY <1>1 DEF Requested
  <1> QED
    BY <1>2, <1>3, <1>4, <1>5, <1>6, TypesAre DEF WindowInv

\* A query and the timer: nothing of the index and of the window.
LEMMA WindowTimes ==
    ASSUME WindowInv, Untouched, UNCHANGED <<withVectors, unbumped, version>>,
           alive' \in BOOLEAN, alive => alive', refreshTimer' \in BOOLEAN,
           \/ UNCHANGED <<rerun, update>> /\ (refreshTimer => refreshTimer')
           \/ /\ update' = IF update = "idle" THEN "recency" ELSE update
              /\ rerun' = (rerun \/ update # "idle")
    PROVE  WindowInv'
PROOF
  <1>1. IndexTypes'
    BY DEF WindowInv, WindowTypes, IndexTypes
  <1>2. RecordTypes' /\ LocalTypes' /\ StageTypes'
    BY DEF WindowInv, WindowTypes, RecordTypes, LocalTypes, StageTypes, Untouched
  <1>3. FlagTypes'
    <2>1. rerun' \in BOOLEAN
      BY DEF WindowInv, WindowTypes
    <2> QED
      BY <2>1 DEF WindowInv, WindowTypes, FlagTypes, Untouched
  <1>4. Honest'
    BY DEF WindowInv, Honest, Current, Full, Untouched
  <1>5. Held'
    BY StillHeld
  <1>6. Requested'
    BY DEF WindowInv, Requested, Untouched
  <1> QED
    BY <1>1, <1>2, <1>3, <1>4, <1>5, <1>6, TypesAre DEF WindowInv

LEMMA WindowLooks ==
    ASSUME Resident!LateWindowAssumption, WindowInv, Resident!Look
    PROVE  WindowInv'
PROOF
  <1>1. /\ update = "recency"
        /\ UNCHANGED <<withVectors, unbumped, version, resident, loaded, alive, refreshTimer>>
    BY DEF Resident!Look, Resident!indexVars, Resident!workerVars
  <1>2. CASE window.key = version /\ resident
    <2>1. Resident!Ends(FALSE) /\ UNCHANGED <<window, windowKey, members, base, toAdd, had, torn>>
      BY <1>2 DEF Resident!Look, Resident!locals
    <2>2. /\ update' \in {"idle", "recency"} /\ rerun' = FALSE /\ failed' = FALSE /\ StageTypes'
      BY <2>1, Ended DEF WindowInv
    <2>3. IndexTypes' /\ RecordTypes' /\ LocalTypes' /\ FlagTypes'
      BY <1>1, <2>1, <2>2 DEF WindowInv, WindowTypes, IndexTypes, RecordTypes, LocalTypes,
                              FlagTypes
    <2>4. (Current(window.key) => Full(window.members))'
      BY <1>1, <2>1 DEF WindowInv, Honest, Current, Full
    <2>5. Honest' /\ Held' /\ Requested'
      BY <1>1, <1>2, <2>1, <2>2, <2>4, Idles DEF WindowInv, Held
    <2> QED
      BY <2>2, <2>3, <2>5, TypesAre DEF WindowInv
  <1>3. CASE ~(window.key = version /\ resident)
    <2>1. Resident!TakePage(version, {}, resident, FALSE)
      BY <1>3 DEF Resident!Look
    <2>2. PICK k : k = version
      OBVIOUS
    <2>3. PICK h \in BOOLEAN : h = resident
      BY DEF WindowInv, WindowTypes
    <2>4. Resident!TakePage(k, {}, h, FALSE)
      BY <2>1, <2>2, <2>3
    <2>5. k \in 0..version
      BY <2>2 DEF WindowInv, WindowTypes
    <2>6. TopOf({}, withVectors)
      BY DEF TopOf
    <2>7. h /\ ~window.torn => window.members \subseteq loaded
      BY <1>1, <2>3 DEF WindowInv, Held
    <2> QED
      BY <1>1, <2>2, <2>3, <2>4, <2>5, <2>6, <2>7, PageTaken
  <1> QED
    BY <1>2, <1>3

LEMMA WindowReads ==
    ASSUME Resident!LateWindowAssumption, WindowInv, Resident!ReadPage
    PROVE  WindowInv'
PROOF
  <1>1. /\ update = "rows"
        /\ UNCHANGED <<withVectors, unbumped, version, resident, loaded, alive, refreshTimer>>
        /\ Resident!TakePage(windowKey, members, had, torn)
    BY DEF Resident!ReadPage, Resident!indexVars, Resident!workerVars
  <1>2. PICK k : k = windowKey
    OBVIOUS
  <1>3. PICK before : before = members
    OBVIOUS
  <1>4. PICK h : h = had
    OBVIOUS
  <1>5. PICK t : t = torn
    OBVIOUS
  <1>6. Resident!TakePage(k, before, h, t)
    BY <1>1, <1>2, <1>3, <1>4, <1>5
  <1>7. k \in 0..version /\ before \in SUBSET Blocks /\ h \in BOOLEAN /\ t \in BOOLEAN
    BY <1>2, <1>3, <1>4, <1>5 DEF WindowInv, WindowTypes
  <1>8. /\ Current(k) => TopOf(before, withVectors)
        /\ h /\ ~t => resident
        /\ h /\ ~t /\ ~window.torn => window.members \subseteq loaded
        /\ ~refreshTimer /\ ~rerun => k = version
    BY <1>1, <1>2, <1>3, <1>4, <1>5 DEF WindowInv, Honest, Held, Requested
  <1> QED
    BY <1>1, <1>6, <1>7, <1>8, PageTaken

LEMMA WindowRefused ==
    ASSUME WindowInv, Resident!SendRefused
    PROVE  WindowInv'
PROOF
  <1>1. /\ ~alive /\ Resident!Ends(TRUE)
        /\ UNCHANGED <<withVectors, unbumped, version, resident, loaded, alive, refreshTimer>>
        /\ UNCHANGED <<window, windowKey, members, base, toAdd, had, torn>>
    BY DEF Resident!SendRefused, Resident!Spawns, Resident!indexVars, Resident!workerVars,
           Resident!locals
  <1>2. update' \in {"idle", "recency"} /\ rerun' = FALSE /\ failed' = TRUE /\ StageTypes'
    BY <1>1, Ended DEF WindowInv
  <1>3. IndexTypes' /\ RecordTypes' /\ LocalTypes' /\ FlagTypes'
    BY <1>1, <1>2 DEF WindowInv, WindowTypes, IndexTypes, RecordTypes, LocalTypes, FlagTypes
  <1>4. (Current(window.key) => Full(window.members))'
    BY <1>1 DEF WindowInv, Honest, Current, Full
  <1>5. ~resident
    BY <1>1 DEF WindowInv, WindowTypes
  <1>6. Honest' /\ Held' /\ Requested'
    BY <1>1, <1>2, <1>4, <1>5, Idles
  <1> QED
    BY <1>2, <1>3, <1>6, TypesAre DEF WindowInv

\* The next batch, and the worker respawned for it: back to "opening" unless the window is
\* still there.
LEMMA WindowGoesOn ==
    ASSUME WindowInv, update \in {"opening", "yield"},
           update' \in {"opening", "adding"}, update' = "adding" => resident,
           update = "yield" /\ resident => update' = "adding",
           alive' \in BOOLEAN, alive => alive',
           UNCHANGED <<withVectors, unbumped, version, refreshTimer, rerun>>, Untouched
    PROVE  WindowInv'
PROOF
  <1>1. IndexTypes' /\ RecordTypes' /\ LocalTypes' /\ StageTypes' /\ FlagTypes'
    BY DEF WindowInv, WindowTypes, IndexTypes, RecordTypes, LocalTypes, StageTypes, FlagTypes,
           Untouched
  <1>2. Honest'
    BY DEF WindowInv, Honest, Current, Full, Untouched
  <1>3. Held'
    <2>1. Resident!WindowTorn(had, torn)' <=> Resident!WindowTorn(had, torn)
      BY DEF Untouched, Resident!WindowTorn
    <2> QED
      BY <2>1 DEF WindowInv, Held, Untouched
  <1>4. Requested'
    BY DEF WindowInv, Requested, Untouched
  <1> QED
    BY <1>1, <1>2, <1>3, <1>4, TypesAre DEF WindowInv

LEMMA WindowOpened ==
    ASSUME WindowInv, Resident!Opened
    PROVE  WindowInv'
PROOF
  <1>1. /\ update = "opening" /\ alive /\ resident' = TRUE
        /\ UNCHANGED <<withVectors, unbumped, version, loaded, alive, refreshTimer>>
        /\ UNCHANGED <<windowKey, members, base, toAdd, had, torn>>
    BY DEF Resident!Opened, Resident!indexVars, Resident!locals
  <1>2. IndexTypes' /\ LocalTypes'
    BY <1>1 DEF WindowInv, WindowTypes, IndexTypes, LocalTypes
  <1>3. CASE toAdd = {}
    <2>1. Resident!Commit(windowKey, members, base, Resident!WindowTorn(had, torn))
      BY <1>3 DEF Resident!Opened
    <2>2. PICK k : k = windowKey
      OBVIOUS
    <2>3. PICK ms : ms = members
      OBVIOUS
    <2>4. PICK bs : bs = base
      OBVIOUS
    <2>5. PICK t : t = Resident!WindowTorn(had, torn)
      OBVIOUS
    <2>6. Resident!Commit(k, ms, bs, t)
      BY <2>1, <2>2, <2>3, <2>4, <2>5
    <2>7. /\ k \in Nat /\ ms \in SUBSET Blocks /\ t \in BOOLEAN /\ k <= version'
                 /\ version' \in Nat
      BY <1>1, <2>2, <2>3, <2>5 DEF WindowInv, WindowTypes, Resident!WindowTorn
    <2>8. /\ ~t => ms \subseteq loaded'
          /\ k = version' /\ ~unbumped' => Full(ms)'
          /\ ~refreshTimer' /\ ~rerun => k = version'
      BY <1>1, <1>3, <2>2, <2>3, <2>5 DEF WindowInv, Held, Honest, Requested, Current, Full
    <2>9. members' = ms
      BY <1>1, <2>3
    <2>10. /\ RecordTypes' /\ StageTypes' /\ {rerun', failed'} \subseteq BOOLEAN
           /\ Honest' /\ Held' /\ Requested'
      BY <1>1, <2>6, <2>7, <2>8, <2>9, Committed DEF WindowInv
    <2>11. FlagTypes'
      BY <1>1, <2>10 DEF WindowInv, WindowTypes, FlagTypes
    <2> QED
      BY <1>2, <2>10, <2>11, TypesAre DEF WindowInv
  <1>4. CASE toAdd # {}
    <2>1. update' = "adding" /\ UNCHANGED <<window, rerun, failed>>
      BY <1>4 DEF Resident!Opened
    <2>2. RecordTypes' /\ StageTypes' /\ FlagTypes'
      BY <1>1, <2>1 DEF WindowInv, WindowTypes, RecordTypes, StageTypes, FlagTypes
    <2>3. Resident!WindowTorn(had, torn)' <=> Resident!WindowTorn(had, torn)
      BY <1>1, <2>1 DEF Resident!WindowTorn
    <2>4. Held'
      BY <1>1, <2>1, <2>3 DEF WindowInv, Held
    <2>5. Honest' /\ Requested'
      BY <1>1, <2>1 DEF WindowInv, Honest, Requested, Current, Full
    <2> QED
      BY <1>2, <2>2, <2>4, <2>5, TypesAre DEF WindowInv
  <1> QED
    BY <1>3, <1>4

LEMMA WindowAdds ==
    ASSUME WindowInv, Resident!Added
    PROVE  WindowInv'
PROOF
  <1>1. /\ update = "adding" /\ UNCHANGED resident
        /\ UNCHANGED <<withVectors, unbumped, version, alive, refreshTimer>>
        /\ UNCHANGED <<windowKey, members, base, had, torn>>
    BY DEF Resident!Added, Resident!indexVars
  <1>2. PICK batch : batch = Resident!Newest(toAdd, Load)
    OBVIOUS
  <1>3. batch \subseteq toAdd /\ loaded' = loaded \cup batch /\ toAdd' = toAdd \ batch
    BY <1>2, NewestIs DEF Resident!Added
  <1>4. IndexTypes' /\ LocalTypes'
    BY <1>1, <1>3 DEF WindowInv, WindowTypes, IndexTypes, LocalTypes
  <1>5. resident
    BY <1>1 DEF WindowInv, Held
  <1>6. ~Resident!WindowTorn(had, torn) => members \ toAdd' \subseteq loaded'
    BY <1>1, <1>3 DEF WindowInv, Held
  <1>7. CASE toAdd' = {}
    <2>1. Resident!Commit(windowKey, members, base, Resident!WindowTorn(had, torn))
      BY <1>7 DEF Resident!Added
    <2>2. PICK k : k = windowKey
      OBVIOUS
    <2>3. PICK ms : ms = members
      OBVIOUS
    <2>4. PICK bs : bs = base
      OBVIOUS
    <2>5. PICK t : t = Resident!WindowTorn(had, torn)
      OBVIOUS
    <2>6. Resident!Commit(k, ms, bs, t)
      BY <2>1, <2>2, <2>3, <2>4, <2>5
    <2>7. /\ k \in Nat /\ ms \in SUBSET Blocks /\ t \in BOOLEAN /\ k <= version'
                 /\ version' \in Nat
      BY <1>1, <2>2, <2>3, <2>5 DEF WindowInv, WindowTypes, Resident!WindowTorn
    <2>8. /\ ~t => ms \subseteq loaded'
          /\ k = version' /\ ~unbumped' => Full(ms)'
          /\ ~refreshTimer' /\ ~rerun => k = version'
      <3>1. ~t => ms \subseteq loaded'
        BY <1>6, <1>7, <2>3, <2>5
      <3>2. k = version' /\ ~unbumped' => Full(ms)'
        BY <1>1, <2>2, <2>3 DEF WindowInv, Honest, Current, Full
      <3>3. ~refreshTimer' /\ ~rerun => k = version'
        BY <1>1, <2>2 DEF WindowInv, Requested
      <3> QED
        BY <3>1, <3>2, <3>3
    <2>9. members' = ms /\ resident'
      BY <1>1, <1>5, <2>3
    <2>10. /\ RecordTypes' /\ StageTypes' /\ {rerun', failed'} \subseteq BOOLEAN
           /\ Honest' /\ Held' /\ Requested'
      BY <1>1, <2>6, <2>7, <2>8, <2>9, Committed DEF WindowInv
    <2>11. FlagTypes'
      BY <1>1, <2>10 DEF WindowInv, WindowTypes, FlagTypes
    <2> QED
      BY <1>4, <2>10, <2>11, TypesAre DEF WindowInv
  <1>8. CASE toAdd' # {}
    <2>1. update' = "yield" /\ UNCHANGED <<window, rerun, failed>>
      BY <1>8 DEF Resident!Added
    <2>2. RecordTypes' /\ StageTypes' /\ FlagTypes'
      BY <1>1, <2>1 DEF WindowInv, WindowTypes, RecordTypes, StageTypes, FlagTypes
    <2>3. Resident!WindowTorn(had, torn)' <=> Resident!WindowTorn(had, torn)
      BY <1>1, <2>1 DEF Resident!WindowTorn
    <2>4. Held'
      BY <1>1, <1>3, <1>5, <1>6, <2>1, <2>3 DEF WindowInv, Held
    <2>5. Honest' /\ Requested'
      BY <1>1, <2>1 DEF WindowInv, Honest, Requested, Current, Full
    <2> QED
      BY <1>4, <2>2, <2>4, <2>5, TypesAre DEF WindowInv
  <1> QED
    BY <1>7, <1>8

LEMMA WindowRemoves ==
    ASSUME WindowInv, Resident!Removed
    PROVE  WindowInv'
PROOF
  <1>1. /\ update = "removing" /\ loaded' = loaded \ (base \ members) /\ Resident!Ends(FALSE)
        /\ UNCHANGED <<withVectors, unbumped, version, resident, alive, refreshTimer>>
        /\ UNCHANGED <<window, windowKey, members, base, toAdd, had, torn>>
    BY DEF Resident!Removed, Resident!indexVars, Resident!locals
  <1>2. /\ update' \in {"idle", "recency"} /\ rerun' = FALSE /\ failed' = FALSE /\ StageTypes'
        /\ (update' = "idle" => ~rerun)
    BY <1>1, Ended DEF WindowInv
  <1>3. IndexTypes' /\ RecordTypes' /\ LocalTypes' /\ FlagTypes'
    BY <1>1, <1>2 DEF WindowInv, WindowTypes, IndexTypes, RecordTypes, LocalTypes, FlagTypes
  <1>4. (Current(window.key) => Full(window.members))'
    BY <1>1 DEF WindowInv, Honest, Current, Full
  <1>5. (resident /\ ~window.torn => window.members \subseteq loaded)'
    BY <1>1 DEF WindowInv, Held
  <1>6. (update = "idle" /\ ~refreshTimer /\ ~failed => window.key = version)'
    BY <1>1, <1>2 DEF WindowInv, Requested
  <1> QED
    BY <1>2, <1>3, <1>4, <1>5, <1>6, Idles, TypesAre DEF WindowInv

LEMMA WindowDies ==
    ASSUME WindowInv, Resident!WorkerDies
    PROVE  WindowInv'
PROOF
  <1>1. /\ alive' = FALSE /\ resident' = FALSE /\ loaded' = {}
        /\ torn' = (torn \/ update = "yield" \/ (update = "rows" /\ had))
        /\ UNCHANGED <<withVectors, unbumped, version, window, refreshTimer, windowKey, members,
                       base, toAdd, had>>
    BY DEF Resident!WorkerDies, Resident!indexVars
  <1>2. IndexTypes' /\ RecordTypes' /\ LocalTypes' /\ torn' \in BOOLEAN
    BY <1>1 DEF WindowInv, WindowTypes, IndexTypes, RecordTypes, LocalTypes
  <1>3. CASE update \in {"opening", "adding", "removing"}
    <2>1. Resident!Ends(TRUE)
      BY <1>3 DEF Resident!WorkerDies
    <2>2. update' \in {"idle", "recency"} /\ rerun' = FALSE /\ failed' = TRUE /\ StageTypes'
      BY <2>1, Ended DEF WindowInv
    <2>3. FlagTypes'
      BY <1>1, <1>2, <2>2 DEF WindowInv, WindowTypes, FlagTypes
    <2>4. (Current(window.key) => Full(window.members))'
      BY <1>1 DEF WindowInv, Honest, Current, Full
    <2> QED
      BY <1>1, <1>2, <2>2, <2>3, <2>4, Idles, TypesAre DEF WindowInv
  <1>4. CASE update \notin {"opening", "adding", "removing"}
    <2>1. UNCHANGED <<update, rerun, failed>>
      BY <1>4 DEF Resident!WorkerDies
    <2>2. StageTypes' /\ FlagTypes'
      BY <1>1, <1>2, <2>1 DEF WindowInv, WindowTypes, StageTypes, FlagTypes
    <2>3. Honest' /\ Requested'
      BY <1>1, <2>1 DEF WindowInv, Honest, Requested, Current, Full
    <2>4. Held'
      <3>1. update = "yield" => torn' /\ Resident!WindowTorn(had, torn)'
        BY <1>1 DEF Resident!WindowTorn
      <3>2. update = "rows" /\ had => torn'
        BY <1>1
      <3> QED
        BY <1>1, <1>4, <2>1, <3>1, <3>2 DEF Held
    <2> QED
      BY <1>2, <2>2, <2>3, <2>4, TypesAre DEF WindowInv
  <1> QED
    BY <1>3, <1>4

LEMMA WindowInit ==
    ASSUME Resident!LateWindowAssumption
    PROVE  Resident!Init => WindowInv
PROOF
  <1> SUFFICES ASSUME Resident!Init PROVE WindowInv
    OBVIOUS
  <1>1. /\ withVectors = Indexed /\ unbumped = FALSE /\ version = 1
        /\ window = [key |-> 0, members |-> {}, torn |-> FALSE]
        /\ resident = FALSE /\ loaded = {} /\ alive = TRUE
        /\ refreshTimer = FALSE /\ rerun = FALSE /\ update = "recency"
        /\ windowKey = 0 /\ members = {} /\ base = {} /\ toAdd = {} /\ had = FALSE
        /\ torn = FALSE /\ failed = FALSE
    BY DEF Resident!Init, Resident!None
  <1>2. Cardinality(withVectors) \in Nat /\ Indexed \subseteq Blocks
    BY <1>1, WindowCardinality, FS_Subset, FS_CardinalityType DEF Resident!LateWindowAssumption
  <1>3. IndexTypes /\ RecordTypes /\ LocalTypes /\ StageTypes
    BY <1>1, <1>2 DEF IndexTypes, RecordTypes, LocalTypes, StageTypes
  <1>4. FlagTypes
    BY <1>1 DEF FlagTypes
  <1>5. Honest /\ Held /\ Requested
    BY <1>1 DEF Honest, Held, Requested, Current
  <1> QED
    BY <1>3, <1>4, <1>5, TypesAre DEF WindowInv

LEMMA WindowStep ==
    ASSUME Resident!LateWindowAssumption
    PROVE  WindowInv /\ [Resident!Next]_Resident!vars => WindowInv'
PROOF
  <1> SUFFICES ASSUME WindowInv, [Resident!Next]_Resident!vars PROVE WindowInv'
    OBVIOUS
  <1>1. ASSUME NEW b \in Blocks, Resident!Store(b) PROVE WindowInv'
    BY <1>1, WindowStores
  <1>2. CASE Resident!Bump
    BY <1>2, WindowBumps
  <1>3. CASE Resident!Query
    <2>1. Untouched /\ UNCHANGED <<withVectors, unbumped, version, rerun, update>>
      BY <1>3 DEF Resident!Query, Resident!indexVars, Resident!locals, Untouched
    <2>2. alive \in BOOLEAN /\ refreshTimer \in BOOLEAN
      BY DEF WindowInv, WindowTypes
    <2>3. CASE refreshTimer' = TRUE /\ UNCHANGED alive
      BY <2>1, <2>2, <2>3, WindowTimes
    <2>4. CASE alive' = TRUE /\ UNCHANGED refreshTimer
      BY <2>1, <2>2, <2>4, WindowTimes
    <2> QED
      BY <1>3, <2>3, <2>4 DEF Resident!Query
  <1>4. CASE Resident!TimerFires
    <2>1. /\ Untouched /\ UNCHANGED <<withVectors, unbumped, version, alive>>
          /\ alive \in BOOLEAN /\ refreshTimer' = FALSE
          /\ update' = IF update = "idle" THEN "recency" ELSE update
          /\ rerun' = (rerun \/ update # "idle")
      BY <1>4 DEF Resident!TimerFires, Resident!indexVars, Resident!workerVars, Resident!locals,
                  Untouched,
                  WindowInv, WindowTypes
    <2> QED
      BY <2>1, WindowTimes
  <1>5. CASE Resident!Look
    BY <1>5, WindowLooks
  <1>6. CASE Resident!ReadPage
    BY <1>6, WindowReads
  <1>7. CASE Resident!SendRefused
    BY <1>7, WindowRefused
  <1>8. CASE Resident!Respawned
    <2>1. /\ ~alive /\ update \in {"opening", "yield"} /\ alive' = TRUE /\ update' = "opening"
          /\ UNCHANGED <<withVectors, unbumped, version, refreshTimer, rerun>> /\ Untouched
      BY <1>8 DEF Resident!Respawned, Resident!Spawns, Resident!indexVars, Resident!locals,
                  Untouched
    <2>2. ~resident
      BY <2>1 DEF WindowInv, WindowTypes
    <2> QED
      BY <2>1, <2>2, WindowGoesOn
  <1>9. CASE Resident!NextBatch
    <2>1. /\ alive /\ update = "yield" /\ update' = IF resident THEN "adding" ELSE "opening"
          /\ UNCHANGED <<withVectors, unbumped, version, refreshTimer, rerun, alive>> /\ Untouched
      BY <1>9 DEF Resident!NextBatch, Resident!indexVars, Resident!workerVars, Resident!locals,
                  Untouched
    <2>2. alive' \in BOOLEAN
      BY <2>1 DEF WindowInv, WindowTypes
    <2> QED
      BY <2>1, <2>2, WindowGoesOn
  <1>10. CASE Resident!Opened
    BY <1>10, WindowOpened
  <1>11. CASE Resident!Added
    BY <1>11, WindowAdds
  <1>12. CASE Resident!Removed
    BY <1>12, WindowRemoves
  <1>13. CASE Resident!WorkerDies
    BY <1>13, WindowDies
  <1>14. CASE UNCHANGED Resident!vars
    <2>1. /\ Untouched
          /\ UNCHANGED <<withVectors, unbumped, version, alive, refreshTimer, rerun, update>>
          /\ alive \in BOOLEAN /\ refreshTimer \in BOOLEAN
      BY <1>14 DEF Resident!vars, Untouched, WindowInv, WindowTypes
    <2> QED
      BY <2>1, WindowTimes
  <1> QED
    BY <1>1, <1>2, <1>3, <1>4, <1>5, <1>6, <1>7, <1>8, <1>9, <1>10, <1>11, <1>12, <1>13, <1>14
       DEF Resident!Next

LEMMA WindowSafety ==
    ASSUME Resident!LateWindowAssumption
    PROVE  WindowInv => /\ Resident!TypeOK
                        /\ Resident!WindowWhole /\ Resident!KeyHonest /\ Resident!RequestsServed
PROOF
  <1> SUFFICES ASSUME WindowInv
               PROVE  /\ Resident!TypeOK
                      /\ Resident!WindowWhole /\ Resident!KeyHonest /\ Resident!RequestsServed
    OBVIOUS
  <1>1. Resident!TypeOK
    <2>1. /\ Cardinality(withVectors) \in Nat /\ Cardinality(Blocks) \in Nat
          /\ Cardinality(withVectors) <= Cardinality(Blocks)
      BY WindowCardinality, NoMore DEF WindowInv, WindowTypes, Resident!LateWindowAssumption
    <2>2. version \in 1..(1 + Cardinality(Blocks))
      BY <2>1 DEF WindowInv, WindowTypes
    <2>3. window.key \in 0..version /\ window.members \subseteq Blocks
      BY DEF WindowInv, WindowTypes
    <2>4. version \in 1..(1 + Resident!Cardinality(Blocks))
      BY <2>2, WindowCardinality
    <2> QED
      BY <2>3, <2>4 DEF WindowInv, WindowTypes, Resident!TypeOK
  <1>2. Resident!WindowWhole
    <2> SUFFICES ASSUME ~Resident!Filling, ~window.torn, resident
                 PROVE  window.members \subseteq loaded
      BY Zenon DEF Resident!WindowWhole, Resident!Hidden
    <2>1. update \in {"idle", "recency"} \/ (had /\ ~torn)
      BY DEF Resident!Filling, WindowInv, WindowTypes
    <2> QED
      BY <2>1 DEF WindowInv, WindowTypes, Held
  <1>3. Resident!KeyHonest
    BY DEF WindowInv, Honest, Current, Full, Resident!KeyHonest
  <1>4. Resident!RequestsServed
    BY DEF WindowInv, Requested, Resident!RequestsServed
  <1> QED
    BY <1>1, <1>2, <1>3, <1>4

\* The resident window: no query misses a block of it, its key is that of what it holds, and
\* no request for an update is forgotten.
THEOREM WindowServed ==
    ASSUME Resident!LateWindowAssumption
    PROVE  Resident!Spec => [](/\ Resident!TypeOK /\ Resident!WindowWhole
                               /\ Resident!KeyHonest /\ Resident!RequestsServed)
PROOF
  <1>1. Resident!Init => WindowInv
    BY WindowInit
  <1>2. WindowInv /\ [Resident!Next]_Resident!vars => WindowInv'
    BY WindowStep
  <1>3. WindowInv => /\ Resident!TypeOK /\ Resident!WindowWhole
                     /\ Resident!KeyHonest /\ Resident!RequestsServed
    BY WindowSafety
  <1> QED
    BY <1>1, <1>2, <1>3, PTL DEF Resident!Spec


-----------------------------------------------------------------------------
(***************************************************************************)
(* PacedLimiter.                                                           *)
(***************************************************************************)
CONSTANTS Callers, Classes, ClassOf, MaxInFlight, MinInterval
VARIABLES active, queue, ahead, caller, left, rest, hasty

Limiter == INSTANCE PacedLimiter WITH at <- caller

\* A caller waits in the queue of its class, once, exactly while it is queued.
Queued ==
    /\ \A k \in Limiter!ToSet(Classes) : \A i \in 1..Len(queue[k]) :
        caller[queue[k][i]] = "queued" /\ ClassOf[queue[k][i]] = k
    /\ \A k \in Limiter!ToSet(Classes) : \A i, j \in 1..Len(queue[k]) :
        queue[k][i] = queue[k][j] => i = j

\* The slots are counted, and all are taken while anyone waits.
Counted ==
    /\ active = Cardinality(Limiter!Holders) /\ active <= MaxInFlight
    /\ Limiter!Waiting # {} => active = MaxInFlight

\* The timers under way lie an interval apart, within the schedule, and none fires before
\* the interval since the last start is over.
Spaced ==
    /\ ~hasty /\ rest <= ahead
    /\ \A c \in Callers : caller[c] = "pacing" =>
                              rest <= left[c] /\ left[c] + MinInterval <= ahead
    /\ \A c, d \in Callers : c # d /\ caller[c] = "pacing" /\ caller[d] = "pacing" =>
        left[c] + MinInterval <= left[d] \/ left[d] + MinInterval <= left[c]

LimiterInv == Limiter!TypeOK /\ Queued /\ Counted /\ Spaced

-----------------------------------------------------------------------------
\* The least element of a set of numbers.
LEMMA MinOf ==
    ASSUME NEW S \in SUBSET Nat, S # {}
    PROVE  Limiter!Min(S) \in S
PROOF
  <1>1. \E x \in S : \A y \in S : ~(y < x)
    <2>1. PICK x \in S : \A y \in S : ~(<<y, x>> \in OpToRel(<, Nat))
      BY NatLessThanWellFounded, WFMin
    <2> QED
      BY <2>1 DEF OpToRel
  <1>2. \E x \in S : \A y \in S : x <= y
    BY <1>1
  <1> QED
    BY <1>2 DEF Limiter!Min

\* Who waits, by position.
LEMMA WaitingIs ==
    ASSUME Limiter!TypeOK
    PROVE  \A c : c \in Limiter!Waiting <=>
                      \E k \in Limiter!ToSet(Classes) : \E i \in
                          1..Len(queue[k]) : c = queue[k][i]
PROOF
  <1>1. DOMAIN queue = Limiter!ToSet(Classes)
    BY DEF Limiter!TypeOK
  <1>2. ASSUME NEW k \in Limiter!ToSet(Classes), NEW c
        PROVE  c \in Limiter!ToSet(queue[k]) <=> \E i \in 1..Len(queue[k]) : c = queue[k][i]
    <2>1. queue[k] \in Seq(Callers)
      BY DEF Limiter!TypeOK
    <2>2. DOMAIN queue[k] = 1..Len(queue[k])
      BY <2>1
    <2> QED
      BY <2>2 DEF Limiter!ToSet
  <1>3. \A c : c \in Limiter!Waiting <=>
                   \E k \in Limiter!ToSet(Classes) : c \in Limiter!ToSet(queue[k])
    BY <1>1 DEF Limiter!Waiting
  <1>4. ASSUME NEW c
        PROVE  c \in Limiter!Waiting <=>
                   \E k \in Limiter!ToSet(Classes) : \E i \in 1..Len(queue[k]) : c = queue[k][i]
    <2>1. c \in Limiter!Waiting <=>
              \E k \in Limiter!ToSet(Classes) : c \in Limiter!ToSet(queue[k])
      BY <1>3
    <2>2. \A k \in Limiter!ToSet(Classes) :
            c \in Limiter!ToSet(queue[k]) <=> \E i \in 1..Len(queue[k]) : c = queue[k][i]
      BY <1>2
    <2> QED
      BY <2>1, <2>2, Zenon
  <1> QED
    BY <1>4

\* While anyone waits, the class served next has a waiter.
LEMMA NextWaits ==
    ASSUME Limiter!PacedLimiterAssumption, Limiter!TypeOK, Limiter!Waiting # {}
    PROVE  Limiter!NextClass \in Limiter!ToSet(Classes) /\ queue[Limiter!NextClass] # <<>>
PROOF
  <1> DEFINE I == {i \in 1..Len(Classes) : queue[Classes[i]] # <<>>}
  <1>1. Classes \in Seq(Limiter!ToSet(Classes)) /\ Len(Classes) \in Nat
            /\ DOMAIN Classes = 1..Len(Classes)
    BY DEF Limiter!PacedLimiterAssumption
  <1>2. I # {}
    <2>1. PICK k \in Limiter!ToSet(Classes) : \E i \in 1..Len(queue[k]) : TRUE
      BY WaitingIs
    <2>2. queue[k] # <<>>
      BY <2>1
    <2>3. PICK i \in 1..Len(Classes) : k = Classes[i]
      BY <1>1 DEF Limiter!ToSet
    <2> QED
      BY <2>2, <2>3
  <1>4. Limiter!Min(I) \in I
    <2>1. I \in SUBSET Nat
      BY <1>1
    <2> QED
      BY <1>2, <2>1, MinOf
  <1>5. Limiter!NextClass = Classes[Limiter!Min(I)]
    <2>1. Limiter!NextClass = Classes[IF I # {} THEN Limiter!Min(I) ELSE 0]
      BY Zenon DEF Limiter!NextClass, Limiter!SelectInSeq
    <2> QED
      BY <1>2, <2>1, Zenon
  <1>6. \A i \in 1..Len(Classes) : Classes[i] \in Limiter!ToSet(Classes)
    BY <1>1 DEF Limiter!ToSet
  <1> QED
    BY <1>4, <1>5, <1>6

-----------------------------------------------------------------------------
\* Holders come and go one at a time.
LEMMA HoldersFinite ==
    ASSUME Limiter!PacedLimiterAssumption
    PROVE  IsFiniteSet(Limiter!Holders) /\ Cardinality(Limiter!Holders) \in Nat
PROOF
  <1>1. Limiter!Holders \subseteq Callers /\ IsFiniteSet(Callers)
    <2>1. Limiter!IsFiniteSet(Callers) <=> IsFiniteSet(Callers)
      BY Zenon DEF Limiter!IsFiniteSet, IsFiniteSet
    <2> QED
      BY <2>1 DEF Limiter!Holders, Limiter!PacedLimiterAssumption
  <1>2. IsFiniteSet(Limiter!Holders)
    BY <1>1, FS_Subset
  <1> QED
    BY <1>2, FS_CardinalityType

\* A request starts only when the interval since the last one is over.
LEMMA StartsOnTime ==
    ASSUME ~hasty, rest = 0, Limiter!Starts
    PROVE  ~hasty' /\ rest' = MinInterval /\ hasty' \in BOOLEAN
PROOF
  <1>1. rest' = MinInterval /\ hasty' = (hasty \/ rest > 0)
    BY DEF Limiter!Starts
  <1>2. ~(rest > 0)
    OBVIOUS
  <1> QED
    BY <1>1, <1>2

\* A start reserved behind all others keeps the schedule.
LEMMA ReserveSpaced ==
    ASSUME Limiter!PacedLimiterAssumption, LimiterInv, NEW c \in Callers, caller[c] # "pacing",
             Limiter!Reserve(c)
    PROVE  /\ Spaced' /\ ahead' \in Nat /\ rest' \in 0..MinInterval /\ hasty' \in BOOLEAN
           /\ left' \in [Callers -> Nat]
           /\ \E s \in {"pacing", "running"} : caller' = [caller EXCEPT ![c] = s]
PROOF
  <1>1. /\ ahead \in Nat /\ rest \in 0..MinInterval /\ left \in [Callers -> Nat]
        /\ caller \in [Callers -> {"idle", "queued", "handed", "pacing", "running"}]
        /\ MinInterval \in Nat /\ Spaced /\ hasty \in BOOLEAN
    BY DEF LimiterInv, Limiter!TypeOK, Limiter!PacedLimiterAssumption
  <1>2. /\ left' = [left EXCEPT ![c] = ahead] /\ ahead' = ahead + MinInterval
        /\ left'[c] = ahead /\ \A d \in Callers \ {c} : left'[d] = left[d]
    BY <1>1 DEF Limiter!Reserve
  <1>3. ahead' \in Nat /\ left' \in [Callers -> Nat]
    BY <1>1, <1>2
  <1>4. CASE ahead = 0
    <2>1. rest = 0 /\ ~hasty
      BY <1>1, <1>4 DEF Spaced
    <2>2. caller' = [caller EXCEPT ![c] = "running"] /\ Limiter!Starts
      BY <1>4 DEF Limiter!Reserve
    <2>3. ~hasty' /\ rest' = MinInterval /\ hasty' \in BOOLEAN
      BY <2>1, <2>2, StartsOnTime
    <2>4. MinInterval = 0 \/ \A d \in Callers : caller[d] # "pacing"
      BY <1>1, <1>4 DEF Spaced
    <2>5. \A d \in Callers : caller'[d] = "pacing" => d # c /\ caller[d] = "pacing"
      BY <1>1, <2>2
    <2>6. Spaced'
      BY <1>1, <1>2, <1>4, <2>3, <2>4, <2>5 DEF Spaced
    <2> QED
      BY <1>1, <1>3, <2>2, <2>3, <2>6
  <1>5. CASE ahead # 0
    <2>1. caller' = [caller EXCEPT ![c] = "pacing"] /\ rest' = rest /\ hasty' = hasty
      BY <1>5 DEF Limiter!Reserve
    <2>2. \A d \in Callers : d # c => caller'[d] = caller[d]
      BY <1>1, <2>1
    <2>3. ~hasty' /\ rest' <= ahead'
      BY <1>1, <1>2, <2>1 DEF Spaced
    <2>4. ASSUME NEW d \in Callers, caller'[d] = "pacing"
          PROVE  rest' <= left'[d] /\ left'[d] + MinInterval <= ahead'
      <3>1. CASE d = c
        BY <1>1, <1>2, <2>1, <3>1 DEF Spaced
      <3>2. CASE d # c
        BY <1>1, <1>2, <2>1, <2>2, <2>4, <3>2 DEF Spaced
      <3> QED
        BY <3>1, <3>2
    <2>5. ASSUME NEW d \in Callers, NEW e \in Callers, d # e, caller'[d] = "pacing",
                   caller'[e] = "pacing"
          PROVE  left'[d] + MinInterval <= left'[e] \/ left'[e] + MinInterval <= left'[d]
      <3>1. CASE d # c /\ e # c
        BY <1>1, <1>2, <2>2, <2>5, <3>1 DEF Spaced
      <3>2. CASE d = c
        BY <1>1, <1>2, <2>2, <2>5, <3>2 DEF Spaced
      <3>3. CASE e = c
        BY <1>1, <1>2, <2>2, <2>5, <3>3 DEF Spaced
      <3> QED
        BY <3>1, <3>2, <3>3
    <2>6. Spaced'
      BY <2>3, <2>4, <2>5 DEF Spaced
    <2> QED
      BY <1>1, <1>3, <2>1, <2>6
  <1> QED
    BY <1>4, <1>5

\* Nobody in a queue is touched.
LEMMA QueuedStays ==
    ASSUME Limiter!TypeOK, Queued, NEW c \in Callers, NEW s, caller[c] # "queued",
           caller' = [caller EXCEPT ![c] = s], UNCHANGED queue
    PROVE  Queued'
PROOF
  <1>1. ASSUME NEW k \in Limiter!ToSet(Classes), NEW i \in 1..Len(queue[k])
        PROVE  caller'[queue[k][i]] = "queued" /\ ClassOf[queue[k][i]] = k
    <2>1. queue[k] \in Seq(Callers)
      BY DEF Limiter!TypeOK
    <2>2. queue[k][i] \in Callers
      BY <2>1
    <2>3. caller[queue[k][i]] = "queued" /\ ClassOf[queue[k][i]] = k
      BY DEF Queued
    <2>4. caller'[queue[k][i]] = caller[queue[k][i]]
      BY <2>2, <2>3 DEF Limiter!TypeOK
    <2> QED
      BY <2>3, <2>4
  <1> QED
    BY <1>1 DEF Queued

\* A caller that keeps its slot, or gets none, changes no count.
LEMMA SameSlots ==
    ASSUME LimiterInv, NEW c \in Callers, NEW s \in {"pacing", "running"},
           caller[c] \in {"handed", "pacing"},
           caller' = [caller EXCEPT ![c] = s], UNCHANGED <<active, queue>>
    PROVE  Queued' /\ Counted'
PROOF
  <1>1. Limiter!TypeOK /\ Queued /\ Counted
    BY DEF LimiterInv
  <1>2. Limiter!Holders' = Limiter!Holders
    BY <1>1 DEF Limiter!Holders, Limiter!TypeOK
  <1>3. Limiter!Waiting' = Limiter!Waiting
    BY DEF Limiter!Waiting
  <1>4. Counted'
    BY <1>1, <1>2, <1>3 DEF Counted
  <1>5. Queued'
    BY <1>1, QueuedStays
  <1> QED
    BY <1>4, <1>5

LEMMA AcquireInv ==
    ASSUME Limiter!PacedLimiterAssumption, LimiterInv, NEW c \in Callers, Limiter!Acquire(c)
    PROVE  LimiterInv'
PROOF
  <1>1. /\ Limiter!TypeOK /\ Queued /\ Counted /\ Spaced /\ caller[c] = "idle"
               /\ MaxInFlight \in Nat
        /\ ClassOf[c] \in Limiter!ToSet(Classes)
    BY DEF LimiterInv, Limiter!Acquire, Limiter!PacedLimiterAssumption
  <1>2. CASE active < MaxInFlight /\ Limiter!Waiting = {} /\ active' = active + 1
                 /\ Limiter!Reserve(c) /\ UNCHANGED queue
    <2>1. /\ Spaced' /\ ahead' \in Nat /\ rest' \in 0..MinInterval /\ hasty' \in BOOLEAN
          /\ left' \in [Callers -> Nat]
          /\ \E s \in {"pacing", "running"} : caller' = [caller EXCEPT ![c] = s]
      BY <1>1, <1>2, ReserveSpaced
    <2>2. PICK s \in {"pacing", "running"} : caller' = [caller EXCEPT ![c] = s]
      BY <2>1
    <2>3. Limiter!TypeOK'
      BY <1>1, <1>2, <2>1, <2>2 DEF Limiter!TypeOK
    <2>4. Limiter!Holders' = Limiter!Holders \cup {c} /\ c \notin Limiter!Holders
      BY <1>1, <2>2 DEF Limiter!Holders, Limiter!TypeOK
    <2>5. Cardinality(Limiter!Holders') = Cardinality(Limiter!Holders) + 1
      BY <2>4, HoldersFinite, FS_AddElement
    <2>6. Limiter!Waiting' = {}
      BY <1>2 DEF Limiter!Waiting
    <2>7. Counted'
      BY <1>1, <1>2, <2>5, <2>6 DEF Counted, Limiter!TypeOK
    <2>8. Queued'
      BY <1>1, <1>2, <2>2, QueuedStays
    <2> QED
      BY <2>1, <2>3, <2>7, <2>8 DEF LimiterInv
  <1>3. CASE /\ active >= MaxInFlight \/ Limiter!Waiting # {}
             /\ queue' = [queue EXCEPT ![ClassOf[c]] = Append(@, c)]
             /\ caller' = [caller EXCEPT ![c] = "queued"]
             /\ UNCHANGED <<active, ahead, left, rest, hasty>>
    <2> DEFINE k == ClassOf[c]
    <2>1. /\ queue[k] \in Seq(Callers) /\ queue'[k] = Append(queue[k], c)
          /\ \A l \in Limiter!ToSet(Classes) : l # k => queue'[l] = queue[l]
      BY <1>1, <1>3 DEF Limiter!TypeOK
    <2>2. /\ Len(queue'[k]) = Len(queue[k]) + 1 /\ Len(queue[k]) \in Nat
          /\ \A i \in 1..Len(queue'[k]) : \/ i \in 1..Len(queue[k]) /\ queue'[k][i] = queue[k][i]
                                          \/ i = Len(queue[k]) + 1 /\ queue'[k][i] = c
      BY <2>1
    <2>3. Limiter!TypeOK'
      <3>1. Append(queue[k], c) \in Seq(Callers)
        BY <2>1
      <3> QED
        BY <1>1, <1>3, <3>1 DEF Limiter!TypeOK
    <2>4. Limiter!Holders' = Limiter!Holders
      BY <1>1, <1>3 DEF Limiter!Holders, Limiter!TypeOK
    <2>5. Counted'
      BY <1>1, <1>3, <2>4 DEF Counted, Limiter!TypeOK
    <2>6. \A l \in Limiter!ToSet(Classes) : \A i \in 1..Len(queue[l]) : queue[l][i] # c
      BY <1>1 DEF Queued
    <2>7. \A d \in Callers : d # c => caller'[d] = caller[d]
      BY <1>1, <1>3 DEF Limiter!TypeOK
    <2>8. \A l \in Limiter!ToSet(Classes) : \A i \in 1..Len(queue[l]) : queue[l][i] \in Callers
      BY <1>1 DEF Limiter!TypeOK
    <2> HIDE DEF k
    <2>9. Queued'
      <3>1. ASSUME NEW l \in Limiter!ToSet(Classes), NEW i \in 1..Len(queue'[l])
            PROVE  caller'[queue'[l][i]] = "queued" /\ ClassOf[queue'[l][i]] = l
        <4>1. caller'[c] = "queued" /\ ClassOf[c] = k
          BY <1>1, <1>3 DEF Limiter!TypeOK, k
        <4>2. CASE l # k
          BY <1>1, <2>1, <2>6, <2>7, <2>8, <3>1, <4>2 DEF Queued
        <4>3. CASE l = k
          BY <1>1, <2>2, <2>6, <2>7, <2>8, <3>1, <4>1, <4>3 DEF Queued
        <4> QED
          BY <4>2, <4>3
      <3>2. ASSUME NEW l \in Limiter!ToSet(Classes), NEW i \in 1..Len(queue'[l]),
                     NEW j \in 1..Len(queue'[l]),
                   queue'[l][i] = queue'[l][j]
            PROVE  i = j
        <4>1. CASE l # k
          BY <1>1, <2>1, <3>2, <4>1 DEF Queued
        <4>2. CASE l = k
          <5>1. k \in Limiter!ToSet(Classes)
            BY <4>2
          <5>2. \A x, y \in 1..Len(queue[k]) : queue[k][x] = queue[k][y] => x = y
            BY <1>1, <5>1 DEF Queued
          <5>3. \A x \in 1..Len(queue[k]) : queue[k][x] # c
            BY <2>6, <5>1
          <5> QED
            BY <2>2, <3>2, <4>2, <5>2, <5>3
        <4> QED
          BY <4>1, <4>2
      <3> QED
        BY <3>1, <3>2 DEF Queued
    <2>10. Spaced'
      BY <1>1, <1>3 DEF Spaced, Limiter!TypeOK
    <2> QED
      BY <2>3, <2>5, <2>9, <2>10 DEF LimiterInv
  <1> QED
    BY <1>2, <1>3 DEF Limiter!Acquire

LEMMA ResumeInv ==
    ASSUME Limiter!PacedLimiterAssumption, LimiterInv, NEW c \in Callers, Limiter!Resume(c)
    PROVE  LimiterInv'
PROOF
  <1>1. Limiter!TypeOK /\ caller[c] = "handed" /\ Limiter!Reserve(c)
            /\ UNCHANGED <<active, queue>>
    BY DEF LimiterInv, Limiter!Resume
  <1>2. /\ Spaced' /\ ahead' \in Nat /\ rest' \in 0..MinInterval /\ hasty' \in BOOLEAN
        /\ left' \in [Callers -> Nat]
        /\ \E s \in {"pacing", "running"} : caller' = [caller EXCEPT ![c] = s]
    BY <1>1, ReserveSpaced
  <1>3. PICK s \in {"pacing", "running"} : caller' = [caller EXCEPT ![c] = s]
    BY <1>2
  <1>4. Limiter!TypeOK'
    BY <1>1, <1>2, <1>3 DEF Limiter!TypeOK
  <1>5. Queued' /\ Counted'
    BY <1>1, <1>3, SameSlots
  <1> QED
    BY <1>2, <1>4, <1>5 DEF LimiterInv

LEMMA StartInv ==
    ASSUME Limiter!PacedLimiterAssumption, LimiterInv, NEW c \in Callers, Limiter!Start(c)
    PROVE  LimiterInv'
PROOF
  <1>1. /\ Limiter!TypeOK /\ Spaced /\ caller[c] = "pacing" /\ left[c] = 0 /\ Limiter!Starts
               /\ MinInterval \in Nat
        /\ caller' = [caller EXCEPT ![c] = "running"] /\ UNCHANGED <<active, queue, ahead, left>>
    BY DEF LimiterInv, Limiter!Start, Limiter!PacedLimiterAssumption
  <1>2. rest = 0 /\ ~hasty
    BY <1>1 DEF Spaced, Limiter!TypeOK
  <1>3. ~hasty' /\ rest' = MinInterval /\ hasty' \in BOOLEAN
    BY <1>1, <1>2, StartsOnTime
  <1>4. Limiter!TypeOK'
    BY <1>1, <1>3 DEF Limiter!TypeOK
  <1>5. Queued' /\ Counted'
    BY <1>1, SameSlots
  <1>6. \A d \in Callers : caller'[d] = "pacing" => d # c /\ caller[d] = "pacing"
    BY <1>1 DEF Limiter!TypeOK
  <1>7. \A d \in Callers : caller'[d] = "pacing" => MinInterval <= left[d]
    BY <1>1, <1>6 DEF Spaced, Limiter!TypeOK
  <1>8. MinInterval <= ahead
    BY <1>1 DEF Spaced, Limiter!TypeOK
  <1>9. Spaced'
    BY <1>1, <1>3, <1>6, <1>7, <1>8 DEF Spaced
  <1> QED
    BY <1>4, <1>5, <1>9 DEF LimiterInv

LEMMA ReleaseInv ==
    ASSUME Limiter!PacedLimiterAssumption, LimiterInv, NEW c \in Callers, Limiter!Release(c)
    PROVE  LimiterInv'
PROOF
  <1>1. /\ Limiter!TypeOK /\ Queued /\ Counted /\ Spaced /\ caller[c] = "running"
               /\ MaxInFlight \in Nat
        /\ UNCHANGED <<ahead, left, rest, hasty>>
    BY DEF LimiterInv, Limiter!Release, Limiter!PacedLimiterAssumption
  <1>2. c \in Limiter!Holders /\ IsFiniteSet(Limiter!Holders)
            /\ Cardinality(Limiter!Holders) \in Nat
    BY <1>1, HoldersFinite DEF Limiter!Holders
  <1>3. Cardinality(Limiter!Holders \ {c}) = Cardinality(Limiter!Holders) - 1
            /\ IsFiniteSet(Limiter!Holders \ {c})
    BY <1>2, FS_RemoveElement
  <1>4. CASE Limiter!Waiting = {}
    <2>1. active' = active - 1 /\ caller' = [caller EXCEPT ![c] = "idle"] /\ UNCHANGED queue
      BY <1>4 DEF Limiter!Release
    <2>2. Limiter!Holders' = Limiter!Holders \ {c}
      BY <1>1, <2>1 DEF Limiter!Holders, Limiter!TypeOK
    <2>3. 0 < Cardinality(Limiter!Holders)
      BY <1>2, FS_EmptySet
    <2>4. Limiter!Waiting' = {}
      BY <1>4, <2>1 DEF Limiter!Waiting
    <2>5. Counted' /\ active' \in Nat
      BY <1>1, <1>2, <1>3, <2>1, <2>2, <2>3, <2>4 DEF Counted, Limiter!TypeOK
    <2>6. Limiter!TypeOK'
      BY <1>1, <2>1, <2>5 DEF Limiter!TypeOK
    <2>7. Queued'
      BY <1>1, <2>1, QueuedStays
    <2>8. Spaced'
      BY <1>1, <2>1 DEF Spaced, Limiter!TypeOK
    <2> QED
      BY <2>5, <2>6, <2>7, <2>8 DEF LimiterInv
  <1>5. CASE Limiter!Waiting # {}
    <2> DEFINE k == Limiter!NextClass
               d == Head(queue[k])
    <2>1. k \in Limiter!ToSet(Classes) /\ queue[k] # <<>>
      BY <1>1, <1>5, NextWaits
    <2>2. /\ queue' = [queue EXCEPT ![k] = Tail(@)]
          /\ caller' = [caller EXCEPT ![c] = "idle", ![d] = "handed"]
          /\ UNCHANGED active
      BY <1>5 DEF Limiter!Release
    <2> HIDE DEF k
    <2>3. queue[k] \in Seq(Callers) /\ Len(queue[k]) \in Nat /\ Len(queue[k]) > 0
      BY <1>1, <2>1 DEF Limiter!TypeOK
    <2>4. d = queue[k][1] /\ d \in Callers /\ 1 \in 1..Len(queue[k])
      BY <2>1, <2>3
    <2>5. caller[d] = "queued"
      BY <1>1, <2>1, <2>4 DEF Queued
    <2>6. /\ Tail(queue[k]) \in Seq(Callers) /\ Len(Tail(queue[k])) = Len(queue[k]) - 1
          /\ \A i \in 1..Len(Tail(queue[k])) : i + 1 \in 1..Len(queue[k])
                                                   /\ Tail(queue[k])[i] = queue[k][i + 1]
      BY <2>1, <2>3
    <2> HIDE DEF d
    <2>7. caller'[c] = "idle" /\ caller'[d] = "handed" /\ \A e \in Callers : e # c /\ e # d =>
              caller'[e] = caller[e]
      BY <1>1, <2>2, <2>4, <2>5 DEF Limiter!TypeOK
    <2>8. Limiter!TypeOK'
      <3>1. queue' \in [Limiter!ToSet(Classes) -> Seq(Callers)]
        BY <1>1, <2>2, <2>6 DEF Limiter!TypeOK
      <3>2. caller' \in [Callers -> {"idle", "queued", "handed", "pacing", "running"}]
        BY <1>1, <2>2 DEF Limiter!TypeOK
      <3> QED
        BY <1>1, <2>2, <3>1, <3>2 DEF Limiter!TypeOK
    <2>9. Limiter!Holders' = (Limiter!Holders \ {c}) \cup {d} /\ d \notin Limiter!Holders \ {c}
      BY <1>1, <2>4, <2>5, <2>7 DEF Limiter!Holders
    <2>10. Cardinality(Limiter!Holders') = Cardinality(Limiter!Holders)
      <3>1. Cardinality((Limiter!Holders \ {c}) \cup {d}) = Cardinality(Limiter!Holders \ {c}) + 1
        BY <1>3, <2>9, FS_AddElement
      <3> QED
        BY <1>2, <1>3, <2>9, <3>1
    <2>11. Counted'
      <3>1. active = MaxInFlight
        BY <1>1, <1>5 DEF Counted
      <3> QED
        BY <1>1, <2>2, <2>10, <3>1 DEF Counted
    <2>12. queue'[k] = Tail(queue[k]) /\ \A l \in Limiter!ToSet(Classes) : l # k =>
               queue'[l] = queue[l]
      BY <1>1, <2>1, <2>2 DEF Limiter!TypeOK
    <2>13. Queued'
      <3>1. ASSUME NEW l \in Limiter!ToSet(Classes)
            PROVE  \E n \in {0, 1} : \A i \in 1..Len(queue'[l]) :
                     /\ i + n \in 1..Len(queue[l]) /\ queue'[l][i] = queue[l][i + n]
                     /\ queue[l][i + n] # d
        <4>1. CASE l = k
          <5>1. \A x \in 1..Len(queue[k]) : queue[k][x] = d => x = 1
            BY <1>1, <2>1, <2>4 DEF Queued
          <5>2. \A i \in 1..Len(queue'[k]) : i + 1 # 1
            BY <2>6, <2>12
          <5> QED
            BY <2>6, <2>12, <4>1, <5>1, <5>2
        <4>2. CASE l # k
          <5>1. ClassOf[d] = k /\ \A x \in 1..Len(queue[l]) : ClassOf[queue[l][x]] = l
            BY <1>1, <2>1, <2>4 DEF Queued
          <5>2. queue[l] \in Seq(Callers)
            BY <1>1 DEF Limiter!TypeOK
          <5>3. \A i \in 1..Len(queue[l]) : i + 0 = i
            BY <5>2
          <5> QED
            BY <2>12, <4>2, <5>1, <5>3
        <4> QED
          BY <4>1, <4>2
      <3>2. ASSUME NEW l \in Limiter!ToSet(Classes), NEW i \in 1..Len(queue'[l])
            PROVE  caller'[queue'[l][i]] = "queued" /\ ClassOf[queue'[l][i]] = l
        <4>1. PICK n \in {0, 1} : i + n \in 1..Len(queue[l])
                  /\ queue'[l][i] = queue[l][i + n] /\ queue[l][i + n] # d
          BY <3>1
        <4>2. queue[l] \in Seq(Callers)
          BY <1>1 DEF Limiter!TypeOK
        <4>3. queue[l][i + n] \in Callers
          BY <4>1, <4>2
        <4>4. caller[queue[l][i + n]] = "queued" /\ ClassOf[queue[l][i + n]] = l
          BY <1>1, <4>1 DEF Queued
        <4> QED
          BY <1>1, <2>7, <4>1, <4>3, <4>4
      <3>3. ASSUME NEW l \in Limiter!ToSet(Classes), NEW i \in 1..Len(queue'[l]),
                     NEW j \in 1..Len(queue'[l]),
                   queue'[l][i] = queue'[l][j]
            PROVE  i = j
        <4>1. PICK n \in {0, 1} : \A x \in 1..Len(queue'[l]) :
                x + n \in 1..Len(queue[l]) /\ queue'[l][x] = queue[l][x + n]
          BY <3>1
        <4>2. i + n = j + n
          BY <1>1, <3>3, <4>1 DEF Queued
        <4>3. i \in Int /\ j \in Int
          OBVIOUS
        <4> QED
          BY <4>2, <4>3
      <3> QED
        BY <3>2, <3>3 DEF Queued
    <2>14. \A e \in Callers : caller'[e] = "pacing" => caller[e] = "pacing"
      BY <2>4, <2>7
    <2>15. Spaced'
      BY <1>1, <2>14 DEF Spaced
    <2> QED
      BY <2>8, <2>11, <2>13, <2>15 DEF LimiterInv
  <1> QED
    BY <1>4, <1>5

LEMMA TickInv ==
    ASSUME Limiter!PacedLimiterAssumption, LimiterInv, Limiter!Tick PROVE LimiterInv'
PROOF
  <1>1. /\ Limiter!TypeOK /\ Queued /\ Counted /\ Spaced /\ MinInterval \in Nat
        /\ \A c \in Callers : caller[c] = "pacing" => left[c] > 0
        /\ ahead' = IF ahead > 0 THEN ahead - 1 ELSE 0
        /\ rest' = IF rest > 0 THEN rest - 1 ELSE 0
        /\ left' = [c \in Callers |-> IF left[c] > 0 THEN left[c] - 1 ELSE 0]
        /\ UNCHANGED <<active, queue, caller, hasty>>
    BY DEF LimiterInv, Limiter!Tick, Limiter!PacedLimiterAssumption
  <1>2. Limiter!TypeOK'
    <2>1. \A c \in Callers : left'[c] \in Nat
      BY <1>1 DEF Limiter!TypeOK
    <2>2. left' \in [Callers -> Nat]
      BY <1>1, <2>1
    <2>3. ahead' \in Nat /\ rest' \in 0..MinInterval
      BY <1>1 DEF Limiter!TypeOK
    <2> QED
      BY <1>1, <2>2, <2>3 DEF Limiter!TypeOK
  <1>3. Queued'
    BY <1>1 DEF Queued
  <1>4. Limiter!Holders' = Limiter!Holders /\ Limiter!Waiting' = Limiter!Waiting
    BY <1>1 DEF Limiter!Holders, Limiter!Waiting
  <1>5. Counted'
    BY <1>1, <1>4 DEF Counted
  <1>6. \A c \in Callers : caller[c] = "pacing" => left'[c] = left[c] - 1 /\ left[c] \in Nat
    BY <1>1 DEF Limiter!TypeOK
  <1>7. ahead \in Nat /\ rest \in Nat /\ rest <= ahead /\ ~hasty'
    BY <1>1 DEF Limiter!TypeOK, Spaced
  <1>8. ASSUME NEW c \in Callers, caller'[c] = "pacing"
        PROVE  rest' <= left'[c] /\ left'[c] + MinInterval <= ahead'
    <2>1. caller[c] = "pacing"
      BY <1>1, <1>8
    <2>2. rest <= left[c] /\ left[c] + MinInterval <= ahead /\ left[c] > 0
      BY <1>1, <2>1 DEF Spaced
    <2> QED
      BY <1>1, <1>6, <1>7, <2>1, <2>2
  <1>9. ASSUME NEW c \in Callers, NEW d \in Callers, c # d, caller'[c] = "pacing",
                 caller'[d] = "pacing"
        PROVE  left'[c] + MinInterval <= left'[d] \/ left'[d] + MinInterval <= left'[c]
    <2>1. left[c] + MinInterval <= left[d] \/ left[d] + MinInterval <= left[c]
      BY <1>1, <1>9 DEF Spaced
    <2> QED
      BY <1>1, <1>6, <1>9, <2>1
  <1>10. rest' <= ahead'
    BY <1>1, <1>7
  <1>11. Spaced'
    BY <1>7, <1>8, <1>9, <1>10 DEF Spaced
  <1> QED
    BY <1>2, <1>3, <1>5, <1>11 DEF LimiterInv

LEMMA LimiterInit ==
    ASSUME Limiter!PacedLimiterAssumption, Limiter!Init PROVE LimiterInv
PROOF
  <1>1. Limiter!TypeOK
    <2>1. queue \in [Limiter!ToSet(Classes) -> Seq(Callers)]
      <3>1. queue = [k \in Limiter!ToSet(Classes) |-> <<>>] /\ <<>> \in Seq(Callers)
        BY DEF Limiter!Init
      <3> QED
        BY <3>1
    <2>2. caller \in [Callers -> {"idle", "queued", "handed", "pacing", "running"}]
              /\ left \in [Callers -> Nat]
      BY DEF Limiter!Init
    <2>3. rest \in 0..MinInterval /\ active \in Nat /\ ahead \in Nat /\ hasty \in BOOLEAN
      <3>1. rest = 0 /\ active = 0 /\ ahead = 0 /\ MinInterval \in Nat
        BY DEF Limiter!Init, Limiter!PacedLimiterAssumption
      <3>2. rest \in 0..MinInterval /\ active \in Nat /\ ahead \in Nat
        BY <3>1
      <3>3. hasty \in BOOLEAN
        BY DEF Limiter!Init
      <3> QED
        BY <3>2, <3>3
    <2> QED
      BY <2>1, <2>2, <2>3 DEF Limiter!TypeOK
  <1>2. \A k \in Limiter!ToSet(Classes) : queue[k] = <<>>
    BY DEF Limiter!Init
  <1>3. Queued
    BY <1>2 DEF Queued
  <1>4. Limiter!Waiting = {}
    <2>1. \A c : c \notin Limiter!Waiting
      BY <1>1, <1>2, WaitingIs
    <2> QED
      BY <2>1
  <1>5. Limiter!Holders = {}
    BY DEF Limiter!Init, Limiter!Holders
  <1>6. Counted
    BY <1>4, <1>5, FS_EmptySet DEF Counted, Limiter!Init, Limiter!PacedLimiterAssumption
  <1>7. Spaced
    BY DEF Limiter!Init, Spaced
  <1> QED
    BY <1>1, <1>3, <1>6, <1>7 DEF LimiterInv

\* Every step of the limiter keeps the invariant.
LEMMA LimiterStep ==
    ASSUME Limiter!PacedLimiterAssumption, LimiterInv, [Limiter!Next]_(Limiter!vars)
    PROVE  LimiterInv'
PROOF
  <1>1. CASE Limiter!Next
    BY <1>1, AcquireInv, ResumeInv, StartInv, ReleaseInv, TickInv DEF Limiter!Next
  <1>2. CASE UNCHANGED Limiter!vars
    <2>1. Limiter!TypeOK' /\ Queued' /\ Spaced' /\ UNCHANGED <<active, caller, queue>>
      BY <1>2 DEF Limiter!vars, LimiterInv, Limiter!TypeOK, Queued, Spaced
    <2>2. Limiter!Holders' = Limiter!Holders /\ Limiter!Waiting' = Limiter!Waiting
      BY <2>1 DEF Limiter!Holders, Limiter!Waiting
    <2>3. Counted'
      BY <2>1, <2>2 DEF LimiterInv, Counted
    <2> QED
      BY <2>1, <2>3 DEF LimiterInv
  <1> QED
    BY <1>1, <1>2

LEMMA LimiterSafe ==
    ASSUME LimiterInv
    PROVE  /\ Limiter!TypeOK /\ Limiter!InFlightBounded
           /\ Limiter!NoSlotLost /\ Limiter!StartsPaced
PROOF
  <1>1. Limiter!Cardinality(Limiter!Holders) = Cardinality(Limiter!Holders)
    BY Zenon DEF Limiter!Cardinality, Cardinality
  <1> QED
    BY <1>1 DEF LimiterInv, Counted, Spaced, Limiter!InFlightBounded, Limiter!NoSlotLost,
       Limiter!StartsPaced

\* The invariant of the limiter.
THEOREM LimiterInvHolds ==
    ASSUME Limiter!PacedLimiterAssumption
    PROVE  Limiter!Spec => []LimiterInv
PROOF
  <1>1. Limiter!Init => LimiterInv
    BY LimiterInit
  <1>2. LimiterInv /\ [Limiter!Next]_(Limiter!vars) => LimiterInv'
    BY LimiterStep
  <1> QED
    BY <1>1, <1>2, PTL DEF Limiter!Spec

\* The limiter's types: each caller does one thing, and the queues hold callers.
THEOREM LimiterTyped ==
    ASSUME Limiter!PacedLimiterAssumption
    PROVE  Limiter!Spec => []Limiter!TypeOK
PROOF
  <1>1. LimiterInv => Limiter!TypeOK
    BY LimiterSafe
  <1> QED
    BY <1>1, LimiterInvHolds, PTL

\* No more callers have a slot than there are, however slots are handed over.
THEOREM SlotsBounded ==
    ASSUME Limiter!PacedLimiterAssumption
    PROVE  Limiter!Spec => []Limiter!InFlightBounded
PROOF
  <1>1. LimiterInv => Limiter!InFlightBounded
    BY LimiterSafe
  <1> QED
    BY <1>1, LimiterInvHolds, PTL

\* No slot is lost: nobody waits while one is free.
THEOREM SlotsKept ==
    ASSUME Limiter!PacedLimiterAssumption
    PROVE  Limiter!Spec => []Limiter!NoSlotLost
PROOF
  <1>1. LimiterInv => Limiter!NoSlotLost
    BY LimiterSafe
  <1> QED
    BY <1>1, LimiterInvHolds, PTL

\* No two requests start closer together than the interval, although a caller that was
\* handed a slot looks at the schedule only when it resumes.
THEOREM StartsApart ==
    ASSUME Limiter!PacedLimiterAssumption
    PROVE  Limiter!Spec => []Limiter!StartsPaced
PROOF
  <1>1. LimiterInv => Limiter!StartsPaced
    BY LimiterSafe
  <1> QED
    BY <1>1, LimiterInvHolds, PTL
=============================================================================
