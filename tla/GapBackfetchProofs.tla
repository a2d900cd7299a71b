------------------------- MODULE GapBackfetchProofs -------------------------
(***************************************************************************)
(* Proofs about GapBackfetch, for every set of units, every number of      *)
(* messages and every page size: first what holds under every fault, then  *)
(* what holds when no read or write fails and no cap goes unrecorded, and  *)
(* last the same for the instances of MCGapRuns.                           *)
(***************************************************************************)
EXTENDS MCGapRuns, FiniteSetTheorems, WellFoundedInduction, TLAPS

Phases == {"idle", "frozen", "filling", "committing", "held", "done", "failed"}

Shaped ==
    /\ proc \in {"down", "prepared", "up", "draining"}
    /\ posted \in [Units -> 0..MaxMessages] /\ since \in [Units -> 0..MaxMessages]
    /\ delivered \in [Units -> 0..MaxMessages]
    /\ floor \in [Units -> 0..MaxMessages] /\ cursor \in [Units -> 0..MaxMessages]
    /\ phase \in [Units -> Phases]
    /\ erased \in [Units -> SUBSET Messages] /\ own \in [Units -> SUBSET Messages]
    /\ stored \in [Units -> SUBSET Messages] /\ deleted \in [Units -> SUBSET Messages]
    /\ waived \in [Units -> SUBSET Messages] /\ hole \in [Units -> SUBSET Messages]
    /\ buf \in [Units -> SUBSET Messages] /\ todo \in [Units -> SUBSET Messages]
    /\ marked \in [Units -> SUBSET Messages] /\ parked \in [Units -> SUBSET Messages]
    /\ handled \in [Units -> SUBSET Messages] /\ retracted \in [Units -> SUBSET Messages]
    /\ lapsed \in [Units -> SUBSET Messages]
    /\ live \in [Units -> Seq(Messages)] /\ intake \in [Units -> Seq(Messages)]

\* The buffers hold what was posted, and only while their unit's freeze, or its failure, lasts.
Fits(u) ==
    /\ erased[u] \subseteq 1..posted[u]
    /\ stored[u] \subseteq 1..posted[u] /\ deleted[u] \subseteq stored[u]
    /\ since[u] <= delivered[u] /\ delivered[u] <= posted[u] /\ cursor[u] <= posted[u]
    /\ todo[u] \subseteq buf[u] /\ buf[u] \subseteq 1..posted[u]
    /\ \A k \in 1..Len(intake[u]) : intake[u][k] <= posted[u]
    /\ \A k \in 1..Len(live[u]) : live[u][k] <= posted[u]
    /\ phase[u] \in {"idle", "done"} => buf[u] = {} /\ live[u] = <<>>
    /\ phase[u] \notin {"committing", "failed"} => todo[u] = {}

\* A deletion this process has seen is in the table, is kept for the message it awaits, or has
\* lapsed: one of the three, and all of them are of messages deleted at their source.
Remembered(u) ==
    /\ stored[u] \cap retracted[u] \subseteq deleted[u] \cup lapsed[u]
    /\ retracted[u] \ stored[u] \subseteq Retractions(u) \cup lapsed[u]
    /\ deleted[u] \cup marked[u] \cup parked[u] \cup lapsed[u] \subseteq erased[u]
    /\ parked[u] \cap (deleted[u] \cup marked[u]) = {}
    /\ lapsed[u] \cap (deleted[u] \cup Retractions(u)) = {}

Sound == Shaped /\ \A u \in Units : Fits(u) /\ Remembered(u)

\* A process that is down has left nothing behind.
Asleep == proc = "down" => phase = Idle

\* The inductive invariant, under every fault.
IInv == Sound /\ Asleep

-----------------------------------------------------------------------------
\* The least element of a set of messages.
LEMMA MinOf ==
    ASSUME NEW S \in SUBSET Nat, S # {}
    PROVE  Min(S) \in S /\ \A x \in S : Min(S) <= x
PROOF
  <1>1. \E x \in S : \A y \in S : ~(y < x)
    <2>1. PICK x \in S : \A y \in S : ~(<<y, x>> \in OpToRel(<, Nat))
      BY NatLessThanWellFounded, WFMin
    <2> QED
      BY <2>1 DEF OpToRel
  <1>2. \E x \in S : \A y \in S : x <= y
    BY <1>1
  <1> QED
    BY <1>2 DEF Min

\* Inserting a posted message: nothing but its own deletion mark and the acknowledged
\* losses below it changes with it.
LEMMA Inserts ==
    ASSUME Sound, NEW u \in Units, NEW m \in Messages, Insert(u, m)
    PROVE  /\ stored' \in [Units -> SUBSET Messages] /\ deleted' \in [Units -> SUBSET Messages]
           /\ waived' \in [Units -> SUBSET Messages] /\ parked' \in [Units -> SUBSET Messages]
           /\ stored'[u] = stored[u] \cup {m}
           /\ waived'[u] = waived[u] \cup {h \in hole[u] : h < m}
           /\ deleted'[u] \subseteq stored'[u]
           /\ deleted[u] \subseteq deleted'[u]
           /\ m \in Retractions(u) \ stored[u] => m \in deleted'[u]
           /\ deleted'[u] \subseteq deleted[u] \cup (Retractions(u) \cap {m})
           /\ m \in deleted'[u] \ deleted[u] => m \notin parked'[u]
           /\ parked[u] \ {m} \subseteq parked'[u] /\ parked'[u] \subseteq parked[u]
           /\ m \in stored[u] => parked'[u] = parked[u]
           /\ \A v \in Units \ {u} : /\ stored'[v] = stored[v] /\ deleted'[v] = deleted[v]
                                     /\ waived'[v] = waived[v] /\ parked'[v] = parked[v]
BY DEF Sound, Shaped, Fits, Insert

\* What queues within the posted history stays within a longer one.
LEMMA StaysPosted ==
    ASSUME NEW s \in Seq(Messages), NEW p \in Nat, NEW q \in Nat, p <= q,
           \A k \in 1..Len(s) : s[k] <= p
    PROVE  \A k \in 1..Len(s) : s[k] <= q
PROOF
  <1>1. MaxMessages \in Nat
    BY GapAssumption
  <1>2. ASSUME NEW k \in 1..Len(s) PROVE s[k] <= q
    <2>1. s[k] \in Messages /\ s[k] <= p
      OBVIOUS
    <2> QED
      BY <1>1, <2>1 DEF Messages
  <1> QED
    BY <1>2

LEMMA InitInv == ASSUME Init PROVE Sound
PROOF
  <1>1. MaxMessages \in Nat
    BY GapAssumption
  <1>2. Shaped
    BY <1>1 DEF Init, Shaped, Phases, Messages, Idle, Zero, Empty, NoneQueued
  <1>3. ASSUME NEW u \in Units PROVE Fits(u) /\ Remembered(u)
    <2>1. /\ erased[u] = {} /\ deleted[u] = {} /\ todo[u] = {} /\ buf[u] = {} /\ retracted[u] = {}
          /\ live[u] = <<>> /\ intake[u] = <<>> /\ since[u] = 0 /\ delivered[u] = 0
          /\ cursor[u] = 0 /\ posted[u] \in Nat /\ stored[u] \subseteq 1..posted[u] /\ phase[u] = "idle"
          /\ marked[u] = {} /\ parked[u] = {} /\ lapsed[u] = {}
      BY <1>1 DEF Init, Idle, Zero, Empty, NoneQueued
    <2> QED
      BY <2>1 DEF Fits, Remembered, Retractions
  <1> QED
    BY <1>2, <1>3 DEF Sound

\* The server's side.
LEMMA PostInv == ASSUME Sound, NEW u \in Units, Post(u) PROVE Sound'
PROOF
  <1>1. MaxMessages \in Nat /\ Shaped
    BY GapAssumption DEF Sound
  <1>2. Shaped'
    BY <1>1 DEF Post, Shaped, table, connection, descent, deletions
  <1>3. ASSUME NEW v \in Units PROVE Fits(v)' /\ Remembered(v)'
    <2>1. posted[v] \in Nat /\ posted'[v] \in Nat /\ posted[v] <= posted'[v]
      BY <1>1, SMTT(30) DEF Post, Shaped
    <2>2. Fits(v) /\ Remembered(v)
      BY DEF Sound
    <2>3. /\ UNCHANGED <<erased, own, table, proc, connection, phase, descent, live, intake,
                         deletions, handled>>
      BY DEF Post
    <2>4. /\ since[v] \in Nat /\ delivered[v] \in Nat /\ cursor[v] \in Nat
          /\ live[v] \in Seq(Messages) /\ intake[v] \in Seq(Messages)
      BY <1>1 DEF Shaped
    <2>5. Fits(v)'
      <3>1. /\ erased'[v] = erased[v] /\ stored'[v] = stored[v] /\ deleted'[v] = deleted[v]
            /\ since'[v] = since[v] /\ delivered'[v] = delivered[v] /\ phase'[v] = phase[v]
            /\ cursor'[v] = cursor[v] /\ buf'[v] = buf[v] /\ todo'[v] = todo[v] /\ live'[v] = live[v]
            /\ intake'[v] = intake[v]
        BY <2>3 DEF table, connection, descent
      <3>2. /\ \A k \in 1..Len(intake[v]) : intake[v][k] <= posted'[v]
            /\ \A k \in 1..Len(live[v]) : live[v][k] <= posted'[v]
        BY <2>1, <2>2, <2>4, StaysPosted DEF Fits
      <3> QED
        BY <2>1, <2>2, <2>4, <3>1, <3>2 DEF Fits
    <2>6. Remembered(v)'
      BY <2>2, <2>3 DEF Remembered, Retractions, table, deletions
    <2> QED
      BY <2>5, <2>6
  <1> QED
    BY <1>2, <1>3 DEF Sound

LEMMA EraseInv ==
    ASSUME Sound, NEW u \in Units, NEW m \in Messages, EraseUnseen(u, m) \/ Erase(u, m)
    PROVE  Sound'
PROOF
  <1>1. MaxMessages \in Nat /\ Shaped
    BY GapAssumption DEF Sound
  <1>2. CASE EraseUnseen(u, m)
    <2>1. Shaped'
      BY <1>1, <1>2 DEF EraseUnseen, Shaped, table, connection, descent, deletions
    <2>2. ASSUME NEW v \in Units PROVE Fits(v)' /\ Remembered(v)'
      <3>1. Fits(v) /\ Remembered(v)
        BY DEF Sound
      <3> QED
        BY <1>1, <1>2, <3>1
           DEF EraseUnseen, Shaped, Fits, Remembered, Retractions, table, connection, descent, deletions
    <2> QED
      BY <2>1, <2>2 DEF Sound
  <1>3. CASE Erase(u, m)
    <2>1. Shaped'
      BY <1>1, <1>3 DEF Erase, Shaped, table, connection, descent, deletions
    <2>2. ASSUME NEW v \in Units PROVE Fits(v)' /\ Remembered(v)'
      <3>1. Fits(v) /\ Remembered(v)
        BY DEF Sound
      <3>2. Fits(v)'
        <4>1. /\ posted'[v] = posted[v] /\ stored'[v] = stored[v] /\ since'[v] = since[v]
              /\ delivered'[v] = delivered[v] /\ cursor'[v] = cursor[v] /\ phase'[v] = phase[v]
              /\ buf'[v] = buf[v] /\ todo'[v] = todo[v] /\ live'[v] = live[v]
              /\ intake'[v] = intake[v]
          BY <1>3 DEF Erase, connection, descent
        <4>2. erased'[v] \subseteq 1..posted[v] /\ deleted'[v] \subseteq stored[v]
          BY <1>1, <1>3, <3>1, SMTT(30) DEF Erase, Shaped, Fits
        <4> QED
          BY <3>1, <4>1, <4>2 DEF Fits
      <3>3. Remembered(v)'
        BY <1>1, <1>3, <3>1, SMTT(30) DEF Erase, Shaped, Remembered, Retractions
      <3> QED
        BY <3>2, <3>3
    <2> QED
      BY <2>1, <2>2 DEF Sound
  <1> QED
    BY <1>2, <1>3

\* A parked deletion lapses: it was of a message not stored, or already marked.
LEMMA LapseInv == ASSUME Sound, NEW u \in Units, NEW m \in Messages, Lapse(u, m) PROVE Sound'
PROOF
  <1>1. Shaped
    BY DEF Sound
  <1>2. /\ m \in parked[u]
        /\ parked' = [parked EXCEPT ![u] = @ \ {m}]
        /\ lapsed' = [lapsed EXCEPT ![u] = @ \cup {m}]
        /\ UNCHANGED <<server, table, proc, connection, phase, descent, live, intake, marked,
                       retracted, handled>>
    BY DEF Lapse
  <1>3. Shaped'
    BY <1>1, <1>2 DEF Shaped, server, table, connection, descent
  <1>4. ASSUME NEW v \in Units PROVE Fits(v)' /\ Remembered(v)'
    <2>1. Fits(v) /\ Remembered(v)
      BY DEF Sound
    <2>2. Fits(v)'
      BY <1>2, <2>1 DEF Fits, server, table, connection, descent
    <2>3. Remembered(v)'
      BY <1>1, <1>2, <2>1, SMTT(30) DEF Shaped, Remembered, Retractions, server, table
    <2> QED
      BY <2>2, <2>3
  <1> QED
    BY <1>3, <1>4 DEF Sound

\* A message inserted lands with the deletion that was kept for it.
LEMMA InsertRemembered ==
    ASSUME Sound, NEW u \in Units, NEW m \in Messages, Insert(u, m),
           UNCHANGED <<marked, retracted, lapsed, erased>>
    PROVE  \A v \in Units : Remembered(v)'
PROOF
  <1>1. /\ stored'[u] = stored[u] \cup {m} /\ deleted[u] \subseteq deleted'[u]
        /\ m \in Retractions(u) \ stored[u] => m \in deleted'[u]
        /\ deleted'[u] \subseteq deleted[u] \cup (Retractions(u) \cap {m})
        /\ m \in deleted'[u] \ deleted[u] => m \notin parked'[u]
        /\ parked[u] \ {m} \subseteq parked'[u] /\ parked'[u] \subseteq parked[u]
        /\ m \in stored[u] => parked'[u] = parked[u]
        /\ \A v \in Units \ {u} : /\ stored'[v] = stored[v] /\ deleted'[v] = deleted[v]
                                  /\ parked'[v] = parked[v]
    BY Inserts
  <1>2. \A v \in Units : Remembered(v)
    BY DEF Sound
  <1>3. Remembered(u)'
    BY <1>1, <1>2 DEF Remembered, Retractions
  <1>4. \A v \in Units \ {u} : Remembered(v)'
    BY <1>1, <1>2 DEF Remembered, Retractions
  <1> QED
    BY <1>3, <1>4

LEMMA SendInv == ASSUME Sound, NEW u \in Units, Send(u) PROVE Sound'
PROOF
  <1>1. MaxMessages \in Nat /\ Shaped
    BY GapAssumption DEF Sound
  <1> DEFINE m == posted[u] + 1
  <1>2. /\ m \in Messages /\ posted'[u] = m /\ posted' \in [Units -> 0..MaxMessages]
        /\ posted[u] \in Nat
        /\ \A v \in Units \ {u} : posted'[v] = posted[v]
    BY <1>1, SMTT(30) DEF Send, Shaped, Messages
  <1>3. /\ Insert(u, m)
        /\ UNCHANGED <<erased, proc, connection, phase, descent, live, intake, marked,
                       retracted, lapsed, handled>>
    BY DEF Send
  <1> HIDE DEF m
  <1>4. /\ stored' \in [Units -> SUBSET Messages] /\ deleted' \in [Units -> SUBSET Messages]
        /\ waived' \in [Units -> SUBSET Messages] /\ parked' \in [Units -> SUBSET Messages]
        /\ stored'[u] = stored[u] \cup {m} /\ deleted'[u] \subseteq stored'[u]
        /\ \A v \in Units \ {u} : stored'[v] = stored[v] /\ deleted'[v] = deleted[v]
    BY <1>2, <1>3, Inserts
  <1>5. own' \in [Units -> SUBSET Messages]
    BY <1>1, <1>2, SMTT(30) DEF Send, Shaped, m
  <1>6. Shaped'
    BY <1>1, <1>2, <1>3, <1>4, <1>5 DEF Shaped, connection, descent
  <1>7. ASSUME NEW v \in Units PROVE Fits(v)'
    <2>1. Fits(v)
      BY DEF Sound
    <2>2. /\ since[v] \in Nat /\ delivered[v] \in Nat /\ cursor[v] \in Nat
          /\ live[v] \in Seq(Messages) /\ intake[v] \in Seq(Messages)
      BY <1>1 DEF Shaped
    <2>3. CASE v = u
      <3>1. posted[v] \in Nat /\ posted'[v] = posted[v] + 1
        BY <1>2, <2>3 DEF m
      <3>2. stored'[v] \subseteq 1..posted'[v]
        BY <1>2, <1>4, <2>1, <2>3, <3>1 DEF Fits
      <3>3. erased'[v] \subseteq 1..posted'[v] /\ buf'[v] \subseteq 1..posted'[v]
        BY <1>3, <2>1, <3>1 DEF Fits, descent
      <3>4. since'[v] <= delivered'[v] /\ delivered'[v] <= posted'[v] /\ cursor'[v] <= posted'[v]
        BY <1>3, <2>1, <2>2, <3>1 DEF Fits, connection, descent
      <3>5. /\ \A k \in 1..Len(intake'[v]) : intake'[v][k] <= posted'[v]
            /\ \A k \in 1..Len(live'[v]) : live'[v][k] <= posted'[v]
        <4>1. /\ \A k \in 1..Len(intake[v]) : intake[v][k] <= posted'[v]
              /\ \A k \in 1..Len(live[v]) : live[v][k] <= posted'[v]
          <5>1. posted'[v] \in Nat /\ posted[v] <= posted'[v]
            BY <3>1
          <5> QED
            BY <2>1, <2>2, <3>1, <5>1, StaysPosted DEF Fits
        <4> QED
          BY <1>3, <4>1
      <3> QED
        <4>1. /\ deleted'[v] \subseteq stored'[v] /\ todo'[v] \subseteq buf'[v]
              /\ phase'[v] \in {"idle", "done"} => buf'[v] = {} /\ live'[v] = <<>>
              /\ phase'[v] \notin {"committing", "failed"} => todo'[v] = {}
          BY <1>3, <1>4, <2>1, <2>3 DEF descent, Fits
        <4> QED
          BY <4>1, <3>2, <3>3, <3>4, <3>5 DEF Fits
    <2>4. CASE v # u
      BY <1>2, <1>3, <1>4, <2>1, <2>4 DEF Fits, connection, descent
    <2> QED
      BY <2>3, <2>4
  <1>8. \A v \in Units : Remembered(v)'
    BY <1>2, <1>3, InsertRemembered
  <1> QED
    BY <1>6, <1>7, <1>8 DEF Sound

-----------------------------------------------------------------------------
\* Nothing of unit v is touched.
Same(v) ==
    /\ posted'[v] = posted[v] /\ erased'[v] = erased[v] /\ own'[v] = own[v]
    /\ stored'[v] = stored[v] /\ deleted'[v] = deleted[v] /\ waived'[v] = waived[v]
    /\ since'[v] = since[v] /\ delivered'[v] = delivered[v] /\ phase'[v] = phase[v]
    /\ floor'[v] = floor[v] /\ cursor'[v] = cursor[v] /\ buf'[v] = buf[v]
    /\ todo'[v] = todo[v] /\ hole'[v] = hole[v] /\ live'[v] = live[v]
    /\ intake'[v] = intake[v] /\ marked'[v] = marked[v] /\ parked'[v] = parked[v]
    /\ handled'[v] = handled[v] /\ retracted'[v] = retracted[v]
    /\ lapsed'[v] = lapsed[v]

LEMMA SameFits ==
    ASSUME NEW v \in Units, Same(v), Fits(v) /\ Remembered(v)
    PROVE  Fits(v)' /\ Remembered(v)'
BY DEF Same, Fits, Remembered, Retractions

\* A step that leaves the deletions and the stored messages of a unit alone forgets none.
LEMMA StillRemembered ==
    ASSUME NEW v \in Units, Remembered(v), UNCHANGED <<server, table, deletions>>
    PROVE  Remembered(v)'
BY DEF Remembered, Retractions, server, table, deletions

\* An element of a longer queue is an old one or the new one.
LEMMA AppendElements ==
    ASSUME NEW s \in Seq(Messages), NEW m \in Messages
    PROVE  /\ Append(s, m) \in Seq(Messages) /\ Len(Append(s, m)) = Len(s) + 1
           /\ \A k \in 1..Len(Append(s, m)) : \/ k \in 1..Len(s) /\ Append(s, m)[k] = s[k]
                                              \/ k = Len(s) + 1 /\ Append(s, m)[k] = m
OBVIOUS

LEMMA DeliverInv == ASSUME Sound, NEW u \in Units, Deliver(u) PROVE Sound'
PROOF
  <1> DEFINE m == delivered[u] + 1
  <1>1. MaxMessages \in Nat /\ Shaped
    BY GapAssumption DEF Sound
  <1>2. m \in Messages /\ m <= posted[u] /\ delivered[u] \in Nat /\ posted[u] \in Nat
    BY <1>1 DEF Deliver, Shaped, Messages
  <1>3. /\ delivered' = [delivered EXCEPT ![u] = m]
        /\ live' = [live EXCEPT ![u] =
                      IF m \notin own[u] /\ IsFrozen(u) THEN Append(@, m) ELSE @]
        /\ intake' = [intake EXCEPT ![u] =
                      IF m \notin own[u] /\ ~IsFrozen(u) THEN Append(@, m) ELSE @]
        /\ UNCHANGED <<server, table, proc, since, phase, descent, deletions, handled>>
    BY DEF Deliver
  <1> HIDE DEF m
  <1>4. /\ Append(live[u], m) \in Seq(Messages) /\ Append(intake[u], m) \in Seq(Messages)
        /\ live'[u] = IF m \notin own[u] /\ IsFrozen(u) THEN Append(live[u], m) ELSE live[u]
        /\ intake'[u] = IF m \notin own[u] /\ ~IsFrozen(u) THEN Append(intake[u], m) ELSE intake[u]
        /\ delivered'[u] = m
        /\ \A v \in Units \ {u} : /\ live'[v] = live[v] /\ intake'[v] = intake[v]
                                  /\ delivered'[v] = delivered[v]
    BY <1>1, <1>2, <1>3 DEF Shaped
  <1>5. Shaped'
    <2>1. delivered' \in [Units -> 0..MaxMessages]
      BY <1>1, <1>2, <1>3 DEF Shaped, Messages
    <2>2. live' \in [Units -> Seq(Messages)] /\ intake' \in [Units -> Seq(Messages)]
      BY <1>1, <1>3, <1>4 DEF Shaped
    <2> QED
      BY <1>1, <1>3, <2>1, <2>2 DEF Shaped, server, table, descent, deletions
  <1>6. \A v \in Units : Fits(v) /\ Remembered(v)
    BY DEF Sound
  <1>7. \A v \in Units \ {u} : Fits(v)' /\ Remembered(v)'
    <2>1. \A v \in Units \ {u} : Same(v)
      BY <1>3, <1>4 DEF Same, server, table, descent, deletions
    <2> QED
      BY <2>1, <1>6, SameFits
  <1>8. Fits(u)' /\ Remembered(u)'
    <2>1. Fits(u)
      BY <1>6
    <2>2. Remembered(u)'
      BY <1>3, <1>6, StillRemembered
    <2>3. /\ posted'[u] = posted[u] /\ erased'[u] = erased[u] /\ stored'[u] = stored[u]
          /\ deleted'[u] = deleted[u] /\ since'[u] = since[u] /\ phase'[u] = phase[u]
          /\ buf'[u] = buf[u] /\ todo'[u] = todo[u] /\ cursor'[u] = cursor[u]
      BY <1>3 DEF server, table, descent
    <2>4. since[u] \in Nat /\ live[u] \in Seq(Messages) /\ intake[u] \in Seq(Messages)
      BY <1>1 DEF Shaped
    <2>5. \A k \in 1..Len(live'[u]) : live'[u][k] <= posted[u]
      <3>1. \A k \in 1..Len(live[u]) : live[u][k] <= posted[u]
        BY <2>1 DEF Fits
      <3>2. \A k \in 1..Len(Append(live[u], m)) : Append(live[u], m)[k] <= posted[u]
        BY <1>2, <2>4, <3>1, AppendElements
      <3> QED
        BY <1>4, <3>1, <3>2
    <2>6. \A k \in 1..Len(intake'[u]) : intake'[u][k] <= posted[u]
      <3>1. \A k \in 1..Len(intake[u]) : intake[u][k] <= posted[u]
        BY <2>1 DEF Fits
      <3>2. \A k \in 1..Len(Append(intake[u], m)) : Append(intake[u], m)[k] <= posted[u]
        BY <1>2, <2>4, <3>1, AppendElements
      <3> QED
        BY <1>4, <3>1, <3>2
    <2>7. phase[u] \in {"idle", "done"} => live'[u] = live[u]
      BY <1>4 DEF IsFrozen
    <2>8. since[u] <= m
      BY <1>2, <2>1, <2>4 DEF Fits, m
    <2> QED
      BY <1>2, <1>4, <2>1, <2>2, <2>3, <2>5, <2>6, <2>7, <2>8 DEF Fits
  <1> QED
    BY <1>5, <1>7, <1>8 DEF Sound

LEMMA WriteInv == ASSUME Sound, NEW u \in Units, Write(u) PROVE Sound'
PROOF
  <1> DEFINE m == Head(intake[u])
  <1>1. MaxMessages \in Nat /\ Shaped
    BY GapAssumption DEF Sound
  <1>2. /\ intake[u] \in Seq(Messages) /\ intake[u] # <<>> /\ m \in Messages
        /\ Tail(intake[u]) \in Seq(Messages) /\ m = intake[u][1] /\ 1 \in 1..Len(intake[u])
        /\ Len(Tail(intake[u])) = Len(intake[u]) - 1
        /\ \A k \in 1..Len(Tail(intake[u])) : Tail(intake[u])[k] = intake[u][k + 1]
    BY <1>1 DEF Write, Shaped
  <1>3. /\ Insert(u, m)
        /\ handled' = [handled EXCEPT ![u] = @ \cup {m}]
        /\ intake' = [intake EXCEPT ![u] = Tail(@)]
        /\ UNCHANGED <<server, proc, connection, phase, descent, live, marked, retracted,
                       lapsed>>
    BY DEF Write
  <1> HIDE DEF m
  <1>4. /\ stored' \in [Units -> SUBSET Messages] /\ deleted' \in [Units -> SUBSET Messages]
        /\ waived' \in [Units -> SUBSET Messages] /\ parked' \in [Units -> SUBSET Messages]
        /\ stored'[u] = stored[u] \cup {m} /\ deleted'[u] \subseteq stored'[u]
        /\ \A v \in Units \ {u} : /\ stored'[v] = stored[v] /\ deleted'[v] = deleted[v]
                                  /\ waived'[v] = waived[v] /\ parked'[v] = parked[v]
    BY <1>2, <1>3, Inserts
  <1>5. Shaped'
    <2>1. handled' \in [Units -> SUBSET Messages] /\ intake' \in [Units -> Seq(Messages)]
      BY <1>1, <1>2, <1>3 DEF Shaped
    <2> QED
      BY <1>1, <1>3, <1>4, <2>1 DEF Shaped, server, connection, descent
  <1>6. \A v \in Units : Remembered(v)'
    BY <1>2, <1>3, InsertRemembered DEF server
  <1>7. \A v \in Units : Fits(v) /\ Remembered(v)
    BY DEF Sound
  <1>8. \A v \in Units \ {u} : Fits(v)'
    BY <1>3, <1>4, <1>7, <1>1 DEF Fits, server, connection, descent, Shaped
  <1>9. Fits(u)'
    <2>1. Fits(u) /\ posted[u] \in Nat
      BY <1>1, <1>7 DEF Shaped
    <2>2. /\ posted'[u] = posted[u] /\ erased'[u] = erased[u]
          /\ since'[u] = since[u] /\ delivered'[u] = delivered[u] /\ phase'[u] = phase[u]
          /\ buf'[u] = buf[u] /\ todo'[u] = todo[u] /\ live'[u] = live[u]
          /\ cursor'[u] = cursor[u]
      BY <1>3 DEF server, connection, descent
    <2>3. intake'[u] = Tail(intake[u])
      BY <1>1, <1>3 DEF Shaped
    <2>4. \A k \in 1..Len(intake'[u]) : intake'[u][k] <= posted[u]
      <3>1. ASSUME NEW k \in 1..Len(Tail(intake[u])) PROVE Tail(intake[u])[k] <= posted[u]
        <4>1. k + 1 \in 1..Len(intake[u]) /\ Tail(intake[u])[k] = intake[u][k + 1]
          BY <1>2
        <4> QED
          BY <2>1, <4>1 DEF Fits
      <3> QED
        BY <2>3, <3>1
    <2>5. stored'[u] \subseteq 1..posted[u]
      <3>1. m <= posted[u]
        BY <1>2, <2>1 DEF Fits
      <3> QED
        BY <1>1, <1>2, <1>4, <2>1, <3>1 DEF Fits, Messages
    <2> QED
      BY <1>4, <2>1, <2>2, <2>4, <2>5 DEF Fits
  <1> QED
    BY <1>5, <1>6, <1>8, <1>9 DEF Sound

\* The coordinator's start: nothing is buffered yet.
LEMMA PrepareInv == ASSUME IInv, Prepare PROVE Sound'
PROOF
  <1>1. MaxMessages \in Nat /\ Shaped
    BY GapAssumption DEF IInv, Sound
  <1>2. Shaped'
    BY <1>1 DEF Prepare, Shaped, Phases, server, table, connection, deletions
  <1>3. ASSUME NEW v \in Units PROVE Fits(v)' /\ Remembered(v)'
    <2>1. Fits(v) /\ Remembered(v)
      BY DEF IInv, Sound
    <2>2. Remembered(v)'
      BY <2>1, StillRemembered DEF Prepare
    <2>3. phase[v] = "idle" /\ phase'[v] = "frozen"
      BY DEF IInv, Asleep, Idle, Prepare
    <2>4. /\ posted'[v] = posted[v] /\ erased'[v] = erased[v] /\ stored'[v] = stored[v]
          /\ deleted'[v] = deleted[v] /\ since'[v] = since[v] /\ delivered'[v] = delivered[v]
          /\ buf'[v] = buf[v] /\ todo'[v] = todo[v] /\ live'[v] = live[v]
          /\ intake'[v] = intake[v] /\ cursor'[v] = cursor[v]
      BY DEF Prepare, server, table, connection
    <2> QED
      BY <2>1, <2>2, <2>3, <2>4 DEF Fits
  <1> QED
    BY <1>2, <1>3 DEF Sound

LEMMA StartProvidersInv == ASSUME Sound, StartProviders PROVE Sound'
PROOF
  <1>1. MaxMessages \in Nat /\ Shaped
    BY GapAssumption DEF Sound
  <1>2. Shaped'
    BY <1>1 DEF StartProviders, Shaped, server, table, descent, deletions
  <1>3. ASSUME NEW v \in Units PROVE Fits(v)' /\ Remembered(v)'
    <2>1. Fits(v) /\ Remembered(v) /\ posted[v] \in Nat
      BY <1>1 DEF Sound, Shaped
    <2>2. Remembered(v)'
      BY <2>1, StillRemembered DEF StartProviders
    <2>3. /\ posted'[v] = posted[v] /\ erased'[v] = erased[v] /\ stored'[v] = stored[v]
          /\ deleted'[v] = deleted[v] /\ since'[v] = posted[v] /\ delivered'[v] = posted[v]
          /\ buf'[v] = buf[v] /\ todo'[v] = todo[v] /\ live'[v] = live[v]
          /\ intake'[v] = intake[v] /\ phase'[v] = phase[v] /\ cursor'[v] = cursor[v]
      BY DEF StartProviders, server, table, descent
    <2> QED
      BY <2>1, <2>2, <2>3 DEF Fits
  <1> QED
    BY <1>2, <1>3 DEF Sound

\* A step that only moves a unit from one unbuffered or buffering phase to another.
LEMMA PhaseInv ==
    ASSUME Sound, NEW u \in Units, NEW p \in {"filling", "failed"},
           phase[u] \in {"frozen", "filling", "committing"},
           p = "filling" => phase[u] = "frozen",
           phase' = [phase EXCEPT ![u] = p],
           UNCHANGED <<server, table, proc, connection, descent, live, intake, deletions, handled>>
    PROVE  Sound'
PROOF
  <1>1. Shaped
    BY DEF Sound
  <1>2. Shaped'
    BY <1>1 DEF Shaped, Phases, server, table, connection, descent, deletions
  <1>3. ASSUME NEW v \in Units PROVE Fits(v)' /\ Remembered(v)'
    <2>1. Fits(v) /\ Remembered(v)
      BY DEF Sound
    <2>2. Remembered(v)'
      BY <2>1, StillRemembered
    <2>3. /\ posted'[v] = posted[v] /\ erased'[v] = erased[v] /\ stored'[v] = stored[v]
          /\ deleted'[v] = deleted[v] /\ since'[v] = since[v] /\ delivered'[v] = delivered[v]
          /\ buf'[v] = buf[v] /\ todo'[v] = todo[v] /\ live'[v] = live[v]
          /\ intake'[v] = intake[v] /\ phase'[v] = IF v = u THEN p ELSE phase[v]
          /\ cursor'[v] = cursor[v]
      BY <1>1 DEF Shaped, server, table, connection, descent
    <2> QED
      BY <2>1, <2>2, <2>3 DEF Fits
  <1> QED
    BY <1>2, <1>3 DEF Sound

LEMMA LaunchInv == ASSUME Sound, NEW u \in Units, Launch(u) PROVE Sound'
BY PhaseInv DEF Launch

LEMMA FailInv == ASSUME Sound, NEW u \in Units, Fail(u) PROVE Sound'
BY PhaseInv DEF Fail

\* An element of a concatenation is an element of one of its parts.
LEMMA ConcatElements ==
    ASSUME NEW s \in Seq(Messages), NEW t \in Seq(Messages), NEW k \in 1..Len(s \o t)
    PROVE  \/ k \in 1..Len(s) /\ (s \o t)[k] = s[k]
           \/ k - Len(s) \in 1..Len(t) /\ (s \o t)[k] = t[k - Len(s)]
PROOF
  <1>1. Len(s) \in Nat /\ Len(t) \in Nat /\ Len(s \o t) = Len(s) + Len(t)
    OBVIOUS
  <1>2. CASE k <= Len(s)
    BY <1>1, <1>2
  <1>3. CASE k > Len(s)
    BY <1>1, <1>3
  <1> QED
    BY <1>1, <1>2, <1>3

\* The end of a freeze: the live buffer joins the intake, and the backfill buffer is gone.
LEMMA ReplayInv ==
    ASSUME Sound, NEW u \in Units, todo[u] = {},
           phase' = [phase EXCEPT ![u] = "done"],
           intake' = [intake EXCEPT ![u] = Replayed(u)],
           live' = [live EXCEPT ![u] = <<>>],
           buf' = [buf EXCEPT ![u] = {}],
           hole' \in [Units -> SUBSET Messages],
           UNCHANGED <<server, table, proc, connection, floor, cursor, todo, deletions, handled>>
    PROVE  Sound'
PROOF
  <1>1. Shaped
    BY DEF Sound
  <1>2. /\ live[u] \in Seq(Messages) /\ intake[u] \in Seq(Messages)
        /\ intake[u] \o live[u] \in Seq(Messages) /\ Replayed(u) \in Seq(Messages)
    BY <1>1 DEF Shaped, Replayed
  <1>3. Shaped'
    <2>1. /\ intake' \in [Units -> Seq(Messages)] /\ live' \in [Units -> Seq(Messages)]
          /\ buf' \in [Units -> SUBSET Messages] /\ phase' \in [Units -> Phases]
      BY <1>1, <1>2 DEF Shaped, Phases
    <2> QED
      BY <1>1, <2>1 DEF Shaped, server, table, connection, deletions
  <1>4. ASSUME NEW v \in Units PROVE Fits(v)' /\ Remembered(v)'
    <2>1. Fits(v) /\ Remembered(v)
      BY DEF Sound
    <2>2. Remembered(v)'
      BY <2>1, StillRemembered
    <2>3. /\ posted'[v] = posted[v] /\ erased'[v] = erased[v] /\ stored'[v] = stored[v]
          /\ deleted'[v] = deleted[v] /\ since'[v] = since[v] /\ delivered'[v] = delivered[v]
          /\ todo'[v] = todo[v] /\ cursor'[v] = cursor[v]
      BY DEF server, table, connection
    <2>4. CASE v = u
      <3>1. /\ buf'[v] = {} /\ live'[v] = <<>> /\ phase'[v] = "done"
            /\ intake'[v] = Replayed(u) /\ todo'[v] = {}
        BY <1>1, <2>3, <2>4 DEF Shaped
      <3>2. \A k \in 1..Len(Replayed(u)) : Replayed(u)[k] <= posted[u]
        <4>1. /\ \A k \in 1..Len(intake[u]) : intake[u][k] <= posted[u]
              /\ \A k \in 1..Len(live[u]) : live[u][k] <= posted[u]
          BY <2>1, <2>4 DEF Fits
        <4>2. \A k \in 1..Len(intake[u] \o live[u]) : (intake[u] \o live[u])[k] <= posted[u]
          BY <1>2, <4>1, ConcatElements
        <4> QED
          BY <4>1, <4>2 DEF Replayed
      <3> QED
        BY <2>1, <2>2, <2>3, <2>4, <3>1, <3>2 DEF Fits
    <2>5. CASE v # u
      <3>1. /\ buf'[v] = buf[v] /\ live'[v] = live[v] /\ phase'[v] = phase[v]
            /\ intake'[v] = intake[v]
        BY <1>1, <2>5 DEF Shaped
      <3> QED
        BY <2>1, <2>2, <2>3, <3>1 DEF Fits
    <2> QED
      BY <2>4, <2>5
  <1> QED
    BY <1>3, <1>4 DEF Sound

LEMMA ReleaseInv == ASSUME Sound, NEW u \in Units, Release(u) PROVE Sound'
PROOF
  <1>1. Shaped /\ Fits(u) /\ MaxMessages \in Nat
    BY GapAssumption DEF Sound
  <1>2. todo[u] = {}
    BY <1>1 DEF Release, Fits
  <1>3. hole' \in [Units -> SUBSET Messages]
    <2>1. 1..since[u] \ stored[u] \in SUBSET Messages
      BY <1>1 DEF Shaped, Messages
    <2> QED
      BY <1>1, <2>1 DEF Release, Shaped
  <1> QED
    BY <1>2, <1>3, ReplayInv DEF Release

LEMMA UnfreezeInv == ASSUME Sound, NEW u \in Units, Unfreeze(u) PROVE Sound'
PROOF
  <1>1. hole' \in [Units -> SUBSET Messages]
    BY DEF Sound, Shaped, Unfreeze
  <1> QED
    BY <1>1, ReplayInv DEF Unfreeze

\* A descent that fetches messages that exist, and perhaps ends.
LEMMA BufferInv ==
    ASSUME Sound, NEW u \in Units, NEW b \in SUBSET (1..posted[u]), NEW missing \in SUBSET Messages,
           phase[u] = "filling",
           \/ Filled(u, b, missing)
           \/ buf' = [buf EXCEPT ![u] = b] /\ UNCHANGED <<phase, todo, hole>>,
           cursor' \in [Units -> 0..MaxMessages], \A v \in Units : cursor'[v] <= posted[v],
           UNCHANGED <<server, table, proc, connection, floor, live, intake, deletions, handled>>
    PROVE  Sound'
PROOF
  <1>1. MaxMessages \in Nat /\ Shaped
    BY GapAssumption DEF Sound
  <1>2. b \in SUBSET Messages
    BY <1>1 DEF Shaped, Messages
  <1>3. /\ buf' = [buf EXCEPT ![u] = b]
        /\ \/ phase' = [phase EXCEPT ![u] = "held"] /\ todo' = todo /\ hole' = hole
           \/ /\ phase' = [phase EXCEPT ![u] = "committing"]
              /\ todo' = [todo EXCEPT ![u] = b] /\ hole' = [hole EXCEPT ![u] = missing]
           \/ phase' = phase /\ todo' = todo /\ hole' = hole
    BY DEF Filled
  <1>4. Shaped'
    <2>1. /\ buf' \in [Units -> SUBSET Messages] /\ todo' \in [Units -> SUBSET Messages]
          /\ hole' \in [Units -> SUBSET Messages] /\ phase' \in [Units -> Phases]
      BY <1>1, <1>2, <1>3 DEF Shaped, Phases
    <2> QED
      BY <1>1, <2>1 DEF Shaped, server, table, connection, deletions
  <1>5. ASSUME NEW v \in Units PROVE Fits(v)' /\ Remembered(v)'
    <2>1. Fits(v) /\ Remembered(v)
      BY DEF Sound
    <2>2. Remembered(v)'
      BY <2>1, StillRemembered
    <2>3. /\ posted'[v] = posted[v] /\ erased'[v] = erased[v] /\ stored'[v] = stored[v]
          /\ deleted'[v] = deleted[v] /\ since'[v] = since[v] /\ delivered'[v] = delivered[v]
          /\ intake'[v] = intake[v] /\ live'[v] = live[v]
      BY DEF server, table, connection
    <2>4. CASE v = u
      <3>1. /\ buf'[v] = b
            /\ \/ phase'[v] = "held" /\ todo'[v] = todo[v]
               \/ phase'[v] = "committing" /\ todo'[v] = b
               \/ phase'[v] = "filling" /\ todo'[v] = todo[v]
        BY <1>1, <1>3, <2>4 DEF Shaped
      <3>2. todo[v] = {}
        BY <2>1, <2>4 DEF Fits
      <3> QED
        BY <2>1, <2>2, <2>3, <2>4, <3>1, <3>2 DEF Fits
    <2>5. CASE v # u
      <3>1. buf'[v] = buf[v] /\ phase'[v] = phase[v] /\ todo'[v] = todo[v]
        BY <1>1, <1>3, <2>5 DEF Shaped
      <3> QED
        BY <2>1, <2>2, <2>3, <3>1 DEF Fits
    <2> QED
      BY <2>4, <2>5
  <1> QED
    BY <1>4, <1>5 DEF Sound

\* A page is made of messages that exist.
LEMMA PageOf ==
    ASSUME Sound, NEW u \in Units
    PROVE  /\ Page(u) \in SUBSET Messages /\ Page(u) \subseteq 1..MaxMessages
           /\ Page(u) \subseteq 1..posted[u]
PROOF
  <1>1. MaxMessages \in Nat /\ Shaped /\ PageSize \in Nat /\ Fits(u)
    BY GapAssumption DEF Sound
  <1> QED
    BY <1>1 DEF Shaped, Fits, Page, Messages

LEMMA ReadPageInv ==
    ASSUME Sound, NEW u \in Units, NEW hidden \in SUBSET (Page(u) \cap erased[u]), ReadPage(u, hidden)
    PROVE  Sound'
PROOF
  <1>1. MaxMessages \in Nat /\ Shaped /\ Fits(u)
    BY GapAssumption DEF Sound
  <1>2. Page(u) \in SUBSET Messages /\ Page(u) \subseteq 1..posted[u] /\ Page(u) \in SUBSET Nat
    BY PageOf DEF Messages
  <1> DEFINE b == buf[u] \cup (AboveFloor(u, Page(u)) \ hidden)
  <1>3. b \in SUBSET (1..posted[u])
    BY <1>1, <1>2 DEF AboveFloor, Fits
  <1>4. cursor' \in [Units -> 0..MaxMessages] /\ \A v \in Units : cursor'[v] <= posted[v]
    <2>1. Page(u) # {} => Min(Page(u)) \in 1..posted[u] /\ Min(Page(u)) \in Messages
      BY <1>2, MinOf
    <2>2. cursor' = [cursor EXCEPT ![u] = IF Page(u) = {} THEN @ ELSE Min(Page(u))]
      BY DEF ReadPage
    <2>3. \A v \in Units : cursor[v] <= posted[v]
      BY DEF Sound, Fits
    <2> QED
      BY <1>1, <2>1, <2>2, <2>3 DEF Shaped, Messages
  <1>5. \/ Filled(u, b, {})
        \/ buf' = [buf EXCEPT ![u] = b] /\ UNCHANGED <<phase, todo, hole>>
    BY DEF ReadPage
  <1>6. /\ phase[u] = "filling"
        /\ UNCHANGED <<server, table, proc, connection, floor, live, intake, deletions, handled>>
    BY DEF ReadPage
  <1> HIDE DEF b
  <1>7. {} \in SUBSET Messages
    OBVIOUS
  <1> QED
    BY <1>3, <1>4, <1>5, <1>6, <1>7, BufferInv

LEMMA GiveUpInv ==
    ASSUME Sound, NEW u \in Units, NEW some \in SUBSET AboveFloor(u, Page(u)), GiveUp(u, some)
    PROVE  Sound'
PROOF
  <1>1. MaxMessages \in Nat /\ Shaped /\ Fits(u)
    BY GapAssumption DEF Sound
  <1>2. Page(u) \subseteq 1..posted[u]
    BY PageOf
  <1> DEFINE b == buf[u] \cup (some \ erased[u])
             missing == IF floor[u] # 0 /\ b # {}
                        THEN {m \in Messages : m > floor[u] /\ m < Min(b)} ELSE {}
  <1>3. b \in SUBSET (1..posted[u])
    BY <1>1, <1>2 DEF AboveFloor, Fits
  <1>4. cursor' \in [Units -> 0..MaxMessages] /\ \A v \in Units : cursor'[v] <= posted[v]
    BY <1>1 DEF GiveUp, Sound, Shaped, Fits
  <1>5. Filled(u, b, missing)
    BY DEF GiveUp
  <1>6. /\ phase[u] = "filling"
        /\ UNCHANGED <<server, table, proc, connection, floor, live, intake, deletions, handled>>
    BY DEF GiveUp
  <1>7. missing \in SUBSET Messages
    OBVIOUS
  <1> HIDE DEF b, missing
  <1> QED
    BY <1>3, <1>4, <1>5, <1>6, <1>7, BufferInv

LEMMA AppendNextInv == ASSUME Sound, NEW u \in Units, AppendNext(u) PROVE Sound'
PROOF
  <1>1. MaxMessages \in Nat /\ Shaped
    BY GapAssumption DEF Sound
  <1>2. PICK m \in NextToCommit(u) : Insert(u, m) /\ todo' = [todo EXCEPT ![u] = @ \ {m}]
    BY DEF AppendNext
  <1>3. m \in todo[u] /\ m \in Messages /\ m \in 1..posted[u]
    BY <1>1 DEF NextToCommit, Shaped, Sound, Fits
  <1>4. /\ phase[u] = "committing"
        /\ UNCHANGED <<server, proc, connection, phase, floor, cursor, buf, hole, live, intake,
                       marked, retracted, lapsed, handled>>
    BY DEF AppendNext
  <1>5. /\ stored' \in [Units -> SUBSET Messages] /\ deleted' \in [Units -> SUBSET Messages]
        /\ waived' \in [Units -> SUBSET Messages] /\ parked' \in [Units -> SUBSET Messages]
        /\ stored'[u] = stored[u] \cup {m} /\ deleted'[u] \subseteq stored'[u]
        /\ \A v \in Units \ {u} : stored'[v] = stored[v] /\ deleted'[v] = deleted[v]
    BY <1>2, <1>3, Inserts
  <1>6. Shaped'
    <2>1. todo' \in [Units -> SUBSET Messages]
      BY <1>1, <1>2 DEF Shaped
    <2> QED
      BY <1>1, <1>4, <1>5, <2>1 DEF Shaped, server, connection
  <1>7. \A v \in Units : Remembered(v)'
    BY <1>2, <1>3, <1>4, InsertRemembered DEF server
  <1>8. ASSUME NEW v \in Units PROVE Fits(v)'
    <2>1. Fits(v)
      BY DEF Sound
    <2>2. /\ posted'[v] = posted[v] /\ erased'[v] = erased[v] /\ since'[v] = since[v]
          /\ delivered'[v] = delivered[v] /\ cursor'[v] = cursor[v] /\ phase'[v] = phase[v]
          /\ buf'[v] = buf[v] /\ live'[v] = live[v] /\ intake'[v] = intake[v]
      BY <1>4 DEF server, connection
    <2>3. /\ stored'[v] \subseteq 1..posted[v] /\ deleted'[v] \subseteq stored'[v]
          /\ todo'[v] \subseteq todo[v]
      BY <1>1, <1>2, <1>3, <1>5, <2>1 DEF Shaped, Fits
    <2> QED
      BY <2>1, <2>2, <2>3 DEF Fits
  <1> QED
    BY <1>6, <1>7, <1>8 DEF Sound

LEMMA DrainInv == ASSUME Sound, Drain PROVE Sound'
PROOF
  <1>1. Shaped'
    BY DEF Drain, Sound, Shaped, server, table, connection, descent, deletions
  <1>2. ASSUME NEW v \in Units PROVE Fits(v)' /\ Remembered(v)'
    <2>1. Same(v)
      BY DEF Drain, Same, server, table, connection, descent, deletions
    <2> QED
      BY <2>1, SameFits DEF Sound
  <1> QED
    BY <1>1, <1>2 DEF Sound

\* A crash leaves the table, which fits what was posted.
LEMMA ExitInv == ASSUME Sound, Exit PROVE Sound'
PROOF
  <1>1. MaxMessages \in Nat /\ Shaped
    BY GapAssumption DEF Sound
  <1>2. Shaped'
    BY <1>1 DEF Exit, Shaped, Phases, server, table, Idle, Zero, Empty, NoneQueued
  <1>3. ASSUME NEW v \in Units PROVE Fits(v)' /\ Remembered(v)'
    <2>1. Fits(v) /\ posted[v] \in Nat
      BY <1>1 DEF Sound, Shaped
    <2>2. /\ todo'[v] = {} /\ buf'[v] = {} /\ retracted'[v] = {} /\ live'[v] = <<>>
          /\ intake'[v] = <<>> /\ since'[v] = 0 /\ delivered'[v] = 0 /\ cursor'[v] = 0
          /\ phase'[v] = "idle" /\ posted'[v] = posted[v] /\ erased'[v] = erased[v]
          /\ stored'[v] = stored[v] /\ deleted'[v] = deleted[v]
          /\ marked'[v] = {} /\ parked'[v] = {} /\ lapsed'[v] = {}
      BY DEF Exit, server, table, Idle, Zero, Empty, NoneQueued
    <2>3. Fits(v)'
      BY <2>1, <2>2 DEF Fits
    <2>4. Remembered(v)
      BY DEF Sound
    <2>5. Remembered(v)'
      BY <2>2, <2>4 DEF Remembered, Retractions
    <2> QED
      BY <2>3, <2>5
  <1> QED
    BY <1>2, <1>3 DEF Sound

-----------------------------------------------------------------------------
\* Only Prepare and the end of the process move the units of a process that is down.
LEMMA AsleepInv == ASSUME Asleep, [Next]_vars PROVE Asleep'
PROOF
  <1>1. CASE UNCHANGED vars
    BY <1>1 DEF vars, Asleep, Idle
  <1>2. CASE Next
    <2>1. CASE Exit
      BY <2>1 DEF Exit, Asleep, Idle
    <2>2. CASE proc # "down" /\ proc' # "down"
      BY <2>2 DEF Asleep
    <2>3. CASE proc' = proc /\ UNCHANGED phase
      BY <2>3 DEF Asleep, Idle
    <2>4. ASSUME NEW u \in Units, Post(u) PROVE UNCHANGED <<proc, phase>>
      BY <2>4 DEF Post
    <2>5. ASSUME NEW u \in Units, NEW m \in Messages, EraseUnseen(u, m) \/ Erase(u, m)
          PROVE  UNCHANGED <<proc, phase>>
      BY <2>5 DEF EraseUnseen, Erase
    <2>11. ASSUME NEW u \in Units, NEW m \in Messages, Lapse(u, m)
           PROVE  UNCHANGED <<proc, phase>>
      BY <2>11 DEF Lapse
    <2>6. ASSUME NEW u \in Units, Send(u) \/ Deliver(u) \/ Write(u) \/ AppendNext(u)
          PROVE  UNCHANGED <<proc, phase>>
      BY <2>6 DEF Send, Deliver, Write, AppendNext
    <2>7. ASSUME NEW u \in Units, Launch(u) \/ Release(u) \/ Fail(u) \/ Unfreeze(u)
          PROVE  proc # "down" /\ proc' # "down"
      BY <2>7 DEF Launch, Release, Fail, Unfreeze
    <2>8. ASSUME NEW u \in Units, NEW S, ReadPage(u, S) \/ GiveUp(u, S)
          PROVE  proc # "down" /\ proc' # "down"
      BY <2>8 DEF ReadPage, GiveUp
    <2>9. ASSUME StartProviders \/ Drain PROVE proc # "down" /\ proc' # "down"
      BY <2>9 DEF StartProviders, Drain
    <2>10. CASE Prepare
      BY <2>10 DEF Prepare, Asleep
    <2> QED
      BY <1>2, <2>1, <2>2, <2>3, <2>4, <2>5, <2>6, <2>7, <2>8, <2>9, <2>10, <2>11 DEF Next
  <1> QED
    BY <1>1, <1>2

LEMMA NextInv == ASSUME IInv, [Next]_vars PROVE IInv'
PROOF
  <1>1. Sound
    BY DEF IInv
  <1>2. CASE UNCHANGED vars
    <2>1. Shaped'
      BY <1>1, <1>2 DEF Sound, Shaped, vars, server, table, connection, descent, deletions
    <2>2. \A v \in Units : Same(v)
      BY <1>2 DEF Same, vars, server, table, connection, descent, deletions
    <2> QED
      BY <1>1, <1>2, <2>1, <2>2, SameFits, AsleepInv DEF IInv, Sound
  <1>3. CASE Next
    <2>1. Sound'
      BY <1>1, <1>3, PostInv, EraseInv, LapseInv, SendInv, DeliverInv, WriteInv, PrepareInv,
         StartProvidersInv, LaunchInv, ReleaseInv, ReadPageInv, GiveUpInv, FailInv, AppendNextInv,
         UnfreezeInv, DrainInv, ExitInv DEF Next
    <2> QED
      BY <2>1, AsleepInv DEF IInv
  <1> QED
    BY <1>2, <1>3

LEMMA StartInv == ASSUME Init PROVE IInv
BY InitInv DEF IInv, Asleep, Init

\* The inductive invariant holds, whatever fails.
THEOREM Invariant == Spec => []IInv
PROOF
  <1>1. Init => IInv
    BY StartInv
  <1>2. IInv /\ [Next]_vars => IInv'
    BY NextInv
  <1> QED
    BY <1>1, <1>2, PTL DEF Spec

\* The buffers, the table and the live stream always have the shape the coordinator relies on.
THEOREM TypeCorrect == Spec => []TypeOK
PROOF
  <1>1. IInv => TypeOK
    BY DEF IInv, Sound, Shaped, Fits, TypeOK, Phases
  <1> QED
    BY <1>1, Invariant, PTL

\* Whatever crashes, drains, fails or is erased, and when: a deletion the process has seen is
\* marked once its message is stored, whichever of the table, the two buffers and the parking
\* place it had to wait in, unless it was parked and expired there or was evicted; and none
\* that met its message in the table or in a buffer is ever lost so.
THEOREM DeletionsStick == Spec => []DeletionSticks
PROOF
  <1>1. IInv => DeletionSticks
    BY DEF IInv, Sound, Remembered, Retractions, DeletionSticks
  <1> QED
    BY <1>1, Invariant, PTL

\* The strict form: every deletion this process has seen is marked once its message is stored.
AllMarked == \A u \in Units : stored[u] \cap retracted[u] \subseteq deleted[u]

NoneLapsed == lapsed = Empty

\* Where no parked deletion expires or is evicted, none is lost at all.
THEOREM DeletionsKept == ASSUME "lapse" \notin Events PROVE Spec => []AllMarked
PROOF
  <1>1. Init => NoneLapsed
    BY DEF Init, NoneLapsed
  <1>2. NoneLapsed /\ [Next]_vars => NoneLapsed'
    <2>1. ASSUME UNCHANGED vars PROVE UNCHANGED lapsed
      BY <2>1 DEF vars, deletions
    <2>2. ASSUME NEW u \in Units, NEW m \in Messages PROVE ~Lapse(u, m)
      BY DEF Lapse
    <2>3. ASSUME NEW u \in Units, NEW m \in Messages, EraseUnseen(u, m) \/ Erase(u, m)
          PROVE  UNCHANGED lapsed
      BY <2>3 DEF EraseUnseen, Erase, deletions
    <2>4. ASSUME NEW u \in Units,
                 \/ Post(u) \/ Send(u) \/ Deliver(u) \/ Write(u) \/ Launch(u)
                 \/ Release(u) \/ Fail(u) \/ AppendNext(u) \/ Unfreeze(u)
          PROVE  UNCHANGED lapsed
      BY <2>4 DEF Post, Send, Deliver, Write, Launch, Release, Fail, AppendNext, Unfreeze, deletions
    <2>5. ASSUME NEW u \in Units, NEW S, ReadPage(u, S) \/ GiveUp(u, S) PROVE UNCHANGED lapsed
      BY <2>5 DEF ReadPage, GiveUp, deletions
    <2>6. ASSUME Prepare \/ StartProviders \/ Drain PROVE UNCHANGED lapsed
      BY <2>6 DEF Prepare, StartProviders, Drain, deletions
    <2>7. ASSUME Exit PROVE lapsed' = Empty
      BY <2>7 DEF Exit
    <2> QED
      BY <2>1, <2>2, <2>3, <2>4, <2>5, <2>6, <2>7 DEF Next, NoneLapsed, Empty
  <1>3. DeletionSticks /\ NoneLapsed => AllMarked
    BY DEF DeletionSticks, NoneLapsed, Empty, AllMarked
  <1> QED
    BY <1>1, <1>2, <1>3, DeletionsStick, PTL DEF Spec
-----------------------------------------------------------------------------
(***************************************************************************)
(* Nothing fails.  The second invariant says what a unit's descent, its    *)
(* commit and its live stream have reached, and needs two hypotheses:      *)
(*   - no read and no write is rejected, no cap stops the descent without  *)
(*     a record and no other room sends here (after each of these a gap    *)
(*     may really be buried);                                              *)
(*   - no two messages share a timestamp (the commit orders by timestamp,  *)
(*     and the floor is found by it).                                      *)
(***************************************************************************)
NothingFails == Events \cap {"unrecorded_cap", "read_error", "write_error", "send"} = {}

OneStampEach == \A m, n \in Messages : m < n => Stamp[m] < Stamp[n]

\* Below a stored message nothing is missing that is not excused.
Closed(u) ==
    \A n \in stored[u] : \A m \in Messages : m < n => m \in stored[u] \cup Excused(u)

\* What the state of the process leaves open to a unit.
Connected(u) ==
    /\ own[u] = {} /\ phase[u] # "failed"
    /\ proc = "down" => phase[u] = "idle"
    /\ proc = "prepared" => phase[u] = "frozen" /\ since[u] = delivered[u]
    /\ phase[u] = "idle" =>
        /\ proc = "down" /\ since[u] = delivered[u] /\ intake[u] = <<>>
        /\ cursor[u] = 0 /\ hole[u] = {}

\* A frozen unit buffers every live message, in order, and writes none.
Waits(u) ==
    IsFrozen(u) =>
        /\ intake[u] = <<>>
        /\ Len(live[u]) = delivered[u] - since[u]
        /\ \A k \in 1..Len(live[u]) : live[u][k] = since[u] + k

\* Until its commit, the floor is the newest message a unit has stored.
Below(u) ==
    phase[u] \in {"frozen", "filling", "held"} =>
        /\ \A n \in stored[u] : n <= floor[u]
        /\ floor[u] \in stored[u] \cup {0}
        /\ hole[u] = {}

\* Everything between two messages is in the buffer or erased.
Spanned(u, low, n) ==
    \A m \in Messages : floor[u] < m /\ low <= m /\ m <= n => m \in buf[u] \cup erased[u]

\* The descent skips nothing: from its cursor up to the last message before the start
\* everything above the floor is buffered or erased.
Descends(u) ==
    phase[u] \in {"frozen", "filling"} =>
        /\ cursor[u] = 0 => buf[u] = {}
        /\ phase[u] = "frozen" => cursor[u] = 0
        /\ \A b \in buf[u] : cursor[u] <= b
        /\ cursor[u] # 0 => \A n \in buf[u] \cup {since[u]} : Spanned(u, cursor[u], n)

\* The commit closes the gap from its floor upwards: what is no longer to do is stored.
Commits(u) ==
    phase[u] = "committing" =>
        /\ floor[u] \in stored[u] \cup {0}
        /\ buf[u] \ todo[u] \subseteq stored[u]
        /\ \A n \in buf[u] \cup {since[u]} : \A m \in Messages :
            floor[u] < m /\ m <= n => m \in buf[u] \cup erased[u] \cup hole[u]

\* After the freeze the history is whole up to the start of the process, and the live
\* messages queue in order for their append.
Follows(u) ==
    phase[u] = "done" =>
        /\ 1..since[u] \subseteq stored[u] \cup Excused(u) \cup hole[u]
        /\ Len(intake[u]) <= delivered[u] - since[u]
        /\ \A k \in 1..Len(intake[u]) : intake[u][k] = delivered[u] - Len(intake[u]) + k
        /\ proc = "up" \/ intake[u] # <<>> =>
            (since[u] + 1)..(delivered[u] - Len(intake[u])) \subseteq stored[u] \cap handled[u]

Whole(u) ==
    Closed(u) /\ Connected(u) /\ Waits(u) /\ Below(u) /\ Descends(u) /\ Commits(u) /\ Follows(u)

\* The inductive invariant when nothing fails.
WInv == IInv /\ \A u \in Units : Whole(u)

-----------------------------------------------------------------------------
\* With distinct timestamps, the high-water is the newest stored message, ...
LEMMA HighWaterNewest ==
    ASSUME OneStampEach, IInv, NEW u \in Units, NEW f \in HighWater(u)
    PROVE  f \in stored[u] \cup {0} /\ \A n \in stored[u] : n <= f
PROOF
  <1>1. stored[u] \in SUBSET Messages /\ MaxMessages \in Nat
    BY GapAssumption DEF IInv, Sound, Shaped
  <1>2. Stamp \in [Messages -> Nat]
    BY GapAssumption DEF Messages
  <1> QED
    BY <1>1, <1>2 DEF OneStampEach, HighWater, Messages

\* ... the descent buffers what lies above the floor, ...
LEMMA AboveFloorIs ==
    ASSUME OneStampEach, IInv, NEW u \in Units, NEW P \in SUBSET Messages
    PROVE  AboveFloor(u, P) = {m \in P : floor[u] < m}
PROOF
  <1>1. floor[u] \in 0..MaxMessages /\ MaxMessages \in Nat
    BY GapAssumption DEF IInv, Sound, Shaped
  <1>2. Stamp \in [Messages -> Nat]
    BY GapAssumption DEF Messages
  <1>3. ASSUME NEW m \in Messages PROVE AtFloor(u, m) <=> floor[u] # 0 /\ m <= floor[u]
    BY <1>1, <1>2 DEF OneStampEach, AtFloor, Messages
  <1>4. \A m \in P : m \in Messages /\ m \in Nat /\ m > 0
    BY <1>1 DEF Messages
  <1>5. ASSUME NEW m \in P PROVE (\A n \in P : AtFloor(u, n) => n < m) <=> floor[u] < m
    BY <1>1, <1>3, <1>4
  <1> QED
    BY <1>5 DEF AboveFloor

\* ... and the commit appends the oldest message first.
LEMMA NextOldest ==
    ASSUME OneStampEach, IInv, NEW u \in Units, NEW m \in NextToCommit(u)
    PROVE  m \in todo[u] /\ \A n \in todo[u] : m <= n
PROOF
  <1>1. todo[u] \in SUBSET Messages /\ MaxMessages \in Nat
    BY GapAssumption DEF IInv, Sound, Shaped
  <1>2. Stamp \in [Messages -> Nat]
    BY GapAssumption DEF Messages
  <1> QED
    BY <1>1, <1>2 DEF OneStampEach, NextToCommit, Messages

-----------------------------------------------------------------------------
\* A unit that nothing touches but the server stays whole.
Steady(v) ==
    /\ erased[v] \subseteq erased'[v] /\ own'[v] = own[v]
    /\ stored'[v] = stored[v] /\ waived'[v] = waived[v]
    /\ since'[v] = since[v] /\ delivered'[v] = delivered[v] /\ phase'[v] = phase[v]
    /\ floor'[v] = floor[v] /\ cursor'[v] = cursor[v] /\ buf'[v] = buf[v]
    /\ todo'[v] = todo[v] /\ hole'[v] = hole[v] /\ live'[v] = live[v]
    /\ intake'[v] = intake[v] /\ handled'[v] = handled[v]

LEMMA SteadyWhole ==
    ASSUME NEW v \in Units, Whole(v), Steady(v), proc' = proc
    PROVE  Whole(v)'
PROOF
  <1>1. Closed(v)' /\ Connected(v)' /\ Waits(v)' /\ Below(v)'
    BY DEF Whole, Steady, Closed, Excused, Connected, Waits, IsFrozen, Below
  <1>2. Descends(v)'
    BY DEF Whole, Steady, Descends, Spanned
  <1>3. Commits(v)'
    BY DEF Whole, Steady, Commits
  <1>4. Follows(v)'
    BY DEF Whole, Steady, Follows, Excused
  <1> QED
    BY <1>1, <1>2, <1>3, <1>4 DEF Whole

LEMMA ServerWhole ==
    ASSUME WInv, NEW u \in Units, NEW m \in Messages,
           Post(u) \/ EraseUnseen(u, m) \/ Erase(u, m) \/ Lapse(u, m)
    PROVE  \A v \in Units : Whole(v)'
PROOF
  <1>1. erased \in [Units -> SUBSET Messages]
    BY DEF WInv, IInv, Sound, Shaped
  <1>2. ASSUME NEW v \in Units PROVE Steady(v) /\ proc' = proc
    <2>1. CASE Post(u)
      BY <2>1 DEF Post, Steady, table, connection, descent, deletions
    <2>2. CASE EraseUnseen(u, m)
      BY <1>1, <2>2 DEF EraseUnseen, Steady, table, connection, descent, deletions
    <2>3. CASE Erase(u, m)
      BY <1>1, <2>3 DEF Erase, Steady, connection, descent
    <2>4. CASE Lapse(u, m)
      BY <1>1, <2>4 DEF Lapse, Steady, server, table, connection, descent
    <2> QED
      BY <2>1, <2>2, <2>3, <2>4
  <1> QED
    BY <1>2, SteadyWhole DEF WInv

LEMMA DeliverWhole == ASSUME WInv, NEW u \in Units, Deliver(u) PROVE \A v \in Units : Whole(v)'
PROOF
  <1> DEFINE m == delivered[u] + 1
  <1>1. MaxMessages \in Nat /\ Shaped /\ Fits(u) /\ Whole(u)
    BY GapAssumption DEF WInv, IInv, Sound
  <1>2. /\ m \in Messages /\ m = delivered[u] + 1 /\ delivered[u] \in Nat /\ since[u] \in Nat
        /\ since[u] <= delivered[u]
        /\ live[u] \in Seq(Messages) /\ intake[u] \in Seq(Messages)
    BY <1>1 DEF Deliver, Shaped, Messages, Fits
  <1>3. /\ delivered' = [delivered EXCEPT ![u] = m]
        /\ live' = [live EXCEPT ![u] =
                      IF m \notin own[u] /\ IsFrozen(u) THEN Append(@, m) ELSE @]
        /\ intake' = [intake EXCEPT ![u] =
                      IF m \notin own[u] /\ ~IsFrozen(u) THEN Append(@, m) ELSE @]
        /\ proc = "up"
        /\ UNCHANGED <<server, table, proc, since, phase, descent, deletions, handled>>
    BY DEF Deliver
  <1> HIDE DEF m
  <1>4. m \notin own[u]
    BY <1>1 DEF Whole, Connected
  <1>5. /\ live'[u] = IF IsFrozen(u) THEN Append(live[u], m) ELSE live[u]
        /\ intake'[u] = IF IsFrozen(u) THEN intake[u] ELSE Append(intake[u], m)
        /\ delivered'[u] = m
        /\ \A v \in Units \ {u} : /\ live'[v] = live[v] /\ intake'[v] = intake[v]
                                  /\ delivered'[v] = delivered[v]
    BY <1>1, <1>3, <1>4 DEF Shaped
  <1>6. \A v \in Units \ {u} : Whole(v)'
    <2>1. \A v \in Units \ {u} : Steady(v)
      BY <1>3, <1>5 DEF Steady, server, table, descent
    <2> QED
      BY <1>3, <2>1, SteadyWhole DEF WInv
  <1>7. /\ erased'[u] = erased[u] /\ own'[u] = own[u] /\ stored'[u] = stored[u]
        /\ waived'[u] = waived[u] /\ since'[u] = since[u] /\ phase'[u] = phase[u]
        /\ floor'[u] = floor[u] /\ cursor'[u] = cursor[u] /\ buf'[u] = buf[u]
        /\ todo'[u] = todo[u] /\ hole'[u] = hole[u] /\ handled'[u] = handled[u] /\ proc' = proc
    BY <1>3 DEF server, table, descent
  <1>8. Closed(u)' /\ Below(u)' /\ Descends(u)' /\ Commits(u)'
    BY <1>1, <1>7 DEF Whole, Closed, Excused, Below, Descends, Spanned, Commits
  <1>9. phase[u] # "idle" /\ phase[u] # "failed" /\ proc = "up"
    BY <1>1, <1>3 DEF Whole, Connected
  <1>10. Connected(u)'
    BY <1>1, <1>7, <1>9 DEF Whole, Connected
  <1>11. CASE IsFrozen(u)
    <2>1. Len(live[u]) = delivered[u] - since[u] /\ intake[u] = <<>>
          /\ \A k \in 1..Len(live[u]) : live[u][k] = since[u] + k
      BY <1>1, <1>11 DEF Whole, Waits
    <2>2. /\ Len(Append(live[u], m)) = Len(live[u]) + 1
          /\ \A k \in 1..Len(Append(live[u], m)) :
                \/ k \in 1..Len(live[u]) /\ Append(live[u], m)[k] = live[u][k]
                \/ k = Len(live[u]) + 1 /\ Append(live[u], m)[k] = m
      BY <1>2, AppendElements
    <2>3. Len(Append(live[u], m)) = m - since[u]
      BY <1>2, <2>1, <2>2
    <2>6. \A k \in 1..Len(Append(live[u], m)) : Append(live[u], m)[k] = since[u] + k
      BY <1>2, <2>1, <2>2
    <2>4. Waits(u)'
      BY <1>5, <1>7, <1>11, <2>1, <2>3, <2>6 DEF Waits
    <2>5. Follows(u)'
      BY <1>7, <1>11 DEF IsFrozen, Follows
    <2> QED
      BY <1>6, <1>8, <1>10, <2>4, <2>5 DEF Whole
  <1>12. CASE ~IsFrozen(u)
    <2>1. phase[u] = "done"
      BY <1>1, <1>9, <1>12 DEF IsFrozen, Shaped, Phases
    <2>2. Waits(u)'
      BY <1>7, <1>12 DEF IsFrozen, Waits
    <2>3. /\ 1..since[u] \subseteq stored[u] \cup Excused(u) \cup hole[u]
          /\ Len(intake[u]) <= delivered[u] - since[u]
          /\ \A k \in 1..Len(intake[u]) : intake[u][k] = delivered[u] - Len(intake[u]) + k
          /\ (since[u] + 1)..(delivered[u] - Len(intake[u])) \subseteq stored[u] \cap handled[u]
      BY <1>1, <1>9, <2>1 DEF Whole, Follows
    <2>4. Len(intake'[u]) = Len(intake[u]) + 1 /\ Len(intake[u]) \in Nat
      BY <1>2, <1>5, <1>12, AppendElements
    <2>5. \A k \in 1..Len(intake'[u]) : intake'[u][k] = m - Len(intake'[u]) + k
      <3>1. \A k \in 1..Len(Append(intake[u], m)) :
                Append(intake[u], m)[k] = m - (Len(intake[u]) + 1) + k
        <4>1. \A k \in 1..Len(Append(intake[u], m)) :
                  \/ k \in 1..Len(intake[u]) /\ Append(intake[u], m)[k] = intake[u][k]
                  \/ k = Len(intake[u]) + 1 /\ Append(intake[u], m)[k] = m
          BY <1>2, AppendElements
        <4> QED
          BY <1>2, <2>3, <2>4, <4>1, SMTT(30)
      <3> QED
        BY <1>5, <1>12, <2>4, <3>1
    <2>6. m - Len(intake'[u]) = delivered[u] - Len(intake[u])
      <3>1. \A d, n \in Nat : (d + 1) - (n + 1) = d - n
        OBVIOUS
      <3> QED
        BY <1>2, <2>4, <3>1, ZenonT(60)
    <2>7. Excused(u)' = Excused(u)
      BY <1>7 DEF Excused
    <2>8. Len(intake'[u]) <= m - since[u]
      BY <1>2, <2>3, <2>4
    <2>9. Follows(u)'
      BY <1>5, <1>7, <2>3, <2>5, <2>6, <2>7, <2>8 DEF Follows
    <2> QED
      BY <1>6, <1>8, <1>10, <2>2, <2>9 DEF Whole
  <1> QED
    BY <1>11, <1>12

\* A message inserted closes its history when what it leaves behind is stored, excused or
\* in the acknowledged hole.
LEMMA InsertClosed ==
    ASSUME IInv, NEW u \in Units, NEW m \in Messages, Insert(u, m), Closed(u), erased' = erased,
           \A x \in Messages : x < m => x \in stored[u] \cup Excused(u) \cup hole[u]
    PROVE  Closed(u)'
PROOF
  <1>1. /\ stored'[u] = stored[u] \cup {m}
        /\ waived'[u] = waived[u] \cup {h \in hole[u] : h < m}
    BY Inserts DEF IInv
  <1>2. Excused(u) \subseteq Excused(u)' /\ \A x \in hole[u] : x < m => x \in Excused(u)'
    BY <1>1 DEF Excused
  <1> QED
    BY <1>1, <1>2 DEF Closed

LEMMA WriteWhole == ASSUME WInv, NEW u \in Units, Write(u) PROVE \A v \in Units : Whole(v)'
PROOF
  <1> DEFINE m == Head(intake[u])
             low == delivered[u] - Len(intake[u])
  <1>1. MaxMessages \in Nat /\ Shaped /\ Sound /\ Fits(u) /\ Whole(u)
    BY GapAssumption DEF WInv, IInv, Sound
  <1>2. /\ intake[u] \in Seq(Messages) /\ intake[u] # <<>> /\ m \in Messages
        /\ m = intake[u][1] /\ 1 \in 1..Len(intake[u]) /\ Len(intake[u]) \in Nat
        /\ Len(Tail(intake[u])) = Len(intake[u]) - 1
        /\ \A k \in 1..Len(Tail(intake[u])) : Tail(intake[u])[k] = intake[u][k + 1]
        /\ since[u] \in Nat /\ delivered[u] \in Nat
    BY <1>1 DEF Write, Shaped
  <1>3. /\ Insert(u, m)
        /\ handled' = [handled EXCEPT ![u] = @ \cup {m}]
        /\ intake' = [intake EXCEPT ![u] = Tail(@)]
        /\ proc \in {"up", "draining"}
        /\ UNCHANGED <<server, proc, connection, phase, descent, live, marked, retracted,
                       lapsed>>
    BY DEF Write
  <1>4. phase[u] = "done"
    BY <1>1, <1>2, <1>3 DEF Whole, Connected, Waits, IsFrozen, Shaped, Phases
  <1>5. /\ 1..since[u] \subseteq stored[u] \cup Excused(u) \cup hole[u]
        /\ Len(intake[u]) <= delivered[u] - since[u]
        /\ \A k \in 1..Len(intake[u]) : intake[u][k] = low + k
        /\ (since[u] + 1)..low \subseteq stored[u] \cap handled[u]
    BY <1>1, <1>2, <1>4 DEF Whole, Follows
  <1>6. m = low + 1 /\ low \in Nat
    BY <1>2, <1>5
  <1> HIDE DEF m, low
  <1>7. /\ stored'[u] = stored[u] \cup {m} /\ waived[u] \subseteq waived'[u]
        /\ \A v \in Units \ {u} : stored'[v] = stored[v] /\ waived'[v] = waived[v]
    BY <1>1, <1>2, <1>3, Inserts
  <1>8. /\ intake'[u] = Tail(intake[u]) /\ handled'[u] = handled[u] \cup {m}
        /\ \A v \in Units \ {u} : intake'[v] = intake[v] /\ handled'[v] = handled[v]
    BY <1>1, <1>3 DEF Shaped
  <1>9. \A v \in Units \ {u} : Whole(v)'
    <2>1. \A v \in Units \ {u} : Steady(v)
      BY <1>3, <1>7, <1>8 DEF Steady, server, connection, descent
    <2> QED
      BY <1>3, <2>1, SteadyWhole DEF WInv
  <1>10. Closed(u)'
    <2>1. \A x \in Messages : x < m => x \in stored[u] \cup Excused(u) \cup hole[u]
      <3>1. ASSUME NEW x \in Messages, x < m PROVE x \in 1..since[u] \/ x \in (since[u] + 1)..low
        BY <1>1, <1>2, <1>6, <3>1 DEF Messages
      <3> QED
        BY <1>5, <3>1
    <2>2. erased' = erased /\ Closed(u) /\ IInv
      BY <1>1, <1>3 DEF server, Whole, WInv
    <2> QED
      BY <1>2, <1>3, <2>1, <2>2, InsertClosed
  <1>11. phase'[u] = "done" /\ proc' = proc /\ own'[u] = own[u]
    BY <1>3, <1>4 DEF server
  <1>12. Connected(u)' /\ Waits(u)' /\ Below(u)' /\ Descends(u)' /\ Commits(u)'
    BY <1>1, <1>3, <1>4, <1>11 DEF Whole, Connected, Waits, IsFrozen, Below, Descends, Commits
  <1>13. Follows(u)'
    <2>1. /\ since'[u] = since[u] /\ delivered'[u] = delivered[u] /\ hole'[u] = hole[u]
          /\ erased'[u] = erased[u]
      BY <1>3 DEF connection, descent, server
    <2>2. delivered[u] - Len(intake'[u]) = low + 1
      BY <1>2, <1>8 DEF low
    <2>3. \A k \in 1..Len(intake'[u]) : intake'[u][k] = low + 1 + k
      <3>1. ASSUME NEW k \in 1..Len(Tail(intake[u])) PROVE Tail(intake[u])[k] = low + 1 + k
        <4>1. k + 1 \in 1..Len(intake[u]) /\ Tail(intake[u])[k] = intake[u][k + 1]
          BY <1>2
        <4>2. intake[u][k + 1] = low + (k + 1)
          BY <1>5, <4>1
        <4> QED
          BY <1>6, <4>1, <4>2
      <3> QED
        BY <1>8, <3>1
    <2>4. (since[u] + 1)..(low + 1) \subseteq stored'[u] \cap handled'[u]
      BY <1>2, <1>5, <1>6, <1>7, <1>8
    <2>5. 1..since[u] \subseteq stored'[u] \cup Excused(u)' \cup hole[u]
      BY <1>5, <1>7, <2>1 DEF Excused
    <2>6. Len(intake'[u]) <= delivered[u] - since[u]
      BY <1>2, <1>5, <1>8
    <2> QED
      BY <2>1, <2>2, <2>3, <2>4, <2>5, <2>6 DEF Follows
  <1> QED
    BY <1>9, <1>10, <1>12, <1>13 DEF Whole

-----------------------------------------------------------------------------
LEMMA PrepareWhole == ASSUME OneStampEach, WInv, Prepare PROVE \A v \in Units : Whole(v)'
PROOF
  <1>1. MaxMessages \in Nat /\ Shaped
    BY GapAssumption DEF WInv, IInv, Sound
  <1>2. ASSUME NEW v \in Units PROVE Whole(v)'
    <2>1. Whole(v) /\ Fits(v) /\ phase[v] = "idle"
      BY DEF WInv, IInv, Sound, Asleep, Idle, Prepare
    <2>2. /\ since[v] = delivered[v] /\ intake[v] = <<>> /\ cursor[v] = 0 /\ hole[v] = {}
          /\ buf[v] = {} /\ live[v] = <<>> /\ own[v] = {}
      BY <2>1 DEF Whole, Connected, Fits
    <2>3. /\ proc' = "prepared" /\ phase'[v] = "frozen" /\ since'[v] = since[v]
          /\ delivered'[v] = delivered[v] /\ intake'[v] = <<>> /\ cursor'[v] = 0 /\ hole'[v] = {}
          /\ buf'[v] = {} /\ live'[v] = <<>> /\ own'[v] = {} /\ stored'[v] = stored[v]
          /\ waived'[v] = waived[v] /\ erased'[v] = erased[v]
      BY <2>2 DEF Prepare, server, table, connection
    <2>4. floor'[v] \in HighWater(v)
      BY DEF Prepare
    <2>5. floor'[v] \in stored[v] \cup {0} /\ \A n \in stored[v] : n <= floor'[v]
      BY <2>4, HighWaterNewest DEF WInv
    <2>6. Closed(v)'
      BY <2>1, <2>3 DEF Whole, Closed, Excused
    <2>7. Connected(v)' /\ Below(v)' /\ Descends(v)' /\ Commits(v)' /\ Follows(v)'
      BY <2>2, <2>3, <2>5 DEF Connected, Below, Descends, Commits, Follows
    <2>8. Waits(v)'
      <3>1. delivered[v] - since[v] = 0 /\ Len(live'[v]) = 0
        BY <1>1, <2>2, <2>3 DEF Shaped
      <3> QED
        BY <2>3, <3>1 DEF Waits
    <2> QED
      BY <2>6, <2>7, <2>8 DEF Whole
  <1> QED
    BY <1>2

LEMMA StartProvidersWhole == ASSUME WInv, StartProviders PROVE \A v \in Units : Whole(v)'
PROOF
  <1>1. MaxMessages \in Nat /\ Shaped
    BY GapAssumption DEF WInv, IInv, Sound
  <1>2. ASSUME NEW v \in Units PROVE Whole(v)'
    <2>1. Whole(v) /\ Fits(v)
      BY DEF WInv, IInv, Sound
    <2>2. /\ phase[v] = "frozen" /\ since[v] = delivered[v] /\ own[v] = {}
      BY <2>1 DEF StartProviders, Whole, Connected
    <2>3. intake[v] = <<>> /\ Len(live[v]) = 0 /\ cursor[v] = 0
      BY <1>1, <2>1, <2>2 DEF Whole, Waits, IsFrozen, Descends, Shaped
    <2>4. /\ proc' = "up" /\ phase'[v] = "frozen" /\ since'[v] = posted[v]
          /\ delivered'[v] = posted[v] /\ intake'[v] = <<>> /\ cursor'[v] = 0
          /\ hole'[v] = hole[v] /\ floor'[v] = floor[v]
          /\ buf'[v] = buf[v] /\ live'[v] = live[v] /\ own'[v] = {} /\ stored'[v] = stored[v]
          /\ waived'[v] = waived[v] /\ erased'[v] = erased[v]
      BY <2>2, <2>3 DEF StartProviders, server, table, descent
    <2>5. Closed(v)' /\ Connected(v)' /\ Below(v)' /\ Descends(v)' /\ Commits(v)' /\ Follows(v)'
      BY <2>1, <2>2, <2>3, <2>4
         DEF Whole, Closed, Excused, Connected, Below, Descends, Commits, Follows
    <2>6. Waits(v)'
      <3>1. posted[v] - posted[v] = 0
        BY <1>1 DEF Shaped
      <3> QED
        BY <2>3, <2>4, <3>1 DEF Waits
    <2> QED
      BY <2>5, <2>6 DEF Whole
  <1> QED
    BY <1>2

LEMMA LaunchWhole == ASSUME WInv, NEW u \in Units, Launch(u) PROVE \A v \in Units : Whole(v)'
PROOF
  <1>1. Shaped /\ Whole(u)
    BY DEF WInv, IInv, Sound
  <1>2. /\ phase[u] = "frozen" /\ proc = "up" /\ phase' = [phase EXCEPT ![u] = "filling"]
        /\ UNCHANGED <<server, table, proc, connection, descent, live, intake, deletions, handled>>
    BY DEF Launch
  <1>3. \A v \in Units \ {u} : Whole(v)'
    <2>1. \A v \in Units \ {u} : Steady(v)
      BY <1>1, <1>2 DEF Shaped, Steady, server, table, connection, descent
    <2> QED
      BY <1>2, <2>1, SteadyWhole DEF WInv
  <1>4. /\ erased'[u] = erased[u] /\ own'[u] = own[u] /\ stored'[u] = stored[u]
        /\ waived'[u] = waived[u] /\ since'[u] = since[u] /\ delivered'[u] = delivered[u]
        /\ floor'[u] = floor[u] /\ cursor'[u] = cursor[u] /\ buf'[u] = buf[u]
        /\ hole'[u] = hole[u] /\ live'[u] = live[u] /\ intake'[u] = intake[u]
        /\ proc' = "up" /\ phase'[u] = "filling"
    BY <1>1, <1>2 DEF Shaped, server, table, connection, descent
  <1>5. Closed(u)' /\ Connected(u)' /\ Waits(u)' /\ Below(u)' /\ Commits(u)' /\ Follows(u)'
    BY <1>1, <1>2, <1>4
       DEF Whole, Closed, Excused, Connected, Waits, IsFrozen, Below, Commits, Follows
  <1>6. Descends(u)'
    BY <1>1, <1>2, <1>4 DEF Whole, Descends, Spanned
  <1> QED
    BY <1>3, <1>5, <1>6 DEF Whole

\* The end of a freeze hands the live messages over in order, once the history is whole up to
\* the start of the process.
LEMMA ReplayWhole ==
    ASSUME WInv, NEW u \in Units, IsFrozen(u), proc \in {"up", "draining"},
           phase' = [phase EXCEPT ![u] = "done"],
           intake' = [intake EXCEPT ![u] = Replayed(u)],
           live' = [live EXCEPT ![u] = <<>>],
           buf' = [buf EXCEPT ![u] = {}],
           1..since[u] \subseteq stored[u] \cup Excused(u) \cup hole'[u],
           \A v \in Units \ {u} : hole'[v] = hole[v],
           UNCHANGED <<server, table, proc, connection, floor, cursor, todo, deletions, handled>>
    PROVE  \A v \in Units : Whole(v)'
PROOF
  <1>1. Shaped /\ Whole(u) /\ Fits(u)
    BY DEF WInv, IInv, Sound
  <1>2. \A v \in Units \ {u} : Whole(v)'
    <2>1. \A v \in Units \ {u} : Steady(v)
      BY <1>1 DEF Shaped, Steady, server, table, connection
    <2> QED
      BY <2>1, SteadyWhole DEF WInv
  <1>3. /\ erased'[u] = erased[u] /\ own'[u] = own[u] /\ stored'[u] = stored[u]
        /\ waived'[u] = waived[u] /\ since'[u] = since[u] /\ delivered'[u] = delivered[u]
        /\ intake'[u] = Replayed(u) /\ live'[u] = <<>> /\ phase'[u] = "done"
        /\ handled'[u] = handled[u]
    BY <1>1 DEF Shaped, server, table, connection
  <1>4. Closed(u)' /\ Connected(u)' /\ Waits(u)' /\ Below(u)' /\ Descends(u)' /\ Commits(u)'
    BY <1>1, <1>3
       DEF Whole, Closed, Excused, Connected, Waits, IsFrozen, Below, Descends, Commits
  <1>5. Follows(u)'
    <2>1. /\ intake[u] = <<>> /\ Len(live[u]) = delivered[u] - since[u]
          /\ \A k \in 1..Len(live[u]) : live[u][k] = since[u] + k
          /\ since[u] \in Nat /\ delivered[u] \in Nat /\ since[u] <= delivered[u]
          /\ live[u] \in Seq(Messages)
      BY <1>1 DEF Whole, Waits, Shaped, Fits
    <2>2. 1..since[u] \subseteq stored'[u] \cup Excused(u)' \cup hole'[u]
      BY <1>3 DEF Excused
    <2>3. CASE proc = "draining"
      <3>1. Len(intake'[u]) = 0 /\ intake'[u] = <<>> /\ proc' = "draining"
        BY <1>3, <2>1, <2>3 DEF Replayed
      <3>2. 0 <= delivered[u] - since[u]
        BY <2>1
      <3> QED
        BY <1>3, <2>2, <3>1, <3>2 DEF Follows
    <2>4. CASE proc # "draining"
      <3>1. intake'[u] = live[u]
        BY <1>3, <2>1, <2>4 DEF Replayed
      <3>2. /\ Len(live[u]) = delivered[u] - since[u] /\ delivered[u] - Len(live[u]) = since[u]
            /\ Len(live[u]) <= delivered[u] - since[u]
            /\ (since[u] + 1)..since[u] = {}
        BY <2>1
      <3> QED
        BY <1>3, <2>1, <2>2, <3>1, <3>2 DEF Follows
    <2> QED
      BY <2>3, <2>4
  <1> QED
    BY <1>2, <1>4, <1>5 DEF Whole

LEMMA ReleaseWhole == ASSUME WInv, NEW u \in Units, Release(u) PROVE \A v \in Units : Whole(v)'
PROOF
  <1>1. Shaped
    BY DEF WInv, IInv, Sound
  <1>2. IsFrozen(u)
    BY DEF Release, IsFrozen
  <1>3. hole'[u] = 1..since[u] \ stored[u] /\ \A v \in Units \ {u} : hole'[v] = hole[v]
    BY <1>1 DEF Release, Shaped
  <1>4. 1..since[u] \subseteq stored[u] \cup Excused(u) \cup hole'[u]
    BY <1>3
  <1> QED
    BY <1>2, <1>3, <1>4, ReplayWhole DEF Release

LEMMA UnfreezeWhole == ASSUME WInv, NEW u \in Units, Unfreeze(u) PROVE \A v \in Units : Whole(v)'
PROOF
  <1>1. /\ phase[u] = "committing" /\ todo[u] = {} /\ proc \in {"up", "draining"}
        /\ phase' = [phase EXCEPT ![u] = "done"]
        /\ intake' = [intake EXCEPT ![u] = Replayed(u)]
        /\ live' = [live EXCEPT ![u] = <<>>]
        /\ buf' = [buf EXCEPT ![u] = {}]
        /\ hole' = hole
        /\ UNCHANGED <<server, table, proc, connection, floor, cursor, todo, deletions, handled>>
    BY DEF Unfreeze
  <1>2. 1..since[u] \subseteq stored[u] \cup Excused(u) \cup hole'[u]
    <2>1. MaxMessages \in Nat /\ Shaped /\ Whole(u)
      BY GapAssumption DEF WInv, IInv, Sound
    <2>2. /\ floor[u] \in stored[u] \cup {0} /\ buf[u] \subseteq stored[u]
          /\ \A m \in Messages :
                floor[u] < m /\ m <= since[u] => m \in buf[u] \cup erased[u] \cup hole[u]
      BY <1>1, <2>1 DEF Whole, Commits
    <2>3. ASSUME NEW m \in 1..since[u] PROVE m \in stored[u] \cup Excused(u) \cup hole[u]
      <3>1. m \in Messages /\ floor[u] \in 0..MaxMessages
        BY <2>1 DEF Shaped, Messages
      <3>2. CASE floor[u] < m
        BY <2>2, <2>3, <3>1, <3>2 DEF Excused
      <3>3. CASE m = floor[u]
        BY <2>1, <2>2, <3>1, <3>3 DEF Messages
      <3>4. CASE m < floor[u]
        BY <2>1, <2>2, <3>1, <3>4 DEF Whole, Closed, Messages
      <3> QED
        BY <2>1, <3>1, <3>2, <3>3, <3>4 DEF Messages
    <2> QED
      BY <1>1, <2>3
  <1> QED
    BY <1>1, <1>2, ReplayWhole DEF IsFrozen

\* What lies below the oldest message still to append is stored, excused or in the hole.
LEMMA CommitCloses ==
    ASSUME OneStampEach, WInv, NEW u \in Units, phase[u] = "committing", NEW m \in NextToCommit(u)
    PROVE  \A x \in Messages : x < m => x \in stored[u] \cup Excused(u) \cup hole[u]
PROOF
  <1>1. MaxMessages \in Nat /\ Shaped /\ Whole(u) /\ Fits(u)
    BY GapAssumption DEF WInv, IInv, Sound
  <1>2. m \in todo[u] /\ \A n \in todo[u] : m <= n
    BY NextOldest DEF WInv
  <1>3. m \in buf[u] /\ m \in Messages
    BY <1>1, <1>2 DEF Fits, Shaped
  <1>4. /\ floor[u] \in stored[u] \cup {0} /\ buf[u] \ todo[u] \subseteq stored[u]
        /\ \A x \in Messages : floor[u] < x /\ x <= m => x \in buf[u] \cup erased[u] \cup hole[u]
    BY <1>1, <1>3 DEF Whole, Commits
  <1>5. ASSUME NEW x \in Messages, x < m PROVE x \in stored[u] \cup Excused(u) \cup hole[u]
    <2>1. floor[u] \in 0..MaxMessages
      BY <1>1 DEF Shaped
    <2>2. x \notin todo[u]
      BY <1>1, <1>2, <1>3, <1>5 DEF Messages
    <2>3. CASE floor[u] < x
      <3>1. x \in buf[u] \cup erased[u] \cup hole[u]
        BY <1>1, <1>3, <1>4, <1>5, <2>3 DEF Messages
      <3> QED
        BY <1>4, <2>2, <3>1 DEF Excused
    <2>4. CASE x = floor[u]
      BY <1>1, <1>4, <2>4 DEF Messages
    <2>5. CASE x < floor[u]
      BY <1>1, <1>4, <2>1, <2>5 DEF Whole, Closed, Messages
    <2> QED
      BY <1>1, <2>1, <2>3, <2>4, <2>5 DEF Messages
  <1> QED
    BY <1>5

LEMMA AppendNextWhole ==
    ASSUME OneStampEach, WInv, NEW u \in Units, AppendNext(u)
    PROVE  \A v \in Units : Whole(v)'
PROOF
  <1>1. MaxMessages \in Nat /\ Shaped /\ Sound /\ IInv /\ Whole(u) /\ Fits(u)
    BY GapAssumption DEF WInv, IInv, Sound
  <1>2. PICK m \in NextToCommit(u) : Insert(u, m) /\ todo' = [todo EXCEPT ![u] = @ \ {m}]
    BY DEF AppendNext
  <1>3. m \in Messages
    BY <1>1 DEF NextToCommit, Shaped
  <1>4. /\ phase[u] = "committing"
        /\ UNCHANGED <<server, proc, connection, phase, floor, cursor, buf, hole, live, intake,
                       marked, retracted, handled>>
    BY DEF AppendNext
  <1>5. /\ stored'[u] = stored[u] \cup {m} /\ waived[u] \subseteq waived'[u]
        /\ todo'[u] = todo[u] \ {m}
        /\ \A v \in Units \ {u} : /\ stored'[v] = stored[v] /\ waived'[v] = waived[v]
                                  /\ todo'[v] = todo[v]
    BY <1>1, <1>2, <1>3, Inserts DEF Shaped
  <1>6. \A v \in Units \ {u} : Whole(v)'
    <2>1. \A v \in Units \ {u} : Steady(v)
      BY <1>4, <1>5 DEF Steady, server, connection
    <2> QED
      BY <1>4, <2>1, SteadyWhole DEF WInv
  <1>7. Closed(u)'
    BY <1>1, <1>2, <1>3, <1>4, CommitCloses, InsertClosed DEF Whole, server
  <1>8. /\ erased'[u] = erased[u] /\ own'[u] = own[u] /\ since'[u] = since[u]
        /\ delivered'[u] = delivered[u] /\ phase'[u] = "committing" /\ floor'[u] = floor[u]
        /\ buf'[u] = buf[u] /\ hole'[u] = hole[u] /\ live'[u] = live[u] /\ intake'[u] = intake[u]
        /\ proc' = proc
    BY <1>4 DEF server, connection
  <1>9. Connected(u)' /\ Waits(u)' /\ Below(u)' /\ Descends(u)' /\ Follows(u)'
    BY <1>1, <1>4, <1>8 DEF Whole, Connected, Waits, IsFrozen, Below, Descends, Follows
  <1>10. Commits(u)'
    BY <1>1, <1>4, <1>5, <1>8 DEF Whole, Commits
  <1> QED
    BY <1>6, <1>7, <1>9, <1>10 DEF Whole

LEMMA DrainWhole == ASSUME WInv, Drain PROVE \A v \in Units : Whole(v)'
PROOF
  <1>1. ASSUME NEW v \in Units PROVE Whole(v)'
    <2>1. /\ Whole(v) /\ Steady(v) /\ proc = "up" /\ proc' = "draining" /\ erased'[v] = erased[v]
      BY DEF WInv, Drain, Steady, server, table, connection, descent
    <2>2. Closed(v)' /\ Connected(v)' /\ Waits(v)' /\ Below(v)'
      BY <2>1 DEF Whole, Steady, Closed, Excused, Connected, Waits, IsFrozen, Below
    <2>3. Descends(v)' /\ Commits(v)'
      BY <2>1 DEF Whole, Steady, Descends, Spanned, Commits
    <2>4. Follows(v)'
      BY <2>1 DEF Whole, Steady, Follows, Excused
    <2> QED
      BY <2>2, <2>3, <2>4 DEF Whole
  <1> QED
    BY <1>1

\* A crash leaves only the table, and the table is closed at every moment.
LEMMA ExitWhole == ASSUME WInv, Exit PROVE \A v \in Units : Whole(v)'
PROOF
  <1>1. ASSUME NEW v \in Units PROVE Whole(v)'
    <2>1. /\ Whole(v) /\ proc' = "down" /\ phase'[v] = "idle" /\ since'[v] = 0
          /\ delivered'[v] = 0 /\ intake'[v] = <<>> /\ cursor'[v] = 0 /\ hole'[v] = {}
          /\ stored'[v] = stored[v] /\ waived'[v] = waived[v] /\ erased'[v] = erased[v]
          /\ own'[v] = own[v]
      BY DEF WInv, Exit, server, table, Idle, Zero, Empty, NoneQueued
    <2> QED
      BY <2>1 DEF Whole, Closed, Excused, Connected, Waits, IsFrozen, Below, Descends, Commits,
                  Follows
  <1> QED
    BY <1>1

-----------------------------------------------------------------------------
\* A page is a run of messages that ends just below the cursor, or at the newest message.
LEMMA PageSpan ==
    ASSUME Sound, NEW u \in Units
    PROVE  /\ \A x \in Page(u), m \in Messages :
                x <= m /\ m <= posted[u] /\ (cursor[u] # 0 => m < cursor[u]) => m \in Page(u)
           /\ cursor[u] # 0 => \A x \in Page(u) : x < cursor[u]
           /\ Page(u) = {} => IF cursor[u] = 0 THEN posted[u] = 0 ELSE cursor[u] = 1
PROOF
  <1> DEFINE top == IF cursor[u] = 0 THEN posted[u] ELSE cursor[u] - 1
  <1>1. /\ MaxMessages \in Nat /\ PageSize \in Nat /\ PageSize > 0
        /\ posted[u] \in 0..MaxMessages /\ cursor[u] \in 0..MaxMessages /\ cursor[u] <= posted[u]
    BY GapAssumption DEF Sound, Shaped, Fits
  <1>2. top \in 0..MaxMessages /\ top <= posted[u]
    BY <1>1
  <1>3. Page(u) = {m \in Messages : m <= top /\ m > top - PageSize}
    BY DEF Page
  <1>4. \A m \in Messages : m <= posted[u] /\ (cursor[u] # 0 => m < cursor[u]) => m <= top
    BY <1>1 DEF Messages
  <1>5. ASSUME NEW x \in Page(u), NEW m \in Messages, x <= m, m <= posted[u],
               cursor[u] # 0 => m < cursor[u]
        PROVE  m \in Page(u)
    <2>1. m <= top
      BY <1>4, <1>5
    <2> HIDE DEF top
    <2>2. m > top - PageSize
      BY <1>1, <1>2, <1>3, <1>5 DEF Messages
    <2> QED
      BY <1>3, <2>1, <2>2
  <1>6. cursor[u] # 0 => \A x \in Page(u) : x < cursor[u]
    BY <1>1, <1>3 DEF Messages
  <1>7. Page(u) = {} => top = 0
    <2> HIDE DEF top
    <2>1. top # 0 => top \in Page(u)
      BY <1>1, <1>2, <1>3 DEF Messages
    <2> QED
      BY <2>1
  <1> QED
    BY <1>1, <1>5, <1>6, <1>7

\* The end of a descent: the commit starts with the gap accounted for.
LEMMA FilledWhole ==
    ASSUME WInv, NEW u \in Units, NEW b, NEW missing, phase[u] = "filling",
           proc \in {"up", "draining"}, Filled(u, b, missing),
           \A n \in b \cup {since[u]} : \A m \in Messages :
                floor[u] < m /\ m <= n => m \in b \cup erased[u] \cup missing,
           \A v \in Units \ {u} : cursor'[v] = cursor[v],
           UNCHANGED <<server, table, proc, connection, floor, live, intake, deletions, handled>>
    PROVE  \A v \in Units : Whole(v)'
PROOF
  <1>1. Shaped /\ Whole(u) /\ Fits(u)
    BY DEF WInv, IInv, Sound
  <1>2. \A v \in Units \ {u} : Whole(v)'
    <2>1. \A v \in Units \ {u} : Steady(v)
      BY <1>1 DEF Shaped, Steady, Filled, server, table, connection
    <2> QED
      BY <2>1, SteadyWhole DEF WInv
  <1>3. /\ erased'[u] = erased[u] /\ own'[u] = own[u] /\ stored'[u] = stored[u]
        /\ waived'[u] = waived[u] /\ since'[u] = since[u] /\ delivered'[u] = delivered[u]
        /\ intake'[u] = intake[u] /\ live'[u] = live[u] /\ floor'[u] = floor[u] /\ proc' = proc
        /\ buf'[u] = b
        /\ \/ phase'[u] = "held" /\ hole'[u] = hole[u]
           \/ phase'[u] = "committing" /\ todo'[u] = b /\ hole'[u] = missing
    BY <1>1 DEF Shaped, Filled, server, table, connection
  <1>4. Closed(u)' /\ Connected(u)' /\ Waits(u)' /\ Below(u)' /\ Descends(u)' /\ Follows(u)'
    BY <1>1, <1>3 DEF Whole, Closed, Excused, Connected, Waits, IsFrozen, Below, Descends, Follows
  <1>5. Commits(u)'
    <2>1. floor[u] \in stored[u] \cup {0}
      BY <1>1 DEF Whole, Below
    <2> QED
      BY <1>3, <2>1 DEF Commits
  <1> QED
    BY <1>2, <1>4, <1>5 DEF Whole

\* One page further down, still nothing between the page and the start is skipped.
LEMMA PageDescends ==
    ASSUME OneStampEach, WInv, NEW u \in Units, phase[u] = "filling",
           NEW hidden \in SUBSET (Page(u) \cap erased[u]),
           NEW n \in (buf[u] \cup (AboveFloor(u, Page(u)) \ hidden)) \cup {since[u]},
           NEW m \in Messages, floor[u] < m, m <= n,
           IF Page(u) = {} THEN cursor[u] <= m ELSE Min(Page(u)) <= m
    PROVE  m \in (buf[u] \cup (AboveFloor(u, Page(u)) \ hidden)) \cup erased[u]
PROOF
  <1>1. MaxMessages \in Nat /\ Sound /\ Shaped /\ Whole(u) /\ Fits(u)
    BY GapAssumption DEF WInv, IInv, Sound
  <1>2. /\ Page(u) \in SUBSET Messages /\ Page(u) \subseteq 1..posted[u]
        /\ AboveFloor(u, Page(u)) = {x \in Page(u) : floor[u] < x}
    BY <1>1, PageOf, AboveFloorIs DEF WInv
  <1>3. Page(u) # {} => Min(Page(u)) \in Page(u) /\ \A x \in Page(u) : Min(Page(u)) <= x
    BY <1>2, MinOf DEF Messages
  <1>4. /\ posted[u] \in 0..MaxMessages /\ cursor[u] \in 0..MaxMessages /\ since[u] \in 0..MaxMessages
        /\ since[u] <= posted[u] /\ buf[u] \subseteq 1..posted[u]
    BY <1>1 DEF Shaped, Fits
  <1>5. n \in 0..posted[u] /\ m <= posted[u]
    BY <1>1, <1>2, <1>4 DEF Messages
  <1>6. cursor[u] = 0 => buf[u] = {}
    BY <1>1 DEF Whole, Descends
  <1>7. cursor[u] # 0 => \A x \in buf[u] \cup {since[u]} : Spanned(u, cursor[u], x)
    BY <1>1 DEF Whole, Descends
  <1>8. CASE m \in Page(u)
    BY <1>2, <1>8
  <1>9. CASE m \notin Page(u)
    <2>1. cursor[u] # 0 /\ cursor[u] <= m
      <3>1. CASE Page(u) = {}
        BY <1>1, <1>4, <1>5, <3>1, PageSpan DEF Messages
      <3>2. CASE Page(u) # {}
        <4>1. ~(cursor[u] # 0 => m < cursor[u])
          BY <1>1, <1>3, <1>5, <1>9, <3>2, PageSpan
        <4> QED
          BY <1>1, <1>4, <4>1 DEF Messages
      <3> QED
        BY <3>1, <3>2
    <2>2. n \notin Page(u)
      BY <1>1, <1>2, <1>4, <1>5, <2>1, PageSpan DEF Messages
    <2>3. n \in buf[u] \cup {since[u]}
      BY <1>2, <2>2
    <2> QED
      BY <1>7, <2>1, <2>3 DEF Spanned
  <1> QED
    BY <1>8, <1>9

LEMMA ReadPageWhole ==
    ASSUME OneStampEach, WInv, NEW u \in Units,
           NEW hidden \in SUBSET (Page(u) \cap erased[u]), ReadPage(u, hidden)
    PROVE  \A v \in Units : Whole(v)'
PROOF
  <1> DEFINE P == Page(u)
             b == buf[u] \cup (AboveFloor(u, Page(u)) \ hidden)
             low == IF P = {} THEN cursor[u] ELSE Min(P)
  <1>1. MaxMessages \in Nat /\ Sound /\ Shaped /\ Whole(u) /\ Fits(u)
    BY GapAssumption DEF WInv, IInv, Sound
  <1>2. /\ P \in SUBSET Messages /\ P \subseteq 1..posted[u]
        /\ AboveFloor(u, P) = {x \in P : floor[u] < x}
    BY <1>1, PageOf, AboveFloorIs DEF WInv
  <1>3. P # {} => Min(P) \in P /\ \A x \in P : Min(P) <= x
    BY <1>2, MinOf DEF Messages
  <1>4. /\ phase[u] = "filling" /\ proc \in {"up", "draining"}
        /\ UNCHANGED <<server, table, proc, connection, floor, live, intake, deletions, handled>>
        /\ cursor' = [cursor EXCEPT ![u] = IF P = {} THEN @ ELSE Min(P)]
    BY DEF ReadPage
  <1>5. cursor'[u] = low /\ \A v \in Units \ {u} : cursor'[v] = cursor[v]
    BY <1>1, <1>4 DEF Shaped
  <1>6. /\ posted[u] \in 0..MaxMessages /\ cursor[u] \in 0..MaxMessages
        /\ since[u] \in 0..MaxMessages /\ floor[u] \in 0..MaxMessages
        /\ since[u] <= posted[u] /\ buf[u] \subseteq 1..posted[u]
    BY <1>1 DEF Shaped, Fits
  <1>7. \A n \in b \cup {since[u]} : \A m \in Messages :
            floor[u] < m /\ low <= m /\ m <= n => m \in b \cup erased[u]
    BY <1>4, PageDescends
  <1>8. CASE AboveFloor(u, P) # P \/ P = {} \/ 1 \in P
    <2>1. \A n \in b \cup {since[u]} : \A m \in Messages : floor[u] < m /\ m <= n => low <= m
      <3>1. CASE P = {}
        <4>1. \A n \in b \cup {since[u]} : n <= posted[u]
          BY <1>1, <1>2, <1>6
        <4> QED
          BY <1>1, <1>6, <3>1, <4>1, PageSpan DEF Messages
      <3>2. CASE P # {} /\ AboveFloor(u, P) # P
        <4>1. PICK x \in P : ~(floor[u] < x)
          BY <1>2, <3>2
        <4>2. Min(P) <= x /\ Min(P) \in Messages /\ x \in Messages
          BY <1>2, <1>3, <3>2
        <4>3. low = Min(P)
          BY <3>2
        <4> HIDE DEF low
        <4> QED
          BY <1>1, <1>6, <4>1, <4>2, <4>3 DEF Messages
      <3>3. CASE 1 \in P
        <4>1. Min(P) <= 1 /\ Min(P) \in Messages /\ low = Min(P)
          BY <1>2, <1>3, <3>3
        <4> HIDE DEF low
        <4> QED
          BY <1>1, <4>1 DEF Messages
      <3> QED
        BY <1>8, <3>1, <3>2, <3>3
    <2>2. \A n \in b \cup {since[u]} : \A m \in Messages :
              floor[u] < m /\ m <= n => m \in b \cup erased[u] \cup {}
      BY <1>7, <2>1
    <2>3. Filled(u, b, {})
      BY <1>8 DEF ReadPage
    <2> HIDE DEF b
    <2> QED
      BY <1>4, <1>5, <2>2, <2>3, FilledWhole
  <1>9. CASE ~(AboveFloor(u, P) # P \/ P = {} \/ 1 \in P)
    <2>1. buf' = [buf EXCEPT ![u] = b] /\ UNCHANGED <<phase, todo, hole>>
      BY <1>9 DEF ReadPage
    <2>2. \A v \in Units \ {u} : Whole(v)'
      <3>1. \A v \in Units \ {u} : Steady(v)
        BY <1>1, <1>4, <1>5, <2>1 DEF Shaped, Steady, server, table, connection
      <3> QED
        BY <1>4, <3>1, SteadyWhole DEF WInv
    <2>3. /\ erased'[u] = erased[u] /\ own'[u] = own[u] /\ stored'[u] = stored[u]
          /\ waived'[u] = waived[u] /\ since'[u] = since[u] /\ delivered'[u] = delivered[u]
          /\ intake'[u] = intake[u] /\ live'[u] = live[u] /\ floor'[u] = floor[u]
          /\ hole'[u] = hole[u] /\ phase'[u] = "filling" /\ buf'[u] = b /\ proc' = proc
      BY <1>1, <1>4, <2>1 DEF Shaped, server, table, connection
    <2>4. Closed(u)' /\ Connected(u)' /\ Waits(u)' /\ Below(u)' /\ Commits(u)' /\ Follows(u)'
      BY <1>1, <1>4, <2>3
         DEF Whole, Closed, Excused, Connected, Waits, IsFrozen, Below, Commits, Follows
    <2>5. Descends(u)'
      <3>1. low = Min(P) /\ Min(P) \in Messages /\ low # 0
        BY <1>1, <1>2, <1>3, <1>9 DEF Messages
      <3>2. \A x \in b : low <= x
        <4>1. ASSUME NEW x \in buf[u] PROVE low <= x
          <5>1. cursor[u] # 0 /\ cursor[u] <= x
            BY <1>1, <1>4, <4>1 DEF Whole, Descends
          <5>2. Min(P) < cursor[u]
            BY <1>1, <1>3, <1>9, <5>1, PageSpan
          <5> QED
            BY <1>1, <1>6, <3>1, <5>1, <5>2 DEF Messages
        <4>2. ASSUME NEW x \in P PROVE low <= x
          BY <1>3, <3>1, <4>2
        <4> QED
          BY <1>2, <4>1, <4>2
      <3> QED
        BY <1>5, <1>7, <2>3, <3>1, <3>2 DEF Descends, Spanned
    <2> QED
      BY <2>2, <2>4, <2>5 DEF Whole
  <1> QED
    BY <1>8, <1>9

\* A recorded cap leaves no gap that is not on record: what lies below the oldest message
\* fetched is the hole, and nothing above it was skipped.
LEMMA GiveUpWhole ==
    ASSUME OneStampEach, NothingFails, WInv, NEW u \in Units,
           NEW some \in SUBSET AboveFloor(u, Page(u)), GiveUp(u, some)
    PROVE  \A v \in Units : Whole(v)'
PROOF
  <1> DEFINE P == Page(u)
             b == buf[u] \cup (some \ erased[u])
             missing == {m \in Messages : m > floor[u] /\ m < Min(b)}
  <1>1. MaxMessages \in Nat /\ Sound /\ Shaped /\ Whole(u) /\ Fits(u)
    BY GapAssumption DEF WInv, IInv, Sound
  <1>2. /\ P \in SUBSET Messages /\ P \subseteq 1..posted[u]
        /\ AboveFloor(u, P) = {x \in P : floor[u] < x} /\ some \subseteq P
    BY <1>1, PageOf, AboveFloorIs DEF WInv
  <1>3. /\ posted[u] \in 0..MaxMessages /\ cursor[u] \in 0..MaxMessages
        /\ since[u] \in 0..MaxMessages /\ floor[u] \in 0..MaxMessages
        /\ since[u] <= posted[u] /\ buf[u] \subseteq 1..posted[u]
    BY <1>1 DEF Shaped, Fits
  <1>4. /\ phase[u] = "filling" /\ proc \in {"up", "draining"}
        /\ \A m \in some, n \in P : n > m => n \in some
        /\ UNCHANGED <<server, table, proc, connection, floor, cursor, live, intake, deletions, handled>>
    BY DEF GiveUp
  <1>5. floor[u] # 0 /\ b # {} /\ Filled(u, b, missing)
    BY DEF GiveUp, NothingFails
  <1>6. /\ b \in SUBSET Nat /\ b \subseteq 1..posted[u] /\ Min(b) \in b /\ Min(b) \in Nat
        /\ \A x \in b : Min(b) <= x
    <2>1. b \in SUBSET Nat /\ b \subseteq 1..posted[u]
      BY <1>1, <1>2, <1>3 DEF Messages
    <2> QED
      BY <1>5, <2>1, MinOf
  <1>7. cursor[u] = 0 => buf[u] = {}
    BY <1>1, <1>4 DEF Whole, Descends
  <1>8. cursor[u] # 0 => \A x \in buf[u] \cup {since[u]} : Spanned(u, cursor[u], x)
    BY <1>1, <1>4 DEF Whole, Descends
  <1>9. \A x \in buf[u] : cursor[u] <= x
    BY <1>1, <1>4 DEF Whole, Descends
  <1>10. ASSUME NEW n \in b \cup {since[u]}, NEW m \in Messages, floor[u] < m, m <= n
         PROVE  m \in b \cup erased[u] \cup missing
    <2>1. n \in 0..posted[u] /\ m <= posted[u] /\ m \in Nat
      BY <1>1, <1>3, <1>6, <1>10 DEF Messages
    <2>2. CASE m < Min(b)
      BY <1>10, <2>2
    <2>3. CASE cursor[u] # 0 /\ cursor[u] <= m
      <3>1. n \notin P
        BY <1>1, <1>2, <1>3, <1>10, <2>1, <2>3, PageSpan DEF Messages
      <3>2. n \in buf[u] \cup {since[u]}
        BY <1>2, <3>1
      <3> QED
        BY <1>8, <1>10, <2>3, <3>2 DEF Spanned
    <2>4. CASE ~(m < Min(b)) /\ (cursor[u] # 0 => m < cursor[u])
      <3>1. Min(b) <= m
        BY <1>6, <2>1, <2>4
      <3>2. Min(b) \notin buf[u]
        <4>1. SUFFICES ASSUME Min(b) \in buf[u] PROVE FALSE
          OBVIOUS
        <4>2. cursor[u] <= Min(b) /\ cursor[u] # 0
          BY <1>7, <1>9, <4>1
        <4> HIDE DEF b
        <4> QED
          BY <1>3, <1>6, <2>1, <2>4, <3>1, <4>2
      <3>3. Min(b) \in some /\ Min(b) \in P
        BY <1>2, <1>6, <3>2
      <3>4. m \in P
        BY <1>1, <2>1, <2>4, <3>1, <3>3, PageSpan
      <3>5. m \in some
        <4>1. m = Min(b) \/ m > Min(b)
          BY <1>6, <2>1, <3>1
        <4> QED
          BY <1>4, <3>3, <3>4, <4>1
      <3> QED
        BY <3>5
    <2> QED
      BY <1>1, <1>3, <2>1, <2>2, <2>3, <2>4
  <1>11. cursor' = cursor /\ UNCHANGED <<server, table, proc, connection, floor, live, intake,
                                         deletions, handled>>
    BY <1>4
  <1>12. \A n \in b \cup {since[u]} : \A m \in Messages :
            floor[u] < m /\ m <= n => m \in b \cup erased[u] \cup missing
    BY <1>10
  <1> HIDE DEF b, missing
  <1> QED
    BY <1>4, <1>5, <1>11, <1>12, FilledWhole

-----------------------------------------------------------------------------
LEMMA NextWhole ==
    ASSUME OneStampEach, NothingFails, WInv, [Next]_vars
    PROVE  WInv'
PROOF
  <1>1. IInv'
    BY NextInv DEF WInv
  <1>2. CASE UNCHANGED vars
    <2>1. \A v \in Units : Steady(v) /\ proc' = proc
      BY <1>2 DEF Steady, vars, server, table, connection, descent
    <2> QED
      BY <1>1, <2>1, SteadyWhole DEF WInv
  <1>3. CASE Next
    <2>1. ASSUME NEW u \in Units PROVE ~Send(u) /\ ~Fail(u)
      BY DEF NothingFails, Send, Fail
    <2>2. ASSUME NEW u \in Units, Post(u) PROVE \A v \in Units : Whole(v)'
      <3>1. 1 \in Messages
        BY <2>2, GapAssumption DEF Post, WInv, IInv, Sound, Shaped, Messages
      <3> QED
        BY <2>2, <3>1, ServerWhole
    <2>3. \A v \in Units : Whole(v)'
      BY <1>3, <2>1, <2>2, ServerWhole, DeliverWhole, WriteWhole, PrepareWhole,
         StartProvidersWhole, LaunchWhole, ReleaseWhole, ReadPageWhole, GiveUpWhole,
         AppendNextWhole, UnfreezeWhole, DrainWhole, ExitWhole DEF Next
    <2> QED
      BY <1>1, <2>3 DEF WInv
  <1> QED
    BY <1>2, <1>3

LEMMA InitWhole == ASSUME Init PROVE WInv
PROOF
  <1>1. ASSUME NEW u \in Units PROVE Whole(u)
    <2>1. /\ proc = "down" /\ phase[u] = "idle" /\ since[u] = 0 /\ delivered[u] = 0
          /\ intake[u] = <<>> /\ cursor[u] = 0 /\ hole[u] = {} /\ own[u] = {}
      BY DEF Init, Idle, Zero, Empty, NoneQueued
    <2>2. PICK n \in 0..MaxMessages : stored[u] = 1..n
      BY DEF Init
    <2>3. Closed(u)
      <3>1. MaxMessages \in Nat
        BY GapAssumption
      <3> QED
        BY <2>2, <3>1 DEF Closed, Messages
    <2> QED
      BY <2>1, <2>3
         DEF Whole, Connected, Waits, IsFrozen, Below, Descends, Commits, Follows
  <1> QED
    BY <1>1, StartInv DEF WInv

\* The second inductive invariant holds while nothing fails.
THEOREM WholeInvariant == ASSUME OneStampEach, NothingFails PROVE Spec => []WInv
PROOF
  <1>1. Init => WInv
    BY InitWhole
  <1>2. WInv /\ [Next]_vars => WInv'
    BY NextWhole
  <1> QED
    BY <1>1, <1>2, PTL DEF Spec

LEMMA WholeNoGap == ASSUME WInv PROVE NoBuriedGap
PROOF
  <1>1. ASSUME NEW u \in Units, NEW m \in stored[u], NEW x \in 1..(m - 1)
        PROVE  x \in stored[u] \cup Excused(u)
    <2>1. x \in Messages /\ m \in Messages /\ x < m
      BY GapAssumption DEF WInv, IInv, Sound, Shaped, Messages
    <2> QED
      BY <2>1 DEF WInv, Whole, Closed
  <1> QED
    BY <1>1 DEF NoBuriedGap

\* No crash, shutdown, deletion, recorded cap or release, in whatever order and however often,
\* buries a gap: below a stored message everything posted is stored or excused.
THEOREM NoGapIsBuried == ASSUME OneStampEach, NothingFails PROVE Spec => []NoBuriedGap
PROOF
  <1>1. WInv => NoBuriedGap
    BY WholeNoGap
  <1> QED
    BY <1>1, WholeInvariant, PTL

-----------------------------------------------------------------------------
\* Two actions write to the table, each to one unit; the others leave it alone.
LEMMA Storing ==
    ASSUME NothingFails, WInv, [Next]_vars, NEW u \in Units
    PROVE  \/ Write(u) \/ AppendNext(u)
           \/ /\ stored'[u] = stored[u] /\ waived'[u] = waived[u]
              /\ handled'[u] \subseteq handled[u]
PROOF
  <1> DEFINE Kept == stored'[u] = stored[u] /\ waived'[u] = waived[u] /\ handled'[u] \subseteq handled[u]
  <1>1. CASE UNCHANGED vars
    BY <1>1 DEF vars, table
  <1>2. CASE Next
    <2>1. ASSUME NEW v \in Units PROVE ~Send(v) /\ ~Fail(v)
      BY DEF NothingFails, Send, Fail
    <2>2. ASSUME NEW v \in Units, v # u, Write(v) \/ AppendNext(v) PROVE Kept
      <3>1. PICK m \in Messages : Insert(v, m)
        BY <2>2, SMTT(30) DEF Write, AppendNext, NextToCommit, WInv, IInv, Sound, Shaped
      <3>2. handled'[u] = handled[u]
        BY <2>2 DEF Write, AppendNext, WInv, IInv, Sound, Shaped
      <3> QED
        BY <2>2, <3>1, <3>2, Inserts DEF WInv, IInv
    <2>3. ASSUME NEW v \in Units, NEW m \in Messages,
                 Post(v) \/ EraseUnseen(v, m) \/ Erase(v, m) \/ Lapse(v, m) PROVE Kept
      BY <2>3 DEF Post, EraseUnseen, Erase, Lapse, table
    <2>4. ASSUME NEW v \in Units, Post(v) \/ Deliver(v) \/ Launch(v) \/ Release(v) \/ Unfreeze(v)
          PROVE  Kept
      BY <2>4 DEF Post, Deliver, Launch, Release, Unfreeze, table
    <2>5. ASSUME NEW v \in Units, NEW S, ReadPage(v, S) \/ GiveUp(v, S) PROVE Kept
      BY <2>5 DEF ReadPage, GiveUp, table
    <2>6. ASSUME Prepare \/ StartProviders \/ Drain PROVE Kept
      BY <2>6 DEF Prepare, StartProviders, Drain, table
    <2>7. ASSUME Exit PROVE Kept
      BY <2>7 DEF Exit, table, Empty
    <2> HIDE DEF Kept
    <2>8. Write(u) \/ AppendNext(u) \/ Kept
      BY <1>2, <2>1, <2>2, <2>3, <2>4, <2>5, <2>6, <2>7 DEF Next
    <2> QED
      BY <2>8 DEF Kept
  <1> QED
    BY <1>1, <1>2

\* A unit with anything to write has its freeze behind it, and writes in order.
LEMMA WriteSettled ==
    ASSUME WInv, NEW u \in Units, Write(u)
    PROVE  /\ phase[u] = "done" /\ Head(intake[u]) \in Messages
           /\ (since[u] + 1)..(Head(intake[u]) - 1) \subseteq stored[u] \cap handled[u]
           /\ \A x \in Messages :
                x < Head(intake[u]) => x \in stored[u] \cup Excused(u) \cup hole[u]
PROOF
  <1> DEFINE m == Head(intake[u])
             low == delivered[u] - Len(intake[u])
  <1>1. MaxMessages \in Nat /\ Shaped /\ Whole(u)
    BY GapAssumption DEF WInv, IInv, Sound
  <1>2. /\ intake[u] \in Seq(Messages) /\ intake[u] # <<>> /\ m \in Messages
        /\ m = intake[u][1] /\ 1 \in 1..Len(intake[u]) /\ Len(intake[u]) \in Nat
        /\ since[u] \in Nat /\ delivered[u] \in Nat
    BY <1>1 DEF Write, Shaped
  <1>3. phase[u] = "done"
    BY <1>1, <1>2 DEF Write, Whole, Connected, Waits, IsFrozen, Shaped, Phases
  <1>4. /\ 1..since[u] \subseteq stored[u] \cup Excused(u) \cup hole[u]
        /\ Len(intake[u]) <= delivered[u] - since[u]
        /\ \A k \in 1..Len(intake[u]) : intake[u][k] = low + k
        /\ (since[u] + 1)..low \subseteq stored[u] \cap handled[u]
    BY <1>1, <1>2, <1>3 DEF Whole, Follows
  <1>5. m = low + 1 /\ low \in Nat /\ m - 1 = low
    BY <1>2, <1>4
  <1> HIDE DEF m, low
  <1>6. (since[u] + 1)..(m - 1) \subseteq stored[u] \cap handled[u]
    BY <1>4, <1>5
  <1>7. \A x \in Messages : x < m => x \in stored[u] \cup Excused(u) \cup hole[u]
    <2>1. ASSUME NEW x \in Messages, x < m PROVE x \in 1..since[u] \/ x \in (since[u] + 1)..low
      BY <1>1, <1>2, <1>5, <2>1 DEF Messages
    <2> QED
      BY <1>4, <2>1
  <1> QED
    BY <1>2, <1>3, <1>6, <1>7 DEF m

LEMMA FrozenStep == ASSUME NothingFails, WInv, [Next]_vars PROVE HighWaterFrozen
PROOF
  <1>1. ASSUME NEW u \in Units, phase[u] \in {"frozen", "filling", "held"}
        PROVE  stored'[u] = stored[u]
    <2>1. ~Write(u)
      BY <1>1, WriteSettled
    <2>2. ~AppendNext(u)
      BY <1>1 DEF AppendNext
    <2> QED
      BY <2>1, <2>2, Storing
  <1> QED
    BY <1>1 DEF HighWaterFrozen

LEMMA OrderedStep == ASSUME NothingFails, WInv, [Next]_vars PROVE HandledInOrder
PROOF
  <1>1. ASSUME NEW u \in Units, NEW m \in handled'[u] \ handled[u]
        PROVE  (since[u] + 1)..(m - 1) \subseteq handled[u]
    <2>1. ~AppendNext(u)
      BY <1>1 DEF AppendNext
    <2>2. Write(u)
      BY <1>1, <2>1, Storing
    <2>3. m = Head(intake[u])
      BY <1>1, <2>2 DEF Write, WInv, IInv, Sound, Shaped
    <2> QED
      BY <2>2, <2>3, WriteSettled
  <1> QED
    BY <1>1 DEF HandledInOrder

-----------------------------------------------------------------------------
(***************************************************************************)
(* The refinement of RoomHistory.                                          *)
(***************************************************************************)
LEMMA PostMaps ==
    ASSUME NEW u \in Units, posted[u] < MaxMessages, posted'[u] = posted[u] + 1,
           stored'[u] = stored[u], Excused(u)' = Excused(u)
    PROVE  History(u)!Next
BY DEF History!Next, History!Post

LEMMA ExcuseMaps ==
    ASSUME NEW u \in Units, NEW S \in SUBSET Messages, posted'[u] = posted[u],
           stored'[u] = stored[u], Excused(u)' = Excused(u) \cup S
    PROVE  History(u)!Next
BY DEF History!Next, History!Excuse, History!Messages, Messages

LEMMA KeepMaps ==
    ASSUME NEW u \in Units, NEW m \in Messages, NEW S \in SUBSET Messages, m <= posted[u],
           m \notin stored[u], Excused(u)' = Excused(u) \cup S,
           1..(m - 1) \subseteq stored[u] \cup Excused(u)',
           stored'[u] = stored[u] \cup {m}, posted'[u] = posted[u]
    PROVE  History(u)!Next
BY DEF History!Next, History!Keep, History!Messages, Messages

\* Inserting a message extends the history, or repeats what it holds and waives a loss.
LEMMA InsertMaps ==
    ASSUME WInv, NEW u \in Units, NEW m \in Messages, m <= posted[u], Insert(u, m), UNCHANGED server,
           \A x \in Messages : x < m => x \in stored[u] \cup Excused(u) \cup hole[u]
    PROVE  History(u)!Next
PROOF
  <1> DEFINE S == {h \in hole[u] : h < m}
  <1>1. MaxMessages \in Nat /\ S \in SUBSET Messages /\ IInv
    BY GapAssumption DEF WInv, IInv, Sound, Shaped
  <1>2. /\ stored'[u] = stored[u] \cup {m} /\ Excused(u)' = Excused(u) \cup S
        /\ posted'[u] = posted[u]
    BY <1>1, Inserts DEF IInv, Excused, server
  <1>3. 1..(m - 1) \subseteq stored[u] \cup Excused(u)'
    <2>1. ASSUME NEW x \in 1..(m - 1) PROVE x \in stored[u] \cup (Excused(u) \cup S)
      <3>1. x \in Messages /\ x < m
        BY <1>1 DEF Messages
      <3> QED
        BY <3>1
    <2> QED
      BY <1>2, <2>1
  <1> HIDE DEF S
  <1>4. CASE m \in stored[u]
    BY <1>1, <1>2, <1>4, ExcuseMaps
  <1>5. CASE m \notin stored[u]
    BY <1>1, <1>2, <1>3, <1>5, KeepMaps
  <1> QED
    BY <1>4, <1>5

LEMMA HistoryStep ==
    ASSUME OneStampEach, NothingFails, WInv, [Next]_vars, NEW u \in Units
    PROVE  [History(u)!Next]_<<posted[u], stored[u], Excused(u)>>
PROOF
  <1>1. MaxMessages \in Nat /\ Shaped /\ Fits(u)
    BY GapAssumption DEF WInv, IInv, Sound
  <1>2. CASE Write(u)
    <2>1. Head(intake[u]) \in Messages /\ Head(intake[u]) <= posted[u]
      <3>1. intake[u] # <<>> /\ intake[u] \in Seq(Messages)
        BY <1>1, <1>2 DEF Write, Shaped
      <3>2. Head(intake[u]) = intake[u][1] /\ 1 \in 1..Len(intake[u])
        BY <3>1
      <3> QED
        BY <1>1, <3>1, <3>2 DEF Fits
    <2> QED
      BY <1>2, <2>1, WriteSettled, InsertMaps DEF Write
  <1>3. CASE AppendNext(u)
    <2>1. PICK m \in NextToCommit(u) : Insert(u, m)
      BY <1>3 DEF AppendNext
    <2>2. m \in Messages /\ m <= posted[u]
      BY <1>1 DEF NextToCommit, Shaped, Fits
    <2>3. phase[u] = "committing" /\ UNCHANGED server
      BY <1>3 DEF AppendNext
    <2> QED
      BY <2>1, <2>2, <2>3, CommitCloses, InsertMaps
  <1>4. CASE ~Write(u) /\ ~AppendNext(u)
    <2>1. stored'[u] = stored[u] /\ waived'[u] = waived[u]
      BY <1>4, Storing
    <2>2. CASE posted'[u] = posted[u] /\ erased'[u] = erased[u]
      BY <2>1, <2>2 DEF Excused
    <2>3. CASE posted'[u] # posted[u] \/ erased'[u] # erased[u]
      <3>1. ~UNCHANGED server
        BY <2>3 DEF server
      <3>2. ASSUME NEW v \in Units PROVE ~Send(v)
        BY DEF NothingFails, Send
      <3>3. \E v \in Units : Post(v) \/ \E m \in Messages : EraseUnseen(v, m) \/ Erase(v, m)
        <4>1. ~UNCHANGED vars
          BY <3>1 DEF vars
        <4>2. ASSUME NEW v \in Units
              PROVE  /\ ~Deliver(v) /\ ~Write(v) /\ ~Launch(v) /\ ~Release(v) /\ ~Fail(v)
                     /\ ~AppendNext(v) /\ ~Unfreeze(v)
          BY <3>1 DEF Deliver, Write, Launch, Release, Fail, AppendNext, Unfreeze
        <4>3. ASSUME NEW v \in Units, NEW S PROVE ~ReadPage(v, S) /\ ~GiveUp(v, S)
          BY <3>1 DEF ReadPage, GiveUp
        <4>4. ~Prepare /\ ~StartProviders /\ ~Drain /\ ~Exit
          BY <3>1 DEF Prepare, StartProviders, Drain, Exit
        <4>5. ASSUME NEW v \in Units, NEW m \in Messages PROVE ~Lapse(v, m)
          BY <3>1 DEF Lapse
        <4> QED
          BY <3>2, <4>1, <4>2, <4>3, <4>4, <4>5 DEF Next
      <3>4. PICK v \in Units : Post(v) \/ \E m \in Messages : EraseUnseen(v, m) \/ Erase(v, m)
        BY <3>3
      <3>5. CASE Post(v)
        <4>1. erased' = erased /\ posted[v] < MaxMessages /\ posted' = [posted EXCEPT ![v] = @ + 1]
          BY <3>5 DEF Post
        <4>2. v = u /\ posted'[u] = posted[u] + 1
          BY <1>1, <2>3, <4>1 DEF Shaped
        <4> QED
          BY <2>1, <4>1, <4>2, PostMaps DEF Excused
      <3>6. ASSUME NEW m \in Messages, EraseUnseen(v, m) \/ Erase(v, m)
            PROVE  History(u)!Next
        <4>1. posted' = posted /\ erased' = [erased EXCEPT ![v] = @ \cup {m}]
          BY <3>6 DEF EraseUnseen, Erase
        <4>2. v = u /\ erased'[u] = erased[u] \cup {m}
          BY <1>1, <2>3, <4>1 DEF Shaped
        <4>3. Excused(u)' = Excused(u) \cup {m} /\ {m} \in SUBSET Messages /\ posted'[u] = posted[u]
          BY <2>1, <4>1, <4>2 DEF Excused
        <4> QED
          BY <2>1, <4>3, ExcuseMaps
      <3> QED
        BY <3>4, <3>5, <3>6
    <2> QED
      BY <2>2, <2>3
  <1> QED
    BY <1>2, <1>3, <1>4

LEMMA HistoryStarts == ASSUME Init, NEW u \in Units PROVE History(u)!Init
PROOF
  <1>1. /\ posted[u] \in 0..MaxMessages /\ Excused(u) = {} /\ stored[u] \subseteq 1..posted[u]
        /\ \E n \in 0..MaxMessages : stored[u] = 1..n
    BY DEF Init, Empty, Excused
  <1>2. PICK n \in 0..MaxMessages : stored[u] = 1..n
    BY <1>1
  <1>3. n \in 0..posted[u]
    BY <1>1, <1>2, GapAssumption
  <1> QED
    BY <1>1, <1>2, <1>3 DEF History!Init

\* The coordinator implements the promise of the timeline store, step by step: across crashes,
\* shutdowns and replays each room's history is only ever extended at its end.
THEOREM HistoryRefined == ASSUME OneStampEach, NothingFails PROVE Spec => HistoryExtends
PROOF
  <1>1. Init => \A u \in Units : History(u)!Init
    BY HistoryStarts
  <1>2. WInv /\ [Next]_vars =>
          [\A u \in Units : [History(u)!Next]_<<posted[u], stored[u], Excused(u)>>]_vars
    BY HistoryStep
  <1> QED
    BY <1>1, <1>2, WholeInvariant, PTL DEF Spec, HistoryExtends

\* What is kept was posted, and nothing below it is missing unless excused.
NoHoleIn(u) == stored[u] \subseteq 1..posted[u] /\ posted[u] \in Nat /\ History(u)!NoBuriedGap

\* The promise of the timeline store itself rules holes out: a history that is extended only
\* at its end never holds a message above a missing one that is not excused.
THEOREM HistoryHasNoHole ==
    ASSUME NEW u \in Units PROVE History(u)!Spec => []History(u)!NoBuriedGap
PROOF
  <1> USE GapAssumption DEF History!Messages
  <1>1. History(u)!Init => NoHoleIn(u)
    <2> SUFFICES ASSUME History(u)!Init PROVE NoHoleIn(u)
      OBVIOUS
    <2>1. posted[u] \in 0..MaxMessages /\ \E n \in 0..posted[u] : stored[u] = 1..n
      BY DEF History!Init
    <2>2. PICK n \in 0..posted[u] : stored[u] = 1..n
      BY <2>1
    <2> QED
      BY <2>1, <2>2 DEF NoHoleIn, History!NoBuriedGap
  <1>2. NoHoleIn(u) /\ [History(u)!Next]_(History(u)!vars) => NoHoleIn(u)'
    <2> SUFFICES ASSUME NoHoleIn(u), [History(u)!Next]_(History(u)!vars) PROVE NoHoleIn(u)'
      OBVIOUS
    <2>1. CASE History(u)!Post
      BY <2>1 DEF History!Post, NoHoleIn, History!NoBuriedGap
    <2>2. ASSUME NEW S \in SUBSET History(u)!Messages, History(u)!Excuse(S) PROVE NoHoleIn(u)'
      BY <2>2 DEF History!Excuse, NoHoleIn, History!NoBuriedGap
    <2>3. ASSUME NEW m \in History(u)!Messages, NEW S \in SUBSET History(u)!Messages,
                 History(u)!Keep(m, S)
          PROVE  NoHoleIn(u)'
      <3>1. /\ stored'[u] = stored[u] \cup {m} /\ posted'[u] = posted[u] /\ m <= posted[u]
            /\ 1..(m - 1) \subseteq stored[u] \cup Excused(u)'
            /\ Excused(u)' = Excused(u) \cup S
        BY <2>3 DEF History!Keep
      <3>2. stored'[u] \subseteq 1..posted'[u] /\ posted'[u] \in Nat
        BY <3>1 DEF NoHoleIn
      <3>3. ASSUME NEW n \in stored'[u]
            PROVE  1..(n - 1) \subseteq stored'[u] \cup Excused(u)'
        <4>1. CASE n \in stored[u]
          BY <3>1, <4>1 DEF NoHoleIn, History!NoBuriedGap
        <4>2. CASE n = m
          BY <3>1, <4>2
        <4> QED
          BY <3>1, <3>3, <4>1, <4>2
      <3> QED
        BY <3>2, <3>3 DEF NoHoleIn, History!NoBuriedGap
    <2>4. CASE UNCHANGED History(u)!vars
      BY <2>4 DEF History!vars, NoHoleIn, History!NoBuriedGap
    <2> QED
      BY <2>1, <2>2, <2>3, <2>4 DEF History!Next
  <1>3. NoHoleIn(u) => History(u)!NoBuriedGap
    BY DEF NoHoleIn
  <1> QED
    BY <1>1, <1>2, <1>3, PTL DEF History!Spec

\* A room's high-water stands still until its gap is closed, and live messages are handled in
\* the order they arrived, those of the freeze first.
THEOREM StepsInOrder ==
    ASSUME OneStampEach, NothingFails
    PROVE  Spec => [][HighWaterFrozen /\ HandledInOrder]_vars
PROOF
  <1>1. WInv /\ [Next]_vars => [HighWaterFrozen /\ HandledInOrder]_vars
    BY FrozenStep, OrderedStep
  <1> QED
    BY <1>1, WholeInvariant, PTL DEF Spec

-----------------------------------------------------------------------------
(***************************************************************************)
(* The same for the instances of MCGapRuns.                                *)
(***************************************************************************)
RunsInv == instance = "restarts" => WInv

LEMMA RunsStep ==
    ASSUME instance = "restarts", [RunsNext]_runsVars
    PROVE  [Next]_vars
BY DEF RunsNext, runsVars

LEMMA RunsSame == ASSUME [RunsNext]_runsVars PROVE instance' = instance
BY DEF RunsNext, runsVars

\* Nothing that happens to a behaviour of the restarts instance leads out of the invariant.
THEOREM RunsInvariant == ASSUME OneStampEach, NothingFails PROVE RunsSpec => []RunsInv
PROOF
  <1>1. RunsInit => RunsInv
    BY InitWhole DEF RunsInit, RunsInv
  <1>2. RunsInv /\ [RunsNext]_runsVars => RunsInv'
    BY RunsStep, RunsSame, NextWhole DEF RunsInv
  <1> QED
    BY <1>1, <1>2, PTL DEF RunsSpec

\* The restarts instance buries no gap.
THEOREM RestartsBuryNoGap == ASSUME OneStampEach, NothingFails PROVE RunsSpec => []GapsStayOpen
PROOF
  <1>1. RunsInv => GapsStayOpen
    BY WholeNoGap DEF RunsInv, GapsStayOpen
  <1> QED
    BY <1>1, RunsInvariant, PTL

\* The restarts instance extends its stored history only at its end.
THEOREM RestartsKeepHistory ==
    ASSUME OneStampEach, NothingFails, MaxMessages >= 3
    PROVE  RunsSpec => HistoryKept
PROOF
  <1>1. RunsInit => \A u \in Units : History(u)!Init
    <2>1. ASSUME Faulty!Init, NEW u \in Units PROVE History(u)!Init
      <3>1. /\ posted[u] \in 0..3 /\ Excused(u) = {} /\ stored[u] \subseteq 1..posted[u]
            /\ \E n \in 0..3 : stored[u] = 1..n
        BY <2>1 DEF Faulty!Init, Faulty!Empty, Excused
      <3>2. PICK n \in 0..3 : stored[u] = 1..n
        BY <3>1
      <3>3. n \in 0..posted[u]
        BY <3>1, <3>2
      <3>4. posted[u] \in 0..MaxMessages
        BY <3>1, GapAssumption
      <3> QED
        BY <3>1, <3>2, <3>3, <3>4 DEF History!Init
    <2> QED
      BY <2>1, HistoryStarts DEF RunsInit
  <1>2. RunsInv /\ [RunsNext]_runsVars =>
          [\A u \in Units : instance = "restarts" =>
              [History(u)!Next]_<<posted[u], stored[u], Excused(u)>>]_runsVars
    BY RunsStep, HistoryStep DEF RunsInv
  <1> QED
    BY <1>1, <1>2, RunsInvariant, PTL DEF RunsSpec, HistoryKept

\* The restarts instance takes no step that moves a frozen high-water or overtakes a message.
THEOREM RestartsStepSoundly == ASSUME OneStampEach, NothingFails PROVE RunsSpec => StepsSound
PROOF
  <1>1. RunsInv /\ [RunsNext]_runsVars =>
          [instance = "restarts" => HighWaterFrozen /\ HandledInOrder]_runsVars
    BY RunsStep, FrozenStep, OrderedStep DEF RunsInv
  <1> QED
    BY <1>1, RunsInvariant, PTL DEF RunsSpec, StepsSound
=============================================================================
