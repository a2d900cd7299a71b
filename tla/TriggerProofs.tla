--------------------------- MODULE TriggerProofs ---------------------------
(***************************************************************************)
(* Proofs about what one trigger goes through, for every value of the      *)
(* constants: Activation, the first of a room, LateInput, the corrections  *)
(* that reach the session answering it, and RequestChain, a request of     *)
(* that session.  The variables have the names MCSessionRuns gives them.   *)
(***************************************************************************)
EXTENDS SequenceTheorems, WellFoundedInduction, TLAPS

CONSTANTS
    Messages, Triggers, NoBuffer, Grouped, MaxFaults, MaxCrashes,
    Corrections, Withdrawals, MaxRedos, MaxCalls,
    ChainLength, GroupOf, Quota, MaxTrips, MaxFlips, MaxReissues
VARIABLES
    state, row, buffer, writes, calls, at, asked, answered, draining, up, faults, crashes,
    sessionPhase, run, gone, pending, rebuild, taken, redoCount, call, posts,
    reacts, posted, doomed, reviving, fate, visibleCalls,
    health, requestPhase, served, used, refused, excluded, failedGroups, notes,
    clock, cut, callerAborted, trips, result, steady, total, flips, reissues

Room == INSTANCE Activation
Session == INSTANCE LateInput WITH phase <- sessionPhase, calls <- visibleCalls
Request == INSTANCE RequestChain WITH phase <- requestPhase

(***************************************************************************)
(* Activation.                                                             *)
(***************************************************************************)
\* Whose writes are in the queue, and who is before whom.
Waiting == {writes[i] : i \in 1..Len(writes)}
Ahead(m, n) == \E i, j \in 1..Len(writes) : i < j /\ writes[i] = m /\ writes[j] = n

\* A message has a write in the queue exactly when its handler awaits one, and has one.
QueueSound ==
    /\ \A i, j \in 1..Len(writes) : writes[i] = writes[j] => i = j
    /\ \A m \in Messages : at[m] \in Room!PreludeWrites \cup Room!Stores <=> m \in Waiting

\* The triggers of s are held, and each is there once.
AllHeld(s) == \A i, j \in 1..Len(s) : at[s[i]] = "held" /\ (s[i] = s[j] => i = j)

\* A held trigger that will be dispatched is in the buffer or is being dispatched, not both.
HoldsSound ==
    /\ AllHeld(calls)
    /\ Room!Guarded =>
          /\ AllHeld(buffer)
          /\ \A i \in 1..Len(calls), j \in 1..Len(buffer) : calls[i] # buffer[j]

\* Only a trigger is held, activates a room or is accepted, and only what is accepted was
\* answered.
AskedSound == \A m \in Messages :
    /\ asked[m] => m \in Triggers
    /\ at[m] \in Room!Prelude \cup {"held", "accepted"} => asked[m]
    /\ answered[m] = (IF at[m] = "accepted" THEN 1 ELSE 0)

\* What was gated before the guard stood is stored before the prelude goes on: messages that
\* are stored as inactive, and triggers that met the inconsistent state and reset it.
Stranded == {"store_stranded", "reset_stranded"}
OrderSound ==
    /\ \A m, n \in Messages :
          /\ at[m] = "activating" /\ at[n] \in {"store_inactive", "store_stranded"} => Ahead(n, m)
          /\ at[m] = "routing" => /\ at[n] \notin {"store_inactive", "store_stranded"}
                                  /\ at[n] = "reset_stranded" => Ahead(n, m)
          /\ at[m] \in Room!Prelude \ {"activating", "routing", "resetting"} =>
                at[n] \notin {"store_inactive"} \cup Stranded
    /\ state = "active" =>
          \A m \in Messages : at[m] \notin Room!Prelude \cup {"store_inactive"} \cup Stranded

\* The rows: none is inactive once they were flipped, and the trigger's and its group's are
\* not while its readiness is awaited.
RowsSound ==
    /\ state = "active" \/ (\E m \in Messages : at[m] = "promoting") =>
          \A n \in Messages : row[n] # "inactive"
    /\ \A m \in Messages : at[m] \in {"backfilling", "grouping", "readying"} =>
          row[m] = "processable"
    /\ \A m \in Messages : at[m] = "readying" => \A n \in Grouped[m] : row[n] # "inactive"

\* A prelude is being reset because a write was rejected.
FaultsSound ==
    /\ Room!NotLeftActivating
    /\ \A m \in Messages : at[m] = "resetting" => faults >= 1

RoomInv ==
    /\ Room!TypeOK /\ QueueSound /\ HoldsSound /\ AskedSound
    /\ Room!GuardOwned /\ OrderSound /\ RowsSound /\ FaultsSound

-----------------------------------------------------------------------------
\* A sequence without its first element, by position.
LEMMA TailIs ==
    ASSUME NEW S, NEW s \in Seq(S), s # <<>>
    PROVE  /\ Tail(s) \in Seq(S) /\ Len(s) \in Nat \ {0} /\ Len(Tail(s)) = Len(s) - 1
           /\ Head(s) = s[1] /\ s[1] \in S
           /\ \A k \in 1..Len(Tail(s)) : Tail(s)[k] = s[k + 1]
PROOF
  <1>1. PICK n \in Nat : n = Len(s)
    BY LenProperties
  <1>2. n # 0
    BY <1>1, EmptySeq
  <1>3. Head(s) = s[1] /\ s[1] \in S
    BY <1>1, <1>2, ElementOfSeq
  <1> QED
    BY <1>1, <1>2, <1>3, HeadTailProperties

\* And with one more.
LEMMA AppendIs ==
    ASSUME NEW S, NEW s \in Seq(S), NEW x \in S
    PROVE  /\ Append(s, x) \in Seq(S) /\ Len(s) \in Nat /\ Len(Append(s, x)) = Len(s) + 1
           /\ \A k \in 1..Len(s) : Append(s, x)[k] = s[k]
           /\ Append(s, x)[Len(s) + 1] = x
  BY AppendProperties, LenProperties

\* The first of the queue leaves it: nobody was ahead of it.
LEMMA Leaves ==
    ASSUME writes \in Seq(Messages), QueueSound, writes # <<>>, NEW m, m = Head(writes),
           writes' = Tail(writes)
    PROVE  /\ m \in Waiting /\ m \in Messages /\ \A n : ~Ahead(n, m)
           /\ writes' \in Seq(Messages)
           /\ \A i, j \in 1..Len(writes') : writes'[i] = writes'[j] => i = j
           /\ Waiting' = Waiting \ {m}
           /\ \A n, k : n # m /\ Ahead(n, k) => Ahead(n, k)'
PROOF
  <1>1. /\ writes' \in Seq(Messages) /\ Len(writes) \in Nat \ {0}
        /\ Len(writes') = Len(writes) - 1 /\ m = writes[1] /\ m \in Messages
        /\ \A k \in 1..Len(writes') : writes'[k] = writes[k + 1]
    BY TailIs
  <1>2. \A i, j \in 1..Len(writes) : writes[i] = writes[j] => i = j
    BY DEF QueueSound
  <1>3. m \in Waiting /\ \A n : ~Ahead(n, m)
    BY <1>1, <1>2 DEF Waiting, Ahead
  <1>4. \A i, j \in 1..Len(writes') : writes'[i] = writes'[j] => i = j
    BY <1>1, <1>2
  <1>5. ASSUME NEW i \in 1..Len(writes), i # 1
        PROVE  i - 1 \in 1..Len(writes') /\ writes'[i - 1] = writes[i]
    BY <1>1, <1>5
  <1>6. Waiting' = Waiting \ {m}
    <2>1. ASSUME NEW n \in Waiting' PROVE n \in Waiting \ {m}
      <3>1. PICK k \in 1..Len(writes') : n = writes'[k]
        BY <2>1 DEF Waiting
      <3>2. k + 1 \in 1..Len(writes) /\ n = writes[k + 1] /\ 1 \in 1..Len(writes) /\ k + 1 # 1
        BY <1>1, <3>1
      <3> QED
        BY <1>1, <1>2, <3>2 DEF Waiting
    <2>2. ASSUME NEW n \in Waiting, n # m PROVE n \in Waiting'
      <3>1. PICK i \in 1..Len(writes) : n = writes[i]
        BY <2>2 DEF Waiting
      <3>2. i # 1
        BY <1>1, <2>2, <3>1
      <3>3. i - 1 \in 1..Len(writes') /\ writes'[i - 1] = n
        BY <1>5, <3>1, <3>2
      <3> QED
        BY <3>3 DEF Waiting
    <2> QED
      BY <2>1, <2>2
  <1>7. ASSUME NEW n, NEW k, n # m, Ahead(n, k) PROVE Ahead(n, k)'
    <2>1. PICK i, j \in 1..Len(writes) : i < j /\ writes[i] = n /\ writes[j] = k
      BY <1>7 DEF Ahead
    <2>2. i # 1 /\ j # 1
      BY <1>1, <1>7, <2>1
    <2>3. /\ i - 1 \in 1..Len(writes') /\ writes'[i - 1] = n
          /\ j - 1 \in 1..Len(writes') /\ writes'[j - 1] = k /\ i - 1 < j - 1
      BY <1>1, <1>5, <2>1, <2>2
    <2> QED
      BY <2>3 DEF Ahead
  <1> QED
    BY <1>1, <1>3, <1>4, <1>6, <1>7

\* A message joins the end of a queue it is not in: all others are ahead of it.
LEMMA Joins ==
    ASSUME NEW q \in Seq(Messages), NEW m \in Messages,
           \A i, j \in 1..Len(q) : q[i] = q[j] => i = j,
           \A i \in 1..Len(q) : q[i] # m, writes' = Append(q, m)
    PROVE  /\ writes' \in Seq(Messages)
           /\ \A i, j \in 1..Len(writes') : writes'[i] = writes'[j] => i = j
           /\ Waiting' = {q[i] : i \in 1..Len(q)} \cup {m}
           /\ \A i, j \in 1..Len(q) : i < j => Ahead(q[i], q[j])'
           /\ \A i \in 1..Len(q) : Ahead(q[i], m)'
PROOF
  <1>1. /\ writes' \in Seq(Messages) /\ Len(q) \in Nat /\ Len(writes') = Len(q) + 1
        /\ \A k \in 1..Len(q) : writes'[k] = q[k]
        /\ writes'[Len(q) + 1] = m
    BY AppendIs
  <1>2. \A i \in 1..Len(writes') : i \in 1..Len(q) \/ i = Len(q) + 1
    BY <1>1
  <1>3. \A i, j \in 1..Len(writes') : writes'[i] = writes'[j] => i = j
    BY <1>1, <1>2
  <1>4. Waiting' = {q[i] : i \in 1..Len(q)} \cup {m}
    <2>1. \A i \in 1..Len(q) : i \in 1..Len(writes')
      BY <1>1
    <2>2. Len(q) + 1 \in 1..Len(writes')
      BY <1>1
    <2> QED
      BY <1>1, <1>2, <2>1, <2>2 DEF Waiting
  <1>5. \A i, j \in 1..Len(q) : i < j => Ahead(q[i], q[j])'
    BY <1>1 DEF Ahead
  <1>6. \A i \in 1..Len(q) : Ahead(q[i], m)'
    BY <1>1 DEF Ahead
  <1> QED
    BY <1>1, <1>3, <1>4, <1>5, <1>6

\* A new message at the end of the queue ...
LEMMA Enters ==
    ASSUME writes \in Seq(Messages), QueueSound, NEW m \in Messages, m \notin Waiting,
           writes' = Append(writes, m)
    PROVE  /\ writes' \in Seq(Messages)
           /\ \A i, j \in 1..Len(writes') : writes'[i] = writes'[j] => i = j
           /\ Waiting' = Waiting \cup {m}
           /\ \A n, k : Ahead(n, k) => Ahead(n, k)'
           /\ \A n \in Waiting : Ahead(n, m)'
PROOF
  <1>1. \A i \in 1..Len(writes) : writes[i] # m
    BY DEF Waiting
  <1>2. \A i, j \in 1..Len(writes) : writes[i] = writes[j] => i = j
    BY DEF QueueSound
  <1>3. /\ writes' \in Seq(Messages)
        /\ \A i, j \in 1..Len(writes') : writes'[i] = writes'[j] => i = j
        /\ Waiting' = {writes[i] : i \in 1..Len(writes)} \cup {m}
        /\ \A i, j \in 1..Len(writes) : i < j => Ahead(writes[i], writes[j])'
        /\ \A i \in 1..Len(writes) : Ahead(writes[i], m)'
    BY <1>1, <1>2, Joins
  <1>4. \A n, k : Ahead(n, k) => Ahead(n, k)'
    <2> SUFFICES ASSUME NEW n, NEW k, Ahead(n, k) PROVE Ahead(n, k)'
      OBVIOUS
    <2>1. PICK i, j \in 1..Len(writes) : i < j /\ writes[i] = n /\ writes[j] = k
      BY DEF Ahead
    <2> QED
      BY <1>3, <2>1
  <1>5. \A n \in Waiting : Ahead(n, m)'
    BY <1>3 DEF Waiting
  <1> QED
    BY <1>3, <1>4, <1>5 DEF Waiting

\* ... or the first, which goes to its end.
LEMMA Returns ==
    ASSUME writes \in Seq(Messages), QueueSound, writes # <<>>, NEW m, m = Head(writes),
           writes' = Append(Tail(writes), m)
    PROVE  /\ m \in Waiting /\ m \in Messages /\ \A n : ~Ahead(n, m)
           /\ writes' \in Seq(Messages)
           /\ \A i, j \in 1..Len(writes') : writes'[i] = writes'[j] => i = j
           /\ Waiting' = Waiting
           /\ \A n, k : n # m /\ Ahead(n, k) => Ahead(n, k)'
           /\ \A n \in Waiting \ {m} : Ahead(n, m)'
PROOF
  <1>0. PICK q : q = Tail(writes)
    OBVIOUS
  <1>1. /\ q \in Seq(Messages) /\ Len(writes) \in Nat \ {0}
        /\ Len(q) = Len(writes) - 1 /\ m = writes[1] /\ m \in Messages
        /\ \A k \in 1..Len(q) : q[k] = writes[k + 1]
    BY <1>0, TailIs
  <1>2. \A i, j \in 1..Len(writes) : writes[i] = writes[j] => i = j
    BY DEF QueueSound
  <1>3. /\ \A i, j \in 1..Len(q) : q[i] = q[j] => i = j
        /\ \A i \in 1..Len(q) : q[i] # m
    <2>1. \A i \in 1..Len(q) : i + 1 \in 1..Len(writes) /\ 1 \in 1..Len(writes) /\ i + 1 # 1
      BY <1>1
    <2> QED
      BY <1>1, <1>2, <2>1
  <1>4. writes' = Append(q, m)
    BY <1>0
  <1>5. /\ writes' \in Seq(Messages)
        /\ \A i, j \in 1..Len(writes') : writes'[i] = writes'[j] => i = j
        /\ Waiting' = {q[i] : i \in 1..Len(q)} \cup {m}
        /\ \A i, j \in 1..Len(q) : i < j => Ahead(q[i], q[j])'
        /\ \A i \in 1..Len(q) : Ahead(q[i], m)'
    BY <1>1, <1>3, <1>4, Joins
  <1>6. m \in Waiting /\ \A n : ~Ahead(n, m)
    BY <1>1, <1>2 DEF Waiting, Ahead
  <1>7. ASSUME NEW i \in 1..Len(writes), i # 1
        PROVE  i - 1 \in 1..Len(q) /\ q[i - 1] = writes[i]
    BY <1>1, <1>7
  <1>8. {q[i] : i \in 1..Len(q)} = Waiting \ {m}
    <2>1. ASSUME NEW k \in 1..Len(q) PROVE q[k] \in Waiting \ {m}
      BY <1>1, <1>3, <2>1 DEF Waiting
    <2>2. ASSUME NEW n \in Waiting, n # m PROVE n \in {q[i] : i \in 1..Len(q)}
      <3>1. PICK i \in 1..Len(writes) : n = writes[i]
        BY <2>2 DEF Waiting
      <3>2. i # 1
        BY <1>1, <2>2, <3>1
      <3>3. i - 1 \in 1..Len(q) /\ q[i - 1] = n
        BY <1>7, <3>1, <3>2
      <3> QED
        BY <3>3
    <2> QED
      BY <2>1, <2>2
  <1>9. ASSUME NEW n, NEW k, n # m, Ahead(n, k) PROVE Ahead(n, k)'
    <2>1. PICK i, j \in 1..Len(writes) : i < j /\ writes[i] = n /\ writes[j] = k
      BY <1>9 DEF Ahead
    <2>2. i # 1 /\ j # 1
      BY <1>1, <1>9, <2>1
    <2>3. /\ i - 1 \in 1..Len(q) /\ q[i - 1] = n
          /\ j - 1 \in 1..Len(q) /\ q[j - 1] = k /\ i - 1 < j - 1
      BY <1>1, <1>7, <2>1, <2>2
    <2> QED
      BY <1>5, <2>3
  <1>10. Waiting' = Waiting
    BY <1>5, <1>6, <1>8
  <1>11. \A n \in Waiting \ {m} : Ahead(n, m)'
    BY <1>5, <1>8
  <1> QED
    BY <1>1, <1>5, <1>6, <1>9, <1>10, <1>11

-----------------------------------------------------------------------------
Writing == Room!PreludeWrites \cup Room!Stores

\* The write of m is taken from the queue, and its handler awaits another ...
LEMMA GoesOn ==
    ASSUME RoomInv, NEW m \in Messages, NEW s \in Writing, NEW t \in Writing,
           Room!Commits(m, s), Room!Goes(m, t)
    PROVE  /\ calls = <<>> /\ at[m] = s /\ at' = [at EXCEPT ![m] = t]
           /\ at' \in [Messages -> Room!Stages] /\ writes' \in Seq(Messages) /\ QueueSound'
           /\ \A n : ~Ahead(n, m)
           /\ \A n, k : n # m /\ Ahead(n, k) => Ahead(n, k)'
           /\ \A n \in Messages : n # m /\ at[n] \in Writing => Ahead(n, m)'
PROOF
  <1>1. /\ calls = <<>> /\ at[m] = s /\ at' = [at EXCEPT ![m] = t]
        /\ writes # <<>> /\ m = Head(writes) /\ writes' = Append(Tail(writes), m)
    BY DEF Room!Commits, Room!Goes
  <1>2. /\ writes \in Seq(Messages) /\ QueueSound /\ at \in [Messages -> Room!Stages]
    BY DEF RoomInv, Room!TypeOK
  <1>3. /\ m \in Waiting /\ \A n : ~Ahead(n, m)
        /\ writes' \in Seq(Messages)
        /\ \A i, j \in 1..Len(writes') : writes'[i] = writes'[j] => i = j
        /\ Waiting' = Waiting
        /\ \A n, k : n # m /\ Ahead(n, k) => Ahead(n, k)'
        /\ \A n \in Waiting \ {m} : Ahead(n, m)'
    BY <1>1, <1>2, Returns
  <1>4. at' \in [Messages -> Room!Stages]
    BY <1>1, <1>2 DEF Writing, Room!Stages, Room!Prelude
  <1>5. \A n \in Messages : at[n] \in Writing <=> n \in Waiting
    BY <1>2 DEF QueueSound, Writing
  <1>6. QueueSound'
    BY <1>1, <1>2, <1>3, <1>5 DEF QueueSound, Writing
  <1> QED
    BY <1>1, <1>3, <1>4, <1>5, <1>6

\* ... or none.
LEMMA RestsAt ==
    ASSUME RoomInv, NEW m \in Messages, NEW s \in Writing, NEW t \in Room!Stages \ Writing,
           Room!Commits(m, s), Room!Rests(m, t)
    PROVE  /\ calls = <<>> /\ at[m] = s /\ at' = [at EXCEPT ![m] = t]
           /\ at' \in [Messages -> Room!Stages] /\ writes' \in Seq(Messages) /\ QueueSound'
           /\ \A n : ~Ahead(n, m)
           /\ \A n, k : n # m /\ Ahead(n, k) => Ahead(n, k)'
PROOF
  <1>1. /\ calls = <<>> /\ at[m] = s /\ at' = [at EXCEPT ![m] = t]
        /\ writes # <<>> /\ m = Head(writes) /\ writes' = Tail(writes)
    BY DEF Room!Commits, Room!Rests
  <1>2. /\ writes \in Seq(Messages) /\ QueueSound /\ at \in [Messages -> Room!Stages]
    BY DEF RoomInv, Room!TypeOK
  <1>3. /\ m \in Waiting /\ \A n : ~Ahead(n, m)
        /\ writes' \in Seq(Messages)
        /\ \A i, j \in 1..Len(writes') : writes'[i] = writes'[j] => i = j
        /\ Waiting' = Waiting \ {m}
        /\ \A n, k : n # m /\ Ahead(n, k) => Ahead(n, k)'
    BY <1>1, <1>2, Leaves
  <1>4. at' \in [Messages -> Room!Stages]
    BY <1>1, <1>2
  <1>5. \A n \in Messages : at[n] \in Writing <=> n \in Waiting
    BY <1>2 DEF QueueSound, Writing
  <1>6. QueueSound'
    BY <1>1, <1>2, <1>3, <1>5 DEF QueueSound, Writing
  <1> QED
    BY <1>1, <1>3, <1>4, <1>6

\* A message that is not held comes to a write.
LEMMA Awaits ==
    ASSUME RoomInv, NEW m \in Messages, NEW t \in Writing, at[m] \notin Writing,
           at' = [at EXCEPT ![m] = t], writes' = Append(writes, m)
    PROVE  /\ at' \in [Messages -> Room!Stages] /\ writes' \in Seq(Messages) /\ QueueSound'
           /\ \A n, k : Ahead(n, k) => Ahead(n, k)'
           /\ \A n \in Messages : at[n] \in Writing => Ahead(n, m)'
PROOF
  <1>1. /\ writes \in Seq(Messages) /\ QueueSound /\ at \in [Messages -> Room!Stages]
    BY DEF RoomInv, Room!TypeOK
  <1>2. \A n \in Messages : at[n] \in Writing <=> n \in Waiting
    BY <1>1 DEF QueueSound, Writing
  <1>3. m \notin Waiting
    BY <1>2
  <1>4. /\ writes' \in Seq(Messages)
        /\ \A i, j \in 1..Len(writes') : writes'[i] = writes'[j] => i = j
        /\ Waiting' = Waiting \cup {m}
        /\ \A n, k : Ahead(n, k) => Ahead(n, k)'
        /\ \A n \in Waiting : Ahead(n, m)'
    BY <1>1, <1>3, Enters
  <1>5. at' \in [Messages -> Room!Stages]
    BY <1>1 DEF Writing, Room!Stages, Room!Prelude
  <1>6. QueueSound'
    BY <1>1, <1>2, <1>4 DEF QueueSound, Writing
  <1> QED
    BY <1>2, <1>4, <1>5, <1>6

\* While no held trigger moves, those held stay so.
LEMMA HoldsKept ==
    ASSUME RoomInv, NEW m \in Messages, NEW t, at[m] # "held", at' = [at EXCEPT ![m] = t],
           UNCHANGED <<calls, buffer>>
    PROVE  HoldsSound'
PROOF
  <1>1. /\ at \in [Messages -> Room!Stages] /\ calls \in Seq(Triggers)
        /\ Room!Guarded => buffer \in Seq(Triggers)
    BY DEF RoomInv, Room!TypeOK
  <1>2. HoldsSound
    BY DEF RoomInv
  <1>3. \A n : at[n] = "held" => at'[n] = "held"
    BY <1>1
  <1> QED
    BY <1>2, <1>3 DEF HoldsSound, AllHeld, Room!Guarded

\* Nor does it matter to what was asked and answered when nothing is accepted.
LEMMA AskedKept ==
    ASSUME RoomInv, NEW m \in Messages, NEW t, at' = [at EXCEPT ![m] = t],
           at[m] # "accepted", t # "accepted",
           t \in Room!Prelude \cup {"held"} => asked[m], UNCHANGED <<asked, answered>>
    PROVE  AskedSound'
  BY DEF RoomInv, Room!TypeOK, AskedSound

\* The guard still stands for the same prelude.
LEMMA GuardKept ==
    ASSUME RoomInv, NEW m \in Messages, NEW t, at' = [at EXCEPT ![m] = t],
           Room!Guarded' <=> Room!Guarded, at[m] \in Room!Prelude <=> t \in Room!Prelude
    PROVE  Room!GuardOwned'
  BY DEF RoomInv, Room!TypeOK, Room!GuardOwned

\* The order is none of a message's business that is not stored before a prelude ...
LEMMA OrderKept ==
    ASSUME RoomInv, NEW m \in Messages, NEW t, at' = [at EXCEPT ![m] = t],
           t \notin Room!Prelude \cup {"store_inactive"} \cup Stranded,
           state' = "active" => state = "active",
           \A n, k : n # m /\ Ahead(n, k) => Ahead(n, k)'
    PROVE  OrderSound'
PROOF
  <1>1. at \in [Messages -> Room!Stages] /\ OrderSound
    BY DEF RoomInv, Room!TypeOK
  <1>2. \A n \in Messages : n # m => at'[n] = at[n]
    BY <1>1
  <1>3. at'[m] = t
    BY <1>1
  <1>4. /\ "activating" \in Room!Prelude /\ "routing" \in Room!Prelude
        /\ "store_stranded" \in Stranded /\ "reset_stranded" \in Stranded
    BY DEF Room!Prelude, Room!PreludeWrites, Stranded
  <1>5. ASSUME NEW k \in Messages, NEW n \in Messages
        PROVE  /\ at'[k] = "activating" /\ at'[n] \in {"store_inactive", "store_stranded"}
                     => Ahead(n, k)'
               /\ at'[k] = "routing" => /\ at'[n] \notin {"store_inactive", "store_stranded"}
                                        /\ at'[n] = "reset_stranded" => Ahead(n, k)'
               /\ at'[k] \in Room!Prelude \ {"activating", "routing", "resetting"} =>
                     at'[n] \notin {"store_inactive"} \cup Stranded
    <2>1. CASE k = m
      BY <1>3, <1>4, <2>1
    <2>2. CASE n = m /\ k # m
      BY <1>3, <1>4, <2>2
    <2>3. CASE n # m /\ k # m
      <3>1. at'[n] = at[n] /\ at'[k] = at[k]
        BY <1>2, <2>3
      <3> QED
        BY <1>1, <2>3, <3>1 DEF OrderSound
    <2> QED
      BY <2>1, <2>2, <2>3
  <1>6. state' = "active" =>
          \A n \in Messages : at'[n] \notin Room!Prelude \cup {"store_inactive"} \cup Stranded
    BY <1>1, <1>2, <1>3 DEF OrderSound
  <1> QED
    BY <1>5, <1>6 DEF OrderSound

\* ... and is settled when those are all stored, or when the prelude is being reset.
LEMMA OrderSettled ==
    ASSUME RoomInv, NEW m \in Messages, at[m] \in Room!Prelude,
           NEW t \in Room!Prelude \ {"activating", "routing"}, at' = [at EXCEPT ![m] = t],
           state' # "active",
           t = "resetting" \/ \A n \in Messages : at[n] \notin {"store_inactive"} \cup Stranded
    PROVE  OrderSound'
PROOF
  <1>1. at \in [Messages -> Room!Stages] /\ Room!GuardOwned
    BY DEF RoomInv, Room!TypeOK
  <1>2. \A n \in Messages : n # m => at'[n] = at[n] /\ at[n] \notin Room!Prelude
    BY <1>1 DEF Room!GuardOwned
  <1>3. at'[m] = t
    BY <1>1
  <1>4. "activating" \in Room!Prelude /\ "routing" \in Room!Prelude
    BY DEF Room!Prelude, Room!PreludeWrites
  <1>5. t \notin {"store_inactive"} \cup Stranded
    BY DEF Room!Prelude, Room!PreludeWrites, Stranded
  <1>6. \A n \in Messages : at'[n] \in Room!Prelude => n = m
    BY <1>2
  <1>7. t # "resetting" => \A n \in Messages : at'[n] \notin {"store_inactive"} \cup Stranded
    BY <1>2, <1>3, <1>5
  <1>8. at'[m] \notin {"activating", "routing"}
    BY <1>3
  <1>9. ASSUME NEW k \in Messages, NEW n \in Messages
        PROVE  /\ at'[k] \notin {"activating", "routing"}
               /\ at'[k] \in Room!Prelude \ {"activating", "routing", "resetting"} =>
                     at'[n] \notin {"store_inactive"} \cup Stranded
    BY <1>3, <1>4, <1>6, <1>7, <1>8
  <1> QED
    BY <1>9 DEF OrderSound

\* What activates a room is a trigger, and what is grouped with it are messages.
LEMMA GroupIs ==
    ASSUME Room!ActivationAssumption, RoomInv, NEW m \in Messages, at[m] \in Room!Prelude
    PROVE  m \in Triggers /\ asked[m] /\ Grouped[m] \subseteq Messages
  BY DEF RoomInv, AskedSound, Room!ActivationAssumption

\* What the rows must be is so while no row turns inactive.
LEMMA RowsKept ==
    ASSUME Room!ActivationAssumption, RoomInv, NEW m \in Messages, NEW t,
             at' = [at EXCEPT ![m] = t],
           t \notin {"promoting", "backfilling", "grouping", "readying"},
           state' = "active" => state = "active",
           \A n \in Messages : row'[n] = "inactive" => row[n] = "inactive",
           \A n \in Messages : row[n] = "processable" => row'[n] = "processable"
    PROVE  RowsSound'
PROOF
  <1>1. at \in [Messages -> Room!Stages] /\ RowsSound
    BY DEF RoomInv, Room!TypeOK
  <1>2. \A n \in Messages : at[n] = "readying" => Grouped[n] \subseteq Messages
    BY GroupIs DEF Room!Prelude
  <1>3. \A n \in Messages : at'[n] \in {"promoting", "backfilling", "grouping", "readying"}
            => n # m /\ at'[n] = at[n]
    BY <1>1
  <1>4. state' = "active" \/ (\E n \in Messages : at'[n] = "promoting") =>
            \A n \in Messages : row'[n] # "inactive"
    BY <1>1, <1>3 DEF RowsSound
  <1>5. \A n \in Messages : at'[n] \in {"backfilling", "grouping", "readying"} =>
            row'[n] = "processable"
    BY <1>1, <1>3 DEF RowsSound
  <1>6. ASSUME NEW n \in Messages, at'[n] = "readying", NEW k \in Grouped[n]
        PROVE  row'[k] # "inactive"
    <2>1. at[n] = "readying"
      BY <1>3, <1>6
    <2>2. k \in Messages /\ row[k] # "inactive"
      BY <1>1, <1>2, <1>6, <2>1 DEF RowsSound
    <2> QED
      BY <2>2
  <1> QED
    BY <1>4, <1>5, <1>6 DEF RowsSound

\* appendIfMissing makes no row inactive that is stored to be processed.
LEMMA Stores ==
    ASSUME RoomInv, NEW m \in Messages, NEW s \in {"inactive", "processable"},
           Room!Stored(m, s)
    PROVE  /\ row' \in [Messages -> {"absent", "inactive", "processable"}]
           /\ row'[m] # "absent"
           /\ row[m] = "absent" => row'[m] = s
           /\ \A n \in Messages : n # m \/ row[m] # "absent" => row'[n] = row[n]
  BY DEF RoomInv, Room!TypeOK, Room!Stored

\* The gate puts a message in the queue, at the stage that fits the room; only a trigger
\* starts a prelude, and only when there is none.
LEMMA Gated ==
    ASSUME Room!ActivationAssumption, RoomInv, NEW m \in Messages, NEW trigger,
           Room!Gate(m, trigger),
           at[m] \in {"out", "seen", "held"},
           UNCHANGED <<state, row, draining, up, faults, crashes>>
    PROVE  /\ writes' \in Seq(Messages) /\ at' \in [Messages -> Room!Stages]
           /\ QueueSound' /\ Room!GuardOwned' /\ OrderSound' /\ RowsSound' /\ FaultsSound'
           /\ \A n \in Messages : n # m => at'[n] = at[n]
           /\ at'[m] \in Writing
           /\ at'[m] \in Room!Prelude => trigger
           /\ buffer' = buffer \/ buffer' = <<>>
PROOF
  <1>1. PICK t : /\ at' = [at EXCEPT ![m] = t] /\ writes' = Append(writes, m)
                 /\ \/ /\ state = "activating" /\ ~Room!Guarded
                       /\ t = "store_stranded" /\ UNCHANGED buffer
                    \/ Room!Guarded /\ t = "store_held" /\ UNCHANGED buffer
                    \/ /\ state = "inactive" /\ ~Room!Guarded /\ trigger
                       /\ t = "activating" /\ buffer' = <<>>
                    \/ /\ state = "inactive" /\ ~Room!Guarded
                       /\ t = "store_inactive" /\ UNCHANGED buffer
                    \/ /\ state = "active" /\ ~Room!Guarded
                       /\ t = "store_active" /\ UNCHANGED buffer
    BY DEF Room!Gate
  <1>2. t \in Writing
    BY <1>1 DEF Writing, Room!PreludeWrites, Room!Stores
  <1>3. at \in [Messages -> Room!Stages] /\ Room!GuardOwned /\ OrderSound /\ FaultsSound
    BY DEF RoomInv, Room!TypeOK
  <1>4. at[m] \notin Writing \cup Room!Prelude
    BY DEF Writing, Room!Prelude, Room!PreludeWrites, Room!Stores
  <1>5. /\ at' \in [Messages -> Room!Stages] /\ writes' \in Seq(Messages) /\ QueueSound'
        /\ \A n, k : Ahead(n, k) => Ahead(n, k)'
        /\ \A n \in Messages : at[n] \in Writing => Ahead(n, m)'
    BY <1>1, <1>2, <1>4, Awaits
  <1>6. at'[m] = t /\ \A n \in Messages : n # m => at'[n] = at[n]
    BY <1>1, <1>3
  <1>7. t \in Room!Prelude <=> t = "activating"
    BY <1>1 DEF Room!Prelude, Room!PreludeWrites
  <1>8. t = "activating" => ~Room!Guarded /\ state = "inactive" /\ trigger /\ buffer' = <<>>
    BY <1>1
  <1>9. <<>> # NoBuffer
    <2>1. <<>> \in Seq(Messages)
      BY EmptySeq
    <2> QED
      BY <2>1 DEF Room!ActivationAssumption
  <1>10. Room!Guarded' <=> Room!Guarded \/ t = "activating"
    BY <1>1, <1>9 DEF Room!Guarded
  <1>11. Room!GuardOwned'
    <2>1. CASE t = "activating"
      <3>1. \A n \in Messages : at[n] \notin Room!Prelude
        BY <1>3, <1>8, <2>1 DEF Room!GuardOwned
      <3>2. \A n \in Messages : at'[n] \in Room!Prelude <=> n = m
        BY <1>6, <1>7, <2>1, <3>1
      <3> QED
        BY <1>10, <2>1, <3>2 DEF Room!GuardOwned
    <2>2. CASE t # "activating"
      BY <1>1, <1>4, <1>7, <1>10, <2>2, GuardKept
    <2> QED
      BY <2>1, <2>2
  <1>12. OrderSound'
    <2>1. CASE t = "activating"
      <3>1. \A n \in Messages : at[n] \notin Room!Prelude
        BY <1>3, <1>8, <2>1 DEF Room!GuardOwned
      <3>2. \A n \in Messages : at'[n] \in Room!Prelude => n = m
        BY <1>6, <3>1
      <3>3. state' = "inactive"
        BY <1>8, <2>1
      <3>4. \A n \in Messages : at'[n] \in {"store_inactive", "store_stranded"} => Ahead(n, m)'
        BY <1>5, <1>6, <2>1 DEF Writing, Room!Stores
      <3>5. at'[m] = "activating" /\ "activating" \in Room!Prelude
            /\ "routing" \in Room!Prelude
        BY <1>6, <2>1 DEF Room!Prelude, Room!PreludeWrites
      <3>6. ASSUME NEW k \in Messages, NEW n \in Messages
            PROVE  /\ at'[k] = "activating" /\ at'[n] \in {"store_inactive", "store_stranded"}
                         => Ahead(n, k)'
                   /\ at'[k] # "routing"
                   /\ at'[k] \notin Room!Prelude \ {"activating", "routing", "resetting"}
        BY <3>2, <3>4, <3>5
      <3> QED
        BY <3>3, <3>6 DEF OrderSound
    <2>2. CASE t \in {"store_held", "store_active"}
      <3>1. t \notin Room!Prelude \cup {"store_inactive"} \cup Stranded
        BY <2>2 DEF Room!Prelude, Room!PreludeWrites, Stranded
      <3> QED
        BY <1>1, <1>5, <3>1, OrderKept
    <2>3. CASE t \in {"store_stranded", "store_inactive"}
      <3>1. ~Room!Guarded /\ state' # "active"
        BY <1>1, <2>3
      <3>2. \A n \in Messages : at'[n] \notin Room!Prelude
        BY <1>3, <1>6, <1>7, <2>3, <3>1 DEF Room!GuardOwned
      <3>3. \A n \in Messages : at'[n] \notin {"activating", "routing"}
        BY <3>2 DEF Room!Prelude, Room!PreludeWrites
      <3> QED
        BY <3>1, <3>2, <3>3 DEF OrderSound
    <2> QED
      BY <1>1, <2>1, <2>2, <2>3
  <1>13. t \notin {"promoting", "backfilling", "grouping", "readying", "resetting"}
    BY <1>1
  <1>14. RowsSound'
    BY <1>1, <1>13, RowsKept
  <1>15. FaultsSound'
    <2>1. \A n \in Messages : at'[n] = "resetting" => at[n] = "resetting"
      BY <1>6, <1>13
    <2> QED
      BY <1>3, <1>10, <2>1 DEF FaultsSound, Room!NotLeftActivating
  <1> QED
    BY <1>1, <1>2, <1>5, <1>6, <1>7, <1>8, <1>11, <1>12, <1>14, <1>15

\* A held trigger that leaves the dispatcher leaves the others as they were.
LEMMA DispatchesOn ==
    ASSUME RoomInv, calls # <<>>, calls' = Tail(calls), NEW m, m = Head(calls),
           buffer' = buffer \/ buffer' = <<>>,
           \A n \in Messages : n # m => at'[n] = at[n], Triggers \subseteq Messages
    PROVE  m \in Triggers /\ at[m] = "held" /\ calls' \in Seq(Triggers) /\ HoldsSound'
PROOF
  <1>1. calls \in Seq(Triggers) /\ HoldsSound /\ (Room!Guarded => buffer \in Seq(Triggers))
    BY DEF RoomInv, Room!TypeOK
  <1>2. /\ calls' \in Seq(Triggers) /\ Len(calls) \in Nat \ {0} /\ Len(calls') = Len(calls) - 1
        /\ m = calls[1] /\ m \in Triggers
        /\ \A k \in 1..Len(calls') : calls'[k] = calls[k + 1]
    BY <1>1, TailIs
  <1>3. \A i, j \in 1..Len(calls) : at[calls[i]] = "held" /\ (calls[i] = calls[j] => i = j)
    BY <1>1 DEF HoldsSound, AllHeld
  <1>4. at[m] = "held"
    BY <1>2, <1>3
  <1>5. ASSUME NEW i \in 1..Len(calls')
        PROVE  /\ i + 1 \in 1..Len(calls) /\ calls'[i] = calls[i + 1] /\ calls'[i] # m
               /\ calls'[i] \in Messages
    <2>1. i + 1 \in 1..Len(calls) /\ 1 \in 1..Len(calls) /\ i + 1 # 1
      BY <1>2
    <2>2. calls[i + 1] \in Triggers
      BY <1>1, <2>1, ElementOfSeq
    <2> QED
      BY <1>2, <1>3, <2>1, <2>2
  <1>6. AllHeld(calls)'
    <2>1. ASSUME NEW i \in 1..Len(calls'), NEW j \in 1..Len(calls')
          PROVE  at'[calls'[i]] = "held" /\ (calls'[i] = calls'[j] => i = j)
      <3>1. at'[calls'[i]] = "held"
        BY <1>3, <1>5
      <3>2. calls'[i] = calls'[j] => i + 1 = j + 1
        BY <1>3, <1>5
      <3> QED
        BY <3>1, <3>2
    <2> QED
      BY <2>1 DEF AllHeld
  <1>7. Room!Guarded' =>
          /\ AllHeld(buffer)'
          /\ \A i \in 1..Len(calls'), j \in 1..Len(buffer') : calls'[i] # buffer'[j]
    <2>1. CASE buffer' = <<>>
      BY <2>1, EmptySeq DEF AllHeld
    <2>2. CASE buffer' = buffer /\ Room!Guarded
      <3>1. \A i, j \in 1..Len(buffer) :
                at[buffer[i]] = "held" /\ (buffer[i] = buffer[j] => i = j)
        BY <1>1, <2>2 DEF HoldsSound, AllHeld
      <3>2. \A i \in 1..Len(calls), j \in 1..Len(buffer) : calls[i] # buffer[j]
        BY <1>1, <2>2 DEF HoldsSound
      <3>3. \A j \in 1..Len(buffer) : buffer[j] \in Messages /\ buffer[j] # m
        <4>1. 1 \in 1..Len(calls)
          BY <1>2
        <4>2. \A j \in 1..Len(buffer) : buffer[j] \in Triggers
          BY <1>1, <2>2, ElementOfSeq
        <4> QED
          BY <1>2, <3>2, <4>1, <4>2
      <3>4. \A i, j \in 1..Len(buffer) :
                at'[buffer[i]] = "held" /\ (buffer[i] = buffer[j] => i = j)
        BY <3>1, <3>3
      <3>5. AllHeld(buffer)'
        BY <2>2, <3>4 DEF AllHeld
      <3> QED
        BY <1>5, <2>2, <3>2, <3>5
    <2>3. CASE buffer' = buffer /\ ~Room!Guarded
      BY <2>3 DEF Room!Guarded
    <2> QED
      BY <2>1, <2>2, <2>3
  <1> QED
    BY <1>2, <1>4, <1>6, <1>7 DEF HoldsSound

LEMMA DeliverKept ==
    ASSUME Room!ActivationAssumption, RoomInv, NEW m \in Messages,
           Room!DeliverPlain(m) \/ Room!DeliverTrigger(m)
    PROVE  RoomInv'
PROOF
  <1>1. PICK trigger \in BOOLEAN :
            /\ Room!Gate(m, trigger) /\ calls = <<>> /\ at[m] \in {"out", "seen"}
            /\ trigger => m \in Triggers /\ asked' = [asked EXCEPT ![m] = TRUE]
            /\ ~trigger => UNCHANGED asked
            /\ UNCHANGED <<state, row, calls, answered, draining, up, faults, crashes>>
    BY DEF Room!DeliverPlain, Room!DeliverTrigger
  <1>2. /\ writes' \in Seq(Messages) /\ at' \in [Messages -> Room!Stages]
        /\ QueueSound' /\ Room!GuardOwned' /\ OrderSound' /\ RowsSound' /\ FaultsSound'
        /\ \A n \in Messages : n # m => at'[n] = at[n]
        /\ at'[m] \in Writing
        /\ at'[m] \in Room!Prelude => trigger
        /\ buffer' = buffer \/ buffer' = <<>>
    BY <1>1, Gated
  <1>3. Room!TypeOK /\ HoldsSound /\ AskedSound
    BY DEF RoomInv
  <1>4. asked' \in [Messages -> BOOLEAN]
    BY <1>1, <1>3, Zenon DEF Room!TypeOK
  <1>5. Room!TypeOK'
    <2>1. Room!Guarded' => buffer' \in Seq(Triggers)
      BY <1>2, <1>3, EmptySeq DEF Room!TypeOK, Room!Guarded
    <2> QED
      BY <1>1, <1>2, <1>3, <1>4, <2>1 DEF Room!TypeOK
  <1>6. \A n \in Messages : at[n] = "held" => at'[n] = "held"
    BY <1>1, <1>2
  <1>7. HoldsSound'
    <2>1. AllHeld(calls)'
      BY <1>1, EmptySeq DEF AllHeld
    <2>2. Room!Guarded' => AllHeld(buffer)'
      <3>1. CASE buffer' = <<>>
        BY <3>1, EmptySeq DEF AllHeld
      <3>2. CASE buffer' = buffer /\ Room!Guarded
        <4>1. buffer \in Seq(Triggers) /\ AllHeld(buffer)
          BY <1>3, <3>2 DEF HoldsSound, Room!TypeOK
        <4>2. \A i \in 1..Len(buffer) : buffer[i] \in Messages
          BY <4>1, ElementOfSeq DEF Room!ActivationAssumption
        <4> QED
          BY <1>6, <3>2, <4>1, <4>2 DEF AllHeld
      <3> QED
        BY <1>2, <3>1, <3>2 DEF Room!Guarded
    <2> QED
      BY <1>1, <2>1, <2>2, EmptySeq DEF HoldsSound
  <1>8. \A n \in Messages : n # m => (asked'[n] <=> asked[n])
    BY <1>1, <1>3 DEF Room!TypeOK
  <1>9. /\ asked'[m] => m \in Triggers
        /\ trigger => asked'[m]
    BY <1>1, <1>3 DEF Room!TypeOK, AskedSound
  <1>10. at[m] # "accepted" /\ at'[m] \notin {"held", "accepted"}
    BY <1>1, <1>2 DEF Writing, Room!PreludeWrites, Room!Stores
  <1>11. AskedSound'
    <2>1. ASSUME NEW n \in Messages
          PROVE  /\ asked'[n] => n \in Triggers
                 /\ at'[n] \in Room!Prelude \cup {"held", "accepted"} => asked'[n]
                 /\ answered'[n] = (IF at'[n] = "accepted" THEN 1 ELSE 0)
      <3>1. CASE n = m
        BY <1>1, <1>2, <1>3, <1>9, <1>10, <3>1 DEF AskedSound
      <3>2. CASE n # m
        BY <1>1, <1>2, <1>3, <1>8, <3>2 DEF AskedSound
      <3> QED
        BY <3>1, <3>2
    <2> QED
      BY <2>1 DEF AskedSound
  <1> QED
    BY <1>2, <1>5, <1>7, <1>11 DEF RoomInv

\* A call to the dispatcher, which a draining process swallows.
LEMMA DispatchKept ==
    ASSUME Room!ActivationAssumption, RoomInv, Room!Dispatch
    PROVE  RoomInv'
PROOF
  <1>1. PICK m : m = Head(calls)
    OBVIOUS
  <1>2. /\ calls # <<>> /\ calls' = Tail(calls)
        /\ UNCHANGED <<state, row, asked, answered, draining, up, faults, crashes>>
        /\ \/ Room!Gate(m, TRUE)
           \/ at' = [at EXCEPT ![m] = "lost"] /\ UNCHANGED <<writes, buffer>>
    BY <1>1 DEF Room!Dispatch
  <1>3. Room!TypeOK /\ HoldsSound /\ AskedSound /\ Triggers \subseteq Messages
    BY DEF RoomInv, Room!ActivationAssumption
  <1>4. m \in Triggers /\ at[m] = "held"
    <2>1. calls \in Seq(Triggers)
      BY <1>3 DEF Room!TypeOK
    <2>2. m = calls[1] /\ m \in Triggers /\ Len(calls) \in Nat \ {0}
      BY <1>1, <1>2, <2>1, TailIs
    <2> QED
      BY <1>3, <2>2 DEF HoldsSound, AllHeld
  <1>5. m \in Messages /\ asked[m]
    BY <1>3, <1>4 DEF AskedSound
  <1>6. CASE Room!Gate(m, TRUE)
    <2>1. /\ writes' \in Seq(Messages) /\ at' \in [Messages -> Room!Stages]
          /\ QueueSound' /\ Room!GuardOwned' /\ OrderSound' /\ RowsSound' /\ FaultsSound'
          /\ \A n \in Messages : n # m => at'[n] = at[n]
          /\ at'[m] \in Writing
          /\ buffer' = buffer \/ buffer' = <<>>
      BY <1>2, <1>4, <1>5, <1>6, Gated
    <2>2. calls' \in Seq(Triggers) /\ HoldsSound'
      BY <1>1, <1>2, <1>3, <2>1, DispatchesOn
    <2>3. Room!TypeOK'
      <3>1. Room!Guarded' => buffer' \in Seq(Triggers)
        BY <1>3, <2>1, EmptySeq DEF Room!TypeOK, Room!Guarded
      <3> QED
        BY <1>2, <1>3, <2>1, <2>2, <3>1 DEF Room!TypeOK
    <2>4. at'[m] \notin {"held", "accepted"} /\ at[m] # "accepted"
      BY <1>4, <2>1 DEF Writing, Room!PreludeWrites, Room!Stores
    <2>5. AskedSound'
      <3>1. ASSUME NEW n \in Messages
            PROVE  /\ asked'[n] => n \in Triggers
                   /\ at'[n] \in Room!Prelude \cup {"held", "accepted"} => asked'[n]
                   /\ answered'[n] = (IF at'[n] = "accepted" THEN 1 ELSE 0)
        <4>1. CASE n = m
          BY <1>2, <1>3, <1>4, <1>5, <2>4, <4>1 DEF AskedSound
        <4>2. CASE n # m
          BY <1>2, <1>3, <2>1, <4>2 DEF AskedSound
        <4> QED
          BY <4>1, <4>2
      <3> QED
        BY <3>1 DEF AskedSound
    <2> QED
      BY <2>1, <2>2, <2>3, <2>5 DEF RoomInv
  <1>7. CASE at' = [at EXCEPT ![m] = "lost"] /\ UNCHANGED <<writes, buffer>>
    <2>1. at \in [Messages -> Room!Stages]
      BY <1>3 DEF Room!TypeOK
    <2>2. at'[m] = "lost" /\ \A n \in Messages : n # m => at'[n] = at[n]
      BY <1>5, <1>7, <2>1
    <2>3. calls' \in Seq(Triggers) /\ HoldsSound'
      BY <1>1, <1>2, <1>3, <1>7, <2>2, DispatchesOn
    <2>4. at' \in [Messages -> Room!Stages]
      BY <1>7, <2>1 DEF Room!Stages, Room!Settled
    <2>5. Room!TypeOK'
      BY <1>2, <1>3, <1>7, <2>3, <2>4 DEF Room!TypeOK, Room!Guarded
    <2>6. "lost" \notin Writing \cup Room!Prelude /\ "held" \notin Writing \cup Room!Prelude
      BY DEF Writing, Room!PreludeWrites, Room!Prelude, Room!Stores
    <2>7. QueueSound'
      BY <1>4, <1>7, <2>1, <2>2, <2>6 DEF RoomInv, QueueSound, Writing, Waiting
    <2>8. Room!GuardOwned'
      <3>1. Room!Guarded' <=> Room!Guarded
        BY <1>7 DEF Room!Guarded
      <3> QED
        BY <1>4, <1>5, <1>7, <2>6, <3>1, GuardKept
    <2>9. OrderSound'
      <3>1. \A n, k : Ahead(n, k) => Ahead(n, k)'
        BY <1>7 DEF Ahead
      <3>2. "lost" \notin Room!Prelude \cup {"store_inactive"} \cup Stranded
        BY DEF Room!Prelude, Room!PreludeWrites, Stranded
      <3> QED
        BY <1>2, <1>5, <1>7, <3>1, <3>2, OrderKept
    <2>10. RowsSound'
      BY <1>2, <1>5, <1>7, RowsKept
    <2>11. FaultsSound'
      BY <1>2, <1>7, <2>2 DEF RoomInv, FaultsSound, Room!NotLeftActivating, Room!Guarded
    <2>12. AskedSound'
      BY <1>2, <1>4, <1>5, <1>7, <2>6, AskedKept
    <2> QED
      BY <2>3, <2>5, <2>7, <2>8, <2>9, <2>10, <2>11, <2>12 DEF RoomInv
  <1> QED
    BY <1>2, <1>6, <1>7

\* A message that was only stored leaves the queue.
LEMMA StoredAway ==
    ASSUME RoomInv, NEW m \in Messages, NEW s \in Room!Stores,
           NEW t \in {"seen", "accepted", "failed", "dropped", "held"},
           Room!Commits(m, s), Room!Rests(m, t),
           state' = "active" => state = "active", Room!Guarded' <=> Room!Guarded
    PROVE  /\ calls = <<>> /\ at[m] = s /\ at' = [at EXCEPT ![m] = t]
           /\ at' \in [Messages -> Room!Stages] /\ writes' \in Seq(Messages)
           /\ QueueSound' /\ Room!GuardOwned' /\ OrderSound'
PROOF
  <1>1. s \in Writing /\ t \in Room!Stages \ Writing
    BY DEF Writing, Room!PreludeWrites, Room!Stores, Room!Stages, Room!Settled
  <1>2. /\ calls = <<>> /\ at[m] = s /\ at' = [at EXCEPT ![m] = t]
        /\ at' \in [Messages -> Room!Stages] /\ writes' \in Seq(Messages) /\ QueueSound'
        /\ \A n, k : n # m /\ Ahead(n, k) => Ahead(n, k)'
    BY <1>1, RestsAt
  <1>3. s \notin Room!Prelude
    BY DEF Room!Stores, Room!Prelude, Room!PreludeWrites
  <1>4. t \notin Room!Prelude \cup {"store_inactive"} \cup Stranded
    BY DEF Room!Prelude, Room!PreludeWrites, Stranded
  <1>5. Room!GuardOwned'
    BY <1>2, <1>3, <1>4, GuardKept
  <1>6. OrderSound'
    BY <1>2, <1>4, OrderKept
  <1> QED
    BY <1>2, <1>5, <1>6

\* A timeline that reads activating for no prelude still does for the same reason.
LEMMA FaultsKept ==
    ASSUME RoomInv, NEW m \in Messages, NEW t, t # "resetting", at' = [at EXCEPT ![m] = t],
           state' = "activating" => state = "activating", Room!Guarded' <=> Room!Guarded,
           faults' \in {faults, faults + 1}, UNCHANGED <<draining, up>>
    PROVE  FaultsSound'
PROOF
  <1>1. at \in [Messages -> Room!Stages] /\ FaultsSound /\ faults \in Nat
    BY DEF RoomInv, Room!TypeOK
  <1>2. \A n \in Messages : at'[n] = "resetting" => at[n] = "resetting"
    BY <1>1
  <1> QED
    BY <1>1, <1>2 DEF FaultsSound, Room!NotLeftActivating

LEMMA StoreInactiveKept ==
    ASSUME Room!ActivationAssumption, RoomInv, NEW m \in Messages, Room!StoreInactive(m)
    PROVE  RoomInv'
PROOF
  <1>1. /\ Room!Commits(m, "store_inactive") /\ Room!Stored(m, "inactive")
        /\ Room!Rests(m, "seen")
        /\ UNCHANGED <<state, buffer, calls, asked, answered, draining, up, faults, crashes>>
    BY DEF Room!StoreInactive
  <1>2. "store_inactive" \in Room!Stores /\ (Room!Guarded' <=> Room!Guarded)
    BY <1>1 DEF Room!Stores, Room!Guarded
  <1>3. /\ calls = <<>> /\ at[m] = "store_inactive" /\ at' = [at EXCEPT ![m] = "seen"]
        /\ at' \in [Messages -> Room!Stages] /\ writes' \in Seq(Messages)
        /\ QueueSound' /\ Room!GuardOwned' /\ OrderSound'
    BY <1>1, <1>2, StoredAway
  <1>4. /\ row' \in [Messages -> {"absent", "inactive", "processable"}]
        /\ \A n \in Messages : n # m \/ row[m] # "absent" => row'[n] = row[n]
    BY <1>1, Stores
  <1>5. Room!TypeOK'
    BY <1>1, <1>3, <1>4 DEF RoomInv, Room!TypeOK, Room!Guarded
  <1>6. HoldsSound'
    BY <1>1, <1>3, HoldsKept
  <1>7. "seen" \notin Room!Prelude
    BY DEF Room!Prelude, Room!PreludeWrites
  <1>8. AskedSound'
    BY <1>1, <1>3, <1>7, AskedKept
  <1>9. RowsSound'
    <2>1. at \in [Messages -> Room!Stages] /\ OrderSound /\ RowsSound
      BY DEF RoomInv, Room!TypeOK
    <2>2. {"promoting", "readying"} \subseteq
              Room!Prelude \ {"activating", "routing", "resetting"}
      BY DEF Room!Prelude, Room!PreludeWrites
    <2>3. /\ state' # "active"
          /\ \A n \in Messages : at[n] \notin {"promoting", "readying"}
      BY <1>1, <1>3, <2>1, <2>2 DEF OrderSound
    <2>4. \A n \in Messages : at'[n] # "seen" => n # m /\ at'[n] = at[n]
      BY <1>3, <2>1
    <2>5. \A n \in Messages : row[n] = "processable" => row'[n] = "processable"
      BY <1>4
    <2>6. ASSUME NEW n \in Messages
          PROVE  /\ at'[n] \notin {"promoting", "readying"}
                 /\ at'[n] \in {"backfilling", "grouping"} => row'[n] = "processable"
      BY <2>1, <2>3, <2>4, <2>5 DEF RowsSound
    <2> QED
      BY <2>3, <2>6 DEF RowsSound
  <1>10. FaultsSound'
    BY <1>1, <1>2, <1>3, FaultsKept
  <1> QED
    BY <1>3, <1>5, <1>6, <1>8, <1>9, <1>10 DEF RoomInv

LEMMA StoreActiveKept ==
    ASSUME Room!ActivationAssumption, RoomInv, NEW m \in Messages, Room!StoreActive(m)
    PROVE  RoomInv'
PROOF
  <1>0. PICK t : t = Room!Outcome(m, "accepted")
    OBVIOUS
  <1>1. /\ Room!Commits(m, "store_active") /\ Room!Stored(m, "processable")
        /\ Room!Rests(m, t)
        /\ answered' = (IF asked[m] THEN [answered EXCEPT ![m] = @ + 1] ELSE answered)
        /\ UNCHANGED <<state, buffer, calls, asked, draining, up, faults, crashes>>
    BY <1>0 DEF Room!StoreActive
  <1>2. "store_active" \in Room!Stores /\ (Room!Guarded' <=> Room!Guarded)
    BY <1>1 DEF Room!Stores, Room!Guarded
  <1>3. t \in {"seen", "accepted"} /\ (t = "accepted" <=> asked[m])
    BY <1>0 DEF Room!Outcome
  <1>4. /\ calls = <<>> /\ at[m] = "store_active" /\ at' = [at EXCEPT ![m] = t]
        /\ at' \in [Messages -> Room!Stages] /\ writes' \in Seq(Messages)
        /\ QueueSound' /\ Room!GuardOwned' /\ OrderSound'
    BY <1>1, <1>2, <1>3, StoredAway
  <1>5. /\ row' \in [Messages -> {"absent", "inactive", "processable"}]
        /\ row[m] = "absent" => row'[m] = "processable"
        /\ \A n \in Messages : n # m \/ row[m] # "absent" => row'[n] = row[n]
    BY <1>1, Stores
  <1>6. answered' \in [Messages -> Nat]
    BY <1>1 DEF RoomInv, Room!TypeOK
  <1>7. Room!TypeOK'
    BY <1>1, <1>4, <1>5, <1>6 DEF RoomInv, Room!TypeOK, Room!Guarded
  <1>8. HoldsSound'
    BY <1>1, <1>4, HoldsKept
  <1>9. AskedSound'
    <2>1. /\ at \in [Messages -> Room!Stages] /\ answered \in [Messages -> Nat] /\ AskedSound
      BY DEF RoomInv, Room!TypeOK
    <2>2. t \notin Room!Prelude \cup {"held"}
      BY <1>3 DEF Room!Prelude, Room!PreludeWrites
    <2>3. at'[m] = t /\ answered[m] = 0
      BY <1>4, <2>1 DEF AskedSound
    <2>4. answered'[m] = IF t = "accepted" THEN 1 ELSE 0
      BY <1>1, <1>3, <2>1, <2>3
    <2>5. \A n \in Messages : n # m => at'[n] = at[n] /\ answered'[n] = answered[n]
      BY <1>1, <1>4, <2>1
    <2>6. ASSUME NEW n \in Messages
          PROVE  /\ asked'[n] => n \in Triggers
                 /\ at'[n] \in Room!Prelude \cup {"held", "accepted"} => asked'[n]
                 /\ answered'[n] = (IF at'[n] = "accepted" THEN 1 ELSE 0)
      <3>1. CASE n = m
        BY <1>1, <1>3, <2>1, <2>2, <2>3, <2>4, <3>1 DEF AskedSound
      <3>2. CASE n # m
        BY <1>1, <2>1, <2>5, <3>2 DEF AskedSound
      <3> QED
        BY <3>1, <3>2
    <2> QED
      BY <2>6 DEF AskedSound
  <1>10. RowsSound'
    BY <1>1, <1>3, <1>4, <1>5, RowsKept
  <1>11. FaultsSound'
    BY <1>1, <1>2, <1>3, <1>4, FaultsKept
  <1> QED
    BY <1>4, <1>7, <1>8, <1>9, <1>10, <1>11 DEF RoomInv

\* A write that stores rejects: the message is given up.
LEMMA StoreRejects ==
    ASSUME Room!ActivationAssumption, RoomInv, NEW m \in Messages,
           at[m] \in Room!Stores, NEW t \in {"seen", "failed", "dropped"},
           calls = <<>>, writes # <<>>, m = Head(writes), Room!Rests(m, t),
           faults < MaxFaults, faults' = faults + 1,
           UNCHANGED <<state, row, buffer, calls, asked, answered, draining, up, crashes>>
    PROVE  RoomInv'
PROOF
  <1>1. Room!Commits(m, at[m]) /\ (Room!Guarded' <=> Room!Guarded)
    BY DEF Room!Commits, Room!Guarded
  <1>2. /\ at' = [at EXCEPT ![m] = t]
        /\ at' \in [Messages -> Room!Stages] /\ writes' \in Seq(Messages)
        /\ QueueSound' /\ Room!GuardOwned' /\ OrderSound'
    BY <1>1, StoredAway
  <1>3. faults' \in 0..MaxFaults
    BY DEF RoomInv, Room!TypeOK, Room!ActivationAssumption
  <1>4. Room!TypeOK'
    BY <1>2, <1>3 DEF RoomInv, Room!TypeOK, Room!Guarded
  <1>5. at[m] \notin {"held", "accepted"} /\ t \notin Room!Prelude \cup {"held"}
    BY DEF Room!Stores, Room!Prelude, Room!PreludeWrites
  <1>6. HoldsSound' /\ AskedSound'
    BY <1>2, <1>5, HoldsKept, AskedKept
  <1>7. RowsSound'
    BY <1>2, RowsKept
  <1>8. FaultsSound'
    BY <1>1, <1>2, FaultsKept
  <1> QED
    BY <1>2, <1>4, <1>6, <1>7, <1>8 DEF RoomInv

\* The sequence of one trigger.
LEMMA OneIs ==
    ASSUME NEW S, NEW x \in S
    PROVE  <<x>> \in Seq(S) /\ Len(<<x>>) = 1 /\ <<x>>[1] = x
  OBVIOUS

\* Triggers are messages, in a sequence too.
LEMMA TriggersAre ==
    ASSUME Room!ActivationAssumption, NEW s \in Seq(Triggers)
    PROVE  s \in Seq(Messages) /\ s # NoBuffer
PROOF
  <1>1. s \in Seq(Messages)
    BY SeqMonotonic DEF Room!ActivationAssumption
  <1> QED
    BY <1>1 DEF Room!ActivationAssumption

\* One trigger is held, and is dispatched at once.
LEMMA HeldAlone ==
    ASSUME Room!ActivationAssumption, RoomInv, NEW m \in Triggers, calls' = <<m>>,
           UNCHANGED buffer, at[m] # "held", at' = [at EXCEPT ![m] = "held"]
    PROVE  calls' \in Seq(Triggers) /\ HoldsSound'
PROOF
  <1>1. calls' \in Seq(Triggers) /\ Len(calls') = 1 /\ calls'[1] = m
    BY OneIs
  <1>2. \A i \in 1..Len(calls') : i = 1
    BY <1>1
  <1>3. /\ Triggers \subseteq Messages /\ at \in [Messages -> Room!Stages] /\ HoldsSound
        /\ Room!Guarded => buffer \in Seq(Triggers)
    BY DEF RoomInv, Room!TypeOK, Room!ActivationAssumption
  <1>4. at'[m] = "held"
    BY <1>3
  <1>5. AllHeld(calls)'
    BY <1>1, <1>2, <1>4 DEF AllHeld
  <1>6. CASE Room!Guarded
    <2>1. \A i, j \in 1..Len(buffer) :
              at[buffer[i]] = "held" /\ (buffer[i] = buffer[j] => i = j)
      BY <1>3, <1>6 DEF HoldsSound, AllHeld
    <2>2. \A i \in 1..Len(buffer) : buffer[i] \in Messages
      BY <1>3, <1>6, ElementOfSeq
    <2>3. \A i \in 1..Len(buffer) : buffer[i] # m /\ at'[buffer[i]] = "held"
      BY <1>3, <2>1, <2>2
    <2>4. AllHeld(buffer)'
      BY <2>1, <2>3 DEF AllHeld
    <2>5. \A i \in 1..Len(calls'), j \in 1..Len(buffer') : calls'[i] # buffer'[j]
      BY <1>1, <1>2, <2>3
    <2> QED
      BY <1>1, <1>5, <2>4, <2>5 DEF HoldsSound
  <1>7. CASE ~Room!Guarded
    BY <1>1, <1>5, <1>7 DEF HoldsSound, Room!Guarded
  <1> QED
    BY <1>6, <1>7

\* A trigger joins the buffer of the prelude.
LEMMA HeldToo ==
    ASSUME Room!ActivationAssumption, RoomInv, NEW m \in Triggers, Room!Guarded, calls = <<>>,
           UNCHANGED calls, at[m] # "held", at' = [at EXCEPT ![m] = "held"],
           buffer' = Append(buffer, m)
    PROVE  Room!Guarded' /\ buffer' \in Seq(Triggers) /\ HoldsSound'
PROOF
  <1>1. /\ buffer \in Seq(Triggers) /\ HoldsSound /\ at \in [Messages -> Room!Stages]
        /\ Triggers \subseteq Messages
    BY DEF RoomInv, Room!TypeOK, Room!ActivationAssumption
  <1>2. /\ buffer' \in Seq(Triggers) /\ Len(buffer) \in Nat /\ Len(buffer') = Len(buffer) + 1
        /\ \A k \in 1..Len(buffer) : buffer'[k] = buffer[k]
        /\ buffer'[Len(buffer) + 1] = m
    BY <1>1, AppendIs
  <1>3. Room!Guarded'
    BY <1>2, TriggersAre DEF Room!Guarded
  <1>4. \A i, j \in 1..Len(buffer) : at[buffer[i]] = "held" /\ (buffer[i] = buffer[j] => i = j)
    BY <1>1 DEF HoldsSound, AllHeld
  <1>5. \A i \in 1..Len(buffer) : buffer[i] # m /\ at'[buffer[i]] = "held"
    <2>1. \A i \in 1..Len(buffer) : buffer[i] \in Messages
      BY <1>1, ElementOfSeq
    <2> QED
      BY <1>1, <1>4, <2>1
  <1>6. \A i \in 1..Len(buffer') : i \in 1..Len(buffer) \/ i = Len(buffer) + 1
    BY <1>2
  <1>7. at'[m] = "held"
    BY <1>1
  <1>8. ASSUME NEW i \in 1..Len(buffer'), NEW j \in 1..Len(buffer')
        PROVE  at'[buffer'[i]] = "held" /\ (buffer'[i] = buffer'[j] => i = j)
    BY <1>2, <1>4, <1>5, <1>6, <1>7
  <1>9. AllHeld(buffer)'
    BY <1>8 DEF AllHeld
  <1>10. AllHeld(calls)'
    BY EmptySeq DEF AllHeld
  <1> QED
    BY <1>2, <1>3, <1>9, <1>10, EmptySeq DEF HoldsSound

LEMMA StoreHeldKept ==
    ASSUME Room!ActivationAssumption, RoomInv, NEW m \in Messages, Room!StoreHeld(m)
    PROVE  RoomInv'
PROOF
  <1>0. PICK t : t = Room!Outcome(m, "held")
    OBVIOUS
  <1>1. /\ Room!Commits(m, "store_held") /\ Room!Stored(m, "processable")
        /\ Room!Rests(m, t)
        /\ UNCHANGED <<state, asked, answered, draining, up, faults, crashes>>
    BY <1>0 DEF Room!StoreHeld
  <1>2. /\ buffer' = (IF asked[m] /\ Room!Guarded THEN Append(buffer, m) ELSE buffer)
        /\ calls' = (IF asked[m] /\ ~Room!Guarded THEN <<m>> ELSE calls)
    BY DEF Room!StoreHeld
  <1>3. t \in {"seen", "held"} /\ (t = "held" <=> asked[m])
    BY <1>0 DEF Room!Outcome
  <1>4. /\ Room!TypeOK /\ (asked[m] => m \in Triggers)
        /\ calls = <<>> /\ at[m] = "store_held"
        /\ at' = [at EXCEPT ![m] = t] /\ at'[m] = t
    BY <1>1 DEF RoomInv, AskedSound, Room!Commits, Room!Rests, Room!TypeOK
  <1>5. /\ calls' \in Seq(Triggers) /\ HoldsSound' /\ (Room!Guarded' <=> Room!Guarded)
        /\ Room!Guarded' => buffer' \in Seq(Triggers)
    <2>1. CASE ~asked[m]
      <3>1. UNCHANGED <<buffer, calls>>
        BY <1>2, <2>1
      <3> QED
        BY <1>4, <3>1, HoldsKept DEF Room!TypeOK, Room!Guarded
    <2>2. CASE asked[m] /\ Room!Guarded
      <3>1. buffer' = Append(buffer, m) /\ UNCHANGED calls
        BY <1>2, <2>2
      <3> QED
        BY <1>3, <1>4, <2>2, <3>1, HeldToo DEF Room!TypeOK
    <2>3. CASE asked[m] /\ ~Room!Guarded
      <3>1. UNCHANGED buffer /\ calls' = <<m>>
        BY <1>2, <2>3
      <3> QED
        BY <1>3, <1>4, <2>3, <3>1, HeldAlone DEF Room!Guarded
    <2> QED
      BY <2>1, <2>2, <2>3
  <1>6. "store_held" \in Room!Stores
    BY DEF Room!Stores
  <1>7. /\ at' \in [Messages -> Room!Stages] /\ writes' \in Seq(Messages)
        /\ QueueSound' /\ Room!GuardOwned' /\ OrderSound'
    BY <1>1, <1>3, <1>5, <1>6, StoredAway
  <1>8. /\ row' \in [Messages -> {"absent", "inactive", "processable"}]
        /\ row[m] = "absent" => row'[m] = "processable"
        /\ \A n \in Messages : n # m \/ row[m] # "absent" => row'[n] = row[n]
    BY <1>1, Stores
  <1>9. Room!TypeOK'
    BY <1>1, <1>4, <1>5, <1>7, <1>8 DEF Room!TypeOK
  <1>10. "seen" \notin Room!Prelude
    BY DEF Room!Prelude, Room!PreludeWrites
  <1>11. AskedSound'
    BY <1>1, <1>3, <1>4, <1>10, AskedKept
  <1>12. RowsSound'
    BY <1>1, <1>3, <1>4, <1>8, RowsKept
  <1>13. FaultsSound'
    BY <1>1, <1>3, <1>4, <1>5, FaultsKept
  <1> QED
    BY <1>5, <1>7, <1>9, <1>11, <1>12, <1>13 DEF RoomInv

LEMMA StoreStrandedKept ==
    ASSUME Room!ActivationAssumption, RoomInv, NEW m \in Messages, Room!StoreStranded(m)
    PROVE  RoomInv'
PROOF
  <1>1. /\ Room!Commits(m, "store_stranded") /\ Room!Stored(m, "processable")
        /\ Room!Goes(m, "reset_stranded")
        /\ UNCHANGED <<state, buffer, calls, asked, answered, draining, up, faults, crashes>>
    BY DEF Room!StoreStranded
  <1>2. /\ "store_stranded" \in Writing \ Room!Prelude
               /\ "reset_stranded" \in Writing \ Room!Prelude
        /\ (Room!Guarded' <=> Room!Guarded)
    BY <1>1 DEF Writing, Room!Stores, Room!Guarded, Room!Prelude, Room!PreludeWrites
  <1>3. /\ calls = <<>> /\ at[m] = "store_stranded" /\ at' = [at EXCEPT ![m] = "reset_stranded"]
        /\ at' \in [Messages -> Room!Stages] /\ writes' \in Seq(Messages) /\ QueueSound'
        /\ \A n, k : n # m /\ Ahead(n, k) => Ahead(n, k)'
    BY <1>1, <1>2, GoesOn
  <1>4. /\ row' \in [Messages -> {"absent", "inactive", "processable"}]
        /\ row[m] = "absent" => row'[m] = "processable"
        /\ \A n \in Messages : n # m \/ row[m] # "absent" => row'[n] = row[n]
    BY <1>1, Stores
  <1>5. Room!TypeOK'
    BY <1>1, <1>3, <1>4 DEF RoomInv, Room!TypeOK, Room!Guarded
  <1>6. HoldsSound' /\ AskedSound' /\ Room!GuardOwned'
    BY <1>1, <1>2, <1>3, HoldsKept, AskedKept, GuardKept
  <1>7. RowsSound' /\ FaultsSound'
    BY <1>1, <1>2, <1>3, <1>4, RowsKept, FaultsKept
  <1>8. OrderSound'
    <2>1. at \in [Messages -> Room!Stages] /\ OrderSound
      BY DEF RoomInv, Room!TypeOK
    <2>2. /\ at'[m] = "reset_stranded"
          /\ \A n \in Messages : n # m => at'[n] = at[n]
      BY <1>3, <2>1
    <2>3. /\ state' # "active"
          /\ \A k \in Messages : at[k] \notin Room!Prelude \ {"activating", "resetting"}
      BY <1>1, <1>3, <2>1 DEF OrderSound, Stranded
    <2>4. \A k \in Messages : at'[k] \notin Room!Prelude \ {"activating", "resetting"}
      BY <1>2, <2>2, <2>3
    <2>5. "routing" \in Room!Prelude
      BY DEF Room!Prelude, Room!PreludeWrites
    <2>6. ASSUME NEW k \in Messages, NEW n \in Messages, at'[k] = "activating",
                 at'[n] \in {"store_inactive", "store_stranded"}
          PROVE  Ahead(n, k)'
      <3>1. n # m /\ k # m
        BY <2>2, <2>6
      <3>2. Ahead(n, k)
        BY <2>1, <2>2, <2>6, <3>1 DEF OrderSound
      <3> QED
        BY <1>3, <3>1, <3>2
    <2> QED
      BY <2>3, <2>4, <2>5, <2>6 DEF OrderSound
  <1> QED
    BY <1>3, <1>5, <1>6, <1>7, <1>8 DEF RoomInv

LEMMA ResetStrandedKept ==
    ASSUME Room!ActivationAssumption, RoomInv, NEW m \in Messages, Room!ResetStranded(m)
    PROVE  RoomInv'
PROOF
  <1>0. PICK t : t = Room!Outcome(m, "held")
    OBVIOUS
  <1>1. /\ Room!Commits(m, "reset_stranded") /\ state' = "inactive"
        /\ Room!Rests(m, t) /\ calls' = (IF asked[m] THEN <<m>> ELSE calls)
        /\ UNCHANGED <<row, buffer, asked, answered, draining, up, faults, crashes>>
    BY <1>0 DEF Room!ResetStranded
  <1>2. "reset_stranded" \in Room!Stores /\ (Room!Guarded' <=> Room!Guarded)
    BY <1>1 DEF Room!Stores, Room!Guarded
  <1>3. t \in {"seen", "held"} /\ (t = "held" <=> asked[m])
    BY <1>0 DEF Room!Outcome
  <1>4. /\ calls = <<>> /\ at[m] = "reset_stranded" /\ at' = [at EXCEPT ![m] = t]
        /\ at' \in [Messages -> Room!Stages] /\ writes' \in Seq(Messages)
        /\ QueueSound' /\ Room!GuardOwned' /\ OrderSound'
    BY <1>1, <1>2, <1>3, StoredAway
  <1>5. Room!TypeOK /\ (asked[m] => m \in Triggers) /\ at'[m] = t
    BY <1>4 DEF RoomInv, AskedSound, Room!TypeOK
  <1>6. calls' \in Seq(Triggers) /\ HoldsSound'
    <2>1. CASE ~asked[m]
      <3>1. UNCHANGED <<buffer, calls>>
        BY <1>1, <2>1
      <3> QED
        BY <1>4, <1>5, <3>1, HoldsKept DEF Room!TypeOK
    <2>2. CASE asked[m]
      <3>1. UNCHANGED buffer /\ calls' = <<m>>
        BY <1>1, <2>2
      <3> QED
        BY <1>3, <1>4, <1>5, <2>2, <3>1, HeldAlone
    <2> QED
      BY <2>1, <2>2
  <1>7. Room!TypeOK'
    BY <1>1, <1>4, <1>5, <1>6 DEF Room!TypeOK, Room!Guarded
  <1>8. "seen" \notin Room!Prelude
    BY DEF Room!Prelude, Room!PreludeWrites
  <1>9. AskedSound'
    BY <1>1, <1>3, <1>4, <1>8, AskedKept
  <1>10. RowsSound'
    BY <1>1, <1>3, <1>4, RowsKept
  <1>11. FaultsSound'
    BY <1>1, <1>2, <1>3, <1>4, FaultsKept
  <1> QED
    BY <1>4, <1>6, <1>7, <1>9, <1>10, <1>11 DEF RoomInv

\* While a prelude runs, there is one.
LEMMA PreludeIs ==
    ASSUME RoomInv, NEW m \in Messages, at[m] \in Room!Prelude
    PROVE  /\ Room!Guarded /\ state # "active" /\ asked[m] /\ m \in Triggers
           /\ \A n \in Messages : n # m => at[n] \notin Room!Prelude
           /\ at \in [Messages -> Room!Stages] /\ buffer \in Seq(Triggers)
           /\ answered[m] = 0
PROOF
  <1>1. "accepted" \notin Room!Prelude
    BY DEF Room!Prelude, Room!PreludeWrites
  <1> QED
    BY <1>1 DEF RoomInv, AskedSound, OrderSound, Room!GuardOwned, Room!TypeOK

\* Once the trigger is routed, everything that was gated before the guard stood is stored.
LEMMA LaterStages ==
    ASSUME RoomInv, NEW m \in Messages,
           at[m] \in Room!Prelude \ {"activating", "routing", "resetting"}
    PROVE  \A n \in Messages : at[n] \notin {"store_inactive"} \cup Stranded
  BY DEF RoomInv, OrderSound

\* The prelude goes on to its next stage.
LEMMA StageMoves ==
    ASSUME RoomInv, NEW m \in Messages, at[m] \in Room!Prelude, NEW t \in Room!Prelude,
           at' = [at EXCEPT ![m] = t], UNCHANGED <<buffer, calls, asked, answered>>
    PROVE  HoldsSound' /\ AskedSound' /\ Room!GuardOwned'
PROOF
  <1>1. at[m] \notin {"held", "accepted"} /\ t \notin {"held", "accepted"}
    BY DEF Room!Prelude, Room!PreludeWrites
  <1>2. asked[m]
    BY PreludeIs
  <1>3. Room!Guarded' <=> Room!Guarded
    BY DEF Room!Guarded
  <1> QED
    BY <1>1, <1>2, <1>3, HoldsKept, AskedKept, GuardKept

\* The rows are as the next stage needs them.
LEMMA RowsOf ==
    ASSUME RoomInv, NEW m \in Messages, at[m] \in Room!Prelude, NEW t,
           at' = [at EXCEPT ![m] = t],
           state' = "active" \/ t = "promoting" => \A n \in Messages : row'[n] # "inactive",
           t \in {"backfilling", "grouping", "readying"} => row'[m] = "processable",
           t = "readying" => \A n \in Grouped[m] : row'[n] # "inactive"
    PROVE  RowsSound'
PROOF
  <1>1. {"promoting", "backfilling", "grouping", "readying"} \subseteq Room!Prelude
    BY DEF Room!Prelude, Room!PreludeWrites
  <1>2. at'[m] = t /\ \A n \in Messages : n # m => at'[n] \notin Room!Prelude
    BY PreludeIs
  <1>3. \A n \in Messages : at'[n] \in {"promoting", "backfilling", "grouping", "readying"}
            => n = m
    BY <1>1, <1>2
  <1>4. \A n \in Messages : at'[n] = "readying" \/ at'[n] = "promoting" => n = m
    BY <1>3
  <1> QED
    BY <1>2, <1>3, <1>4 DEF RowsSound

\* While it runs, nothing is wrong with a timeline that reads activating.
LEMMA FaultsOf ==
    ASSUME RoomInv, NEW m \in Messages, at[m] \in Room!Prelude, NEW t,
           at' = [at EXCEPT ![m] = t], UNCHANGED buffer,
           t = "resetting" => faults' >= 1, faults' \in {faults, faults + 1}
    PROVE  FaultsSound'
PROOF
  <1>1. Room!Guarded'
    BY PreludeIs DEF Room!Guarded
  <1>2. /\ at'[m] = t /\ \A n \in Messages : n # m => at'[n] = at[n]
        /\ faults \in Nat /\ FaultsSound
    BY PreludeIs DEF RoomInv, Room!TypeOK
  <1>3. "resetting" \in Room!Prelude
    BY DEF Room!Prelude, Room!PreludeWrites
  <1>4. \A n \in Messages : at'[n] = "resetting" => n = m
    BY <1>2, <1>3, PreludeIs
  <1> QED
    BY <1>1, <1>2, <1>4 DEF FaultsSound, Room!NotLeftActivating

LEMMA ActivateKept ==
    ASSUME Room!ActivationAssumption, RoomInv, NEW m \in Messages, Room!Activate(m)
    PROVE  RoomInv'
PROOF
  <1>1. /\ Room!Commits(m, "activating") /\ Room!Goes(m, "routing") /\ state' = "activating"
        /\ UNCHANGED <<row, buffer, calls, asked, answered, draining, up, faults, crashes>>
    BY DEF Room!Activate
  <1>2. /\ "activating" \in Writing /\ "routing" \in Writing
        /\ "activating" \in Room!Prelude /\ "routing" \in Room!Prelude
    BY DEF Writing, Room!Prelude, Room!PreludeWrites
  <1>3. /\ calls = <<>> /\ at[m] = "activating" /\ at' = [at EXCEPT ![m] = "routing"]
        /\ at' \in [Messages -> Room!Stages] /\ writes' \in Seq(Messages) /\ QueueSound'
        /\ \A n : ~Ahead(n, m)
        /\ \A n \in Messages : n # m /\ at[n] \in Writing => Ahead(n, m)'
    BY <1>1, <1>2, GoesOn
  <1>4. Room!TypeOK'
    BY <1>1, <1>3 DEF RoomInv, Room!TypeOK, Room!Guarded
  <1>5. HoldsSound' /\ AskedSound' /\ Room!GuardOwned'
    BY <1>1, <1>2, <1>3, StageMoves
  <1>6. RowsSound' /\ FaultsSound'
    BY <1>1, <1>2, <1>3, RowsOf, FaultsOf
  <1>7. OrderSound'
    <2>1. /\ at'[m] = "routing" /\ \A n \in Messages : n # m => at'[n] = at[n]
          /\ \A n \in Messages : at'[n] \in Room!Prelude => n = m
      BY <1>2, <1>3, PreludeIs
    <2>2. \A n \in Messages : at[n] \notin {"store_inactive", "store_stranded"}
      BY <1>3 DEF RoomInv, OrderSound
    <2>3. \A n \in Messages : /\ at'[n] \notin {"store_inactive", "store_stranded"}
                              /\ at'[n] = "reset_stranded" => Ahead(n, m)'
      BY <1>3, <2>1, <2>2 DEF Writing, Room!Stores
    <2>4. ASSUME NEW k \in Messages, NEW n \in Messages
          PROVE  /\ at'[k] # "activating"
                 /\ at'[k] = "routing" => /\ at'[n] \notin {"store_inactive", "store_stranded"}
                                          /\ at'[n] = "reset_stranded" => Ahead(n, k)'
                 /\ at'[k] \notin Room!Prelude \ {"activating", "routing", "resetting"}
      BY <1>2, <2>1, <2>3
    <2> QED
      BY <1>1, <2>4 DEF OrderSound
  <1> QED
    BY <1>3, <1>4, <1>5, <1>6, <1>7 DEF RoomInv

\* A stage that changes rows only, and is not the last.
LEMMA StageKept ==
    ASSUME Room!ActivationAssumption, RoomInv, NEW m \in Messages, at[m] \in Room!Prelude,
           NEW t \in Room!Prelude \ {"activating", "routing"}, at' = [at EXCEPT ![m] = t],
           t = "resetting" \/ \A n \in Messages : at[n] \notin {"store_inactive"} \cup Stranded,
           row' \in [Messages -> {"absent", "inactive", "processable"}],
           writes' \in Seq(Messages), QueueSound',
           t = "promoting" => \A n \in Messages : row'[n] # "inactive",
           t \in {"backfilling", "grouping", "readying"} => row'[m] = "processable",
           t = "readying" => \A n \in Grouped[m] : row'[n] # "inactive",
           t = "resetting" => faults' >= 1, faults' \in {faults, faults + 1},
           faults' \in 0..MaxFaults,
           UNCHANGED <<state, buffer, calls, asked, answered, draining, up, crashes>>
    PROVE  RoomInv'
PROOF
  <1>1. state' # "active" /\ at \in [Messages -> Room!Stages]
    BY PreludeIs
  <1>2. Room!TypeOK'
    <2>1. t \in Room!Stages
      BY DEF Room!Stages
    <2>2. at' \in [Messages -> Room!Stages]
      BY <1>1, <2>1
    <2> QED
      BY <2>2 DEF RoomInv, Room!TypeOK, Room!Guarded
  <1>3. HoldsSound' /\ AskedSound' /\ Room!GuardOwned'
    BY StageMoves
  <1>4. OrderSound'
    BY <1>1, OrderSettled
  <1>5. RowsSound'
    BY <1>1, RowsOf
  <1>6. FaultsSound'
    BY FaultsOf
  <1> QED
    BY <1>2, <1>3, <1>4, <1>5, <1>6 DEF RoomInv

LEMMA RouteKept ==
    ASSUME Room!ActivationAssumption, RoomInv, NEW m \in Messages, Room!Route(m)
    PROVE  RoomInv'
PROOF
  <1>1. /\ Room!Commits(m, "routing") /\ Room!Stored(m, "processable")
        /\ IF row[m] = "absent" THEN Room!Rests(m, "backfilling") ELSE Room!Goes(m, "marking")
        /\ UNCHANGED <<state, buffer, calls, asked, answered, draining, up, faults, crashes>>
    BY DEF Room!Route
  <1>2. /\ "routing" \in Writing /\ "marking" \in Writing
        /\ "backfilling" \in Room!Stages \ Writing
        /\ "routing" \in Room!Prelude
        /\ "marking" \in Room!Prelude \ {"activating", "routing"}
        /\ "backfilling" \in Room!Prelude \ {"activating", "routing"}
    BY DEF Writing, Room!Prelude, Room!PreludeWrites, Room!Stores, Room!Stages
  <1>3. /\ row' \in [Messages -> {"absent", "inactive", "processable"}]
        /\ row[m] = "absent" => row'[m] = "processable"
    BY <1>1, Stores
  <1>4. at[m] = "routing" /\ faults \in 0..MaxFaults
    BY <1>1 DEF Room!Commits, RoomInv, Room!TypeOK
  <1>5. ASSUME \A n : ~Ahead(n, m)
        PROVE  \A n \in Messages : at[n] \notin {"store_inactive"} \cup Stranded
    BY <1>4, <1>5 DEF RoomInv, OrderSound, Stranded
  <1>6. CASE row[m] = "absent"
    <2>1. Room!Rests(m, "backfilling")
      BY <1>1, <1>6
    <2>2. /\ at' = [at EXCEPT ![m] = "backfilling"]
          /\ writes' \in Seq(Messages) /\ QueueSound' /\ \A n : ~Ahead(n, m)
      BY <1>1, <1>2, <2>1, RestsAt
    <2> QED
      BY <1>1, <1>2, <1>3, <1>4, <1>5, <1>6, <2>2, StageKept
  <1>7. CASE row[m] # "absent"
    <2>1. Room!Goes(m, "marking")
      BY <1>1, <1>7
    <2>2. /\ at' = [at EXCEPT ![m] = "marking"]
          /\ writes' \in Seq(Messages) /\ QueueSound' /\ \A n : ~Ahead(n, m)
      BY <1>1, <1>2, <2>1, GoesOn
    <2> QED
      BY <1>1, <1>2, <1>3, <1>4, <1>5, <2>2, StageKept
  <1> QED
    BY <1>6, <1>7

LEMMA MarkKept ==
    ASSUME Room!ActivationAssumption, RoomInv, NEW m \in Messages, Room!Mark(m)
    PROVE  RoomInv'
PROOF
  <1>1. /\ Room!Commits(m, "marking") /\ Room!Rests(m, "backfilling")
        /\ row' = [row EXCEPT ![m] = "processable"]
        /\ UNCHANGED <<state, buffer, calls, asked, answered, draining, up, faults, crashes>>
    BY DEF Room!Mark
  <1>2. /\ "marking" \in Writing /\ "backfilling" \in Room!Stages \ Writing
        /\ "marking" \in Room!Prelude \ {"activating", "routing", "resetting"}
        /\ "backfilling" \in Room!Prelude \ {"activating", "routing"}
    BY DEF Writing, Room!Prelude, Room!PreludeWrites, Room!Stores, Room!Stages
  <1>3. /\ at[m] = "marking" /\ at' = [at EXCEPT ![m] = "backfilling"]
        /\ writes' \in Seq(Messages) /\ QueueSound'
    BY <1>1, <1>2, RestsAt
  <1>4. /\ row' \in [Messages -> {"absent", "inactive", "processable"}]
        /\ row'[m] = "processable" /\ faults \in 0..MaxFaults
    BY <1>1 DEF RoomInv, Room!TypeOK
  <1>5. \A n \in Messages : at[n] \notin {"store_inactive"} \cup Stranded
    BY <1>2, <1>3, LaterStages
  <1> QED
    BY <1>1, <1>2, <1>3, <1>4, <1>5, StageKept

LEMMA BackfillKept ==
    ASSUME Room!ActivationAssumption, RoomInv, NEW m \in Messages, Room!Backfill(m)
    PROVE  RoomInv'
PROOF
  <1>1. /\ at[m] = "backfilling" /\ at' = [at EXCEPT ![m] = "grouping"]
        /\ writes' = Append(writes, m)
        /\ UNCHANGED <<state, buffer, calls, asked, answered, draining, up, faults, crashes>>
    BY DEF Room!Backfill
  <1>2. PICK S \in SUBSET {n \in Messages : row[n] = "absent"} :
            row' = [n \in Messages |-> IF n \in S THEN "inactive" ELSE row[n]]
    BY DEF Room!Backfill
  <1>3. /\ "backfilling" \notin Writing /\ "grouping" \in Writing
        /\ "backfilling" \in Room!Prelude \ {"activating", "routing", "resetting"}
        /\ "grouping" \in Room!Prelude \ {"activating", "routing"}
    BY DEF Writing, Room!Prelude, Room!PreludeWrites, Room!Stores
  <1>4. writes' \in Seq(Messages) /\ QueueSound'
    BY <1>1, <1>3, Awaits
  <1>5. row[m] = "processable" /\ faults \in 0..MaxFaults
    BY <1>1 DEF RoomInv, RowsSound, Room!TypeOK
  <1>6. row' \in [Messages -> {"absent", "inactive", "processable"}] /\ row'[m] = "processable"
    BY <1>2, <1>5 DEF RoomInv, Room!TypeOK
  <1>7. \A n \in Messages : at[n] \notin {"store_inactive"} \cup Stranded
    BY <1>1, <1>3, LaterStages
  <1> QED
    BY <1>1, <1>3, <1>4, <1>5, <1>6, <1>7, StageKept

LEMMA GroupKept ==
    ASSUME Room!ActivationAssumption, RoomInv, NEW m \in Messages, Room!Group(m)
    PROVE  RoomInv'
PROOF
  <1>1. /\ Room!Commits(m, "grouping") /\ Room!Rests(m, "readying")
        /\ row' = [n \in Messages |-> IF n \in Grouped[m] /\ row[n] = "inactive"
                                      THEN "processable" ELSE row[n]]
        /\ UNCHANGED <<state, buffer, calls, asked, answered, draining, up, faults, crashes>>
    BY DEF Room!Group
  <1>2. /\ "grouping" \in Writing /\ "readying" \in Room!Stages \ Writing
        /\ "grouping" \in Room!Prelude \ {"activating", "routing", "resetting"}
        /\ "readying" \in Room!Prelude \ {"activating", "routing"}
    BY DEF Writing, Room!Prelude, Room!PreludeWrites, Room!Stores, Room!Stages
  <1>3. /\ at[m] = "grouping" /\ at' = [at EXCEPT ![m] = "readying"]
        /\ writes' \in Seq(Messages) /\ QueueSound'
    BY <1>1, <1>2, RestsAt
  <1>4. row[m] = "processable" /\ faults \in 0..MaxFaults
    BY <1>3 DEF RoomInv, RowsSound, Room!TypeOK
  <1>5. Grouped[m] \subseteq Messages
    BY <1>2, <1>3, GroupIs
  <1>6. /\ row' \in [Messages -> {"absent", "inactive", "processable"}]
        /\ row'[m] = "processable" /\ \A n \in Grouped[m] : row'[n] # "inactive"
    BY <1>1, <1>4, <1>5 DEF RoomInv, Room!TypeOK
  <1>7. \A n \in Messages : at[n] \notin {"store_inactive"} \cup Stranded
    BY <1>2, <1>3, LaterStages
  <1> QED
    BY <1>1, <1>2, <1>3, <1>4, <1>6, <1>7, StageKept

LEMMA FlipKept ==
    ASSUME Room!ActivationAssumption, RoomInv, NEW m \in Messages, Room!Flip(m)
    PROVE  RoomInv'
PROOF
  <1>1. /\ Room!Commits(m, "flipping") /\ Room!Goes(m, "promoting")
        /\ row' = [n \in Messages |-> IF row[n] = "inactive" THEN "processable" ELSE row[n]]
        /\ UNCHANGED <<state, buffer, calls, asked, answered, draining, up, faults, crashes>>
    BY DEF Room!Flip
  <1>2. /\ "flipping" \in Writing /\ "promoting" \in Writing
        /\ "flipping" \in Room!Prelude \ {"activating", "routing", "resetting"}
        /\ "promoting" \in Room!Prelude \ {"activating", "routing"}
    BY DEF Writing, Room!Prelude, Room!PreludeWrites, Room!Stores
  <1>3. /\ at[m] = "flipping" /\ at' = [at EXCEPT ![m] = "promoting"]
        /\ writes' \in Seq(Messages) /\ QueueSound'
    BY <1>1, <1>2, GoesOn
  <1>4. /\ row' \in [Messages -> {"absent", "inactive", "processable"}]
        /\ \A n \in Messages : row'[n] # "inactive"
        /\ faults \in 0..MaxFaults
    BY <1>1 DEF RoomInv, Room!TypeOK
  <1>5. \A n \in Messages : at[n] \notin {"store_inactive"} \cup Stranded
    BY <1>2, <1>3, LaterStages
  <1> QED
    BY <1>1, <1>2, <1>3, <1>4, <1>5, StageKept

\* The end of a prelude: the guard goes, and what it held is dispatched.
LEMMA Replays ==
    ASSUME Room!ActivationAssumption, RoomInv, NEW m \in Messages, at[m] \in Room!Prelude,
           calls = <<>>, NEW t, t \notin Room!Prelude, at' = [at EXCEPT ![m] = t],
           calls' = buffer, buffer' = NoBuffer
    PROVE  /\ calls' \in Seq(Triggers) /\ HoldsSound' /\ Room!GuardOwned' /\ ~Room!Guarded'
           /\ \A n \in Messages : at'[n] \notin Room!Prelude
PROOF
  <1>1. /\ Room!Guarded /\ at \in [Messages -> Room!Stages] /\ buffer \in Seq(Triggers)
        /\ \A n \in Messages : n # m => at[n] \notin Room!Prelude
        /\ HoldsSound
    BY PreludeIs DEF RoomInv
  <1>2. "held" \notin Room!Prelude
    BY DEF Room!Prelude, Room!PreludeWrites
  <1>3. \A i, j \in 1..Len(buffer) : at[buffer[i]] = "held" /\ (buffer[i] = buffer[j] => i = j)
    BY <1>1 DEF HoldsSound, AllHeld
  <1>4. \A i \in 1..Len(buffer) : buffer[i] \in Messages
    BY <1>1, ElementOfSeq DEF Room!ActivationAssumption
  <1>5. \A i \in 1..Len(buffer) : at'[buffer[i]] = "held"
    BY <1>1, <1>2, <1>3, <1>4
  <1>6. AllHeld(calls)'
    BY <1>3, <1>5 DEF AllHeld
  <1>7. ~Room!Guarded'
    BY DEF Room!Guarded
  <1>8. \A n \in Messages : at'[n] \notin Room!Prelude
    BY <1>1
  <1> QED
    BY <1>1, <1>6, <1>7, <1>8 DEF HoldsSound, Room!GuardOwned

LEMMA PromoteKept ==
    ASSUME Room!ActivationAssumption, RoomInv, NEW m \in Messages, Room!Promote(m)
    PROVE  RoomInv'
PROOF
  <1>1. /\ Room!Commits(m, "promoting") /\ Room!Rests(m, "accepted") /\ state' = "active"
        /\ answered' = [answered EXCEPT ![m] = @ + 1]
        /\ calls' = buffer /\ buffer' = NoBuffer
        /\ UNCHANGED <<row, asked, draining, up, faults, crashes>>
    BY DEF Room!Promote
  <1>2. /\ "promoting" \in Writing /\ "accepted" \in Room!Stages \ Writing
        /\ "promoting" \in Room!Prelude \ {"activating", "routing", "resetting"}
        /\ "accepted" \notin Room!Prelude \cup {"store_inactive"} \cup Stranded
    BY DEF Writing, Room!Prelude, Room!PreludeWrites, Room!Stores, Room!Stages, Room!Settled,
           Stranded
  <1>3. /\ at[m] = "promoting" /\ at' = [at EXCEPT ![m] = "accepted"] /\ calls = <<>>
        /\ at' \in [Messages -> Room!Stages] /\ writes' \in Seq(Messages) /\ QueueSound'
    BY <1>1, <1>2, RestsAt
  <1>4. /\ calls' \in Seq(Triggers) /\ HoldsSound' /\ Room!GuardOwned' /\ ~Room!Guarded'
        /\ \A n \in Messages : at'[n] \notin Room!Prelude
    BY <1>1, <1>2, <1>3, Replays
  <1>5. /\ Room!TypeOK /\ RowsSound /\ OrderSound /\ AskedSound /\ FaultsSound
        /\ at \in [Messages -> Room!Stages]
    BY DEF RoomInv, Room!TypeOK
  <1>6. /\ at'[m] = "accepted" /\ \A n \in Messages : n # m => at'[n] = at[n]
        /\ asked[m] /\ answered[m] = 0
    BY <1>2, <1>3, PreludeIs
  <1>7. answered' \in [Messages -> Nat] /\ answered'[m] = 1
        /\ \A n \in Messages : n # m => answered'[n] = answered[n]
    BY <1>1, <1>5, <1>6 DEF Room!TypeOK
  <1>8. Room!TypeOK'
    BY <1>1, <1>3, <1>4, <1>5, <1>7 DEF Room!TypeOK
  <1>9. AskedSound'
    <2>1. ASSUME NEW n \in Messages
          PROVE  /\ asked'[n] => n \in Triggers
                 /\ at'[n] \in Room!Prelude \cup {"held", "accepted"} => asked'[n]
                 /\ answered'[n] = (IF at'[n] = "accepted" THEN 1 ELSE 0)
      <3>1. CASE n = m
        BY <1>1, <1>5, <1>6, <1>7, <3>1 DEF AskedSound
      <3>2. CASE n # m
        BY <1>1, <1>5, <1>6, <1>7, <3>2 DEF AskedSound
      <3> QED
        BY <3>1, <3>2
    <2> QED
      BY <2>1 DEF AskedSound
  <1>10. OrderSound'
    <2>1. \A n \in Messages : at[n] \notin {"store_inactive"} \cup Stranded
      BY <1>2, <1>3, LaterStages
    <2>2. \A n \in Messages : at'[n] \notin {"store_inactive"} \cup Stranded
      BY <1>2, <1>6, <2>1
    <2>3. "activating" \in Room!Prelude /\ "routing" \in Room!Prelude
      BY DEF Room!Prelude, Room!PreludeWrites
    <2> QED
      BY <1>4, <2>2, <2>3 DEF OrderSound
  <1>11. RowsSound'
    <2>1. \A n \in Messages : row[n] # "inactive"
      BY <1>3, <1>5 DEF RowsSound
    <2>2. {"backfilling", "grouping", "readying"} \subseteq Room!Prelude
      BY DEF Room!Prelude, Room!PreludeWrites
    <2>3. \A n \in Messages : at'[n] \notin {"backfilling", "grouping", "readying"}
      BY <1>4, <2>2
    <2> QED
      BY <1>1, <2>1, <2>3 DEF RowsSound
  <1>12. FaultsSound'
    <2>1. \A n \in Messages : at'[n] # "resetting"
      BY <1>4 DEF Room!Prelude, Room!PreludeWrites
    <2> QED
      BY <1>1, <2>1 DEF FaultsSound, Room!NotLeftActivating
  <1> QED
    BY <1>3, <1>4, <1>8, <1>9, <1>10, <1>11, <1>12 DEF RoomInv

\* A prelude that is given up; its timeline reads activating still only if the reset rejected.
LEMMA AbandonKept ==
    ASSUME Room!ActivationAssumption, RoomInv, NEW m \in Messages,
           Room!Commits(m, "resetting"), Room!Abandon(m),
           \/ state' = "inactive" /\ faults' = faults
           \/ UNCHANGED state /\ faults' = faults + 1 /\ faults < MaxFaults,
           UNCHANGED <<row, asked, answered, draining, up, crashes>>
    PROVE  RoomInv'
PROOF
  <1>1. Room!Rests(m, "failed") /\ calls' = buffer /\ buffer' = NoBuffer
    BY DEF Room!Abandon
  <1>2. /\ "resetting" \in Writing /\ "failed" \in Room!Stages \ Writing
        /\ "resetting" \in Room!Prelude /\ "failed" \notin Room!Prelude
        /\ "failed" \notin {"store_inactive"} \cup Stranded
    BY DEF Writing, Room!Prelude, Room!PreludeWrites, Room!Stores, Room!Stages, Room!Settled,
           Stranded
  <1>3. /\ at[m] = "resetting" /\ at' = [at EXCEPT ![m] = "failed"] /\ calls = <<>>
        /\ at' \in [Messages -> Room!Stages] /\ writes' \in Seq(Messages) /\ QueueSound'
        /\ \A n, k : n # m /\ Ahead(n, k) => Ahead(n, k)'
    BY <1>1, <1>2, RestsAt
  <1>4. /\ calls' \in Seq(Triggers) /\ HoldsSound' /\ Room!GuardOwned' /\ ~Room!Guarded'
        /\ \A n \in Messages : at'[n] \notin Room!Prelude
    BY <1>1, <1>2, <1>3, Replays
  <1>5. /\ Room!TypeOK /\ FaultsSound /\ faults \in Nat /\ faults' \in 0..MaxFaults
        /\ state \in {"inactive", "activating", "active"} /\ state # "active"
    BY <1>2, <1>3, PreludeIs DEF RoomInv, Room!TypeOK, Room!ActivationAssumption
  <1>6. Room!TypeOK'
    BY <1>3, <1>4, <1>5 DEF Room!TypeOK
  <1>7. AskedSound'
    BY <1>2, <1>3, AskedKept
  <1>8. OrderSound'
    BY <1>2, <1>3, <1>5, OrderKept
  <1>9. RowsSound'
    BY <1>3, <1>5, RowsKept
  <1>10. FaultsSound'
    <2>1. \A n \in Messages : at'[n] # "resetting"
      BY <1>2, <1>4
    <2>2. faults >= 1
      BY <1>3, <1>5 DEF FaultsSound
    <2>3. state' = "activating" => faults' >= 2
      BY <1>5, <2>2
    <2> QED
      BY <2>1, <2>3 DEF FaultsSound, Room!NotLeftActivating
  <1> QED
    BY <1>3, <1>4, <1>6, <1>7, <1>8, <1>9, <1>10 DEF RoomInv

LEMMA ResetKept ==
    ASSUME Room!ActivationAssumption, RoomInv, NEW m \in Messages, Room!Reset(m)
    PROVE  RoomInv'
  BY AbandonKept DEF Room!Reset

LEMMA WriteRejectsKept ==
    ASSUME Room!ActivationAssumption, RoomInv, Room!WriteRejects
    PROVE  RoomInv'
PROOF
  <1>0. PICK m : m = Head(writes)
    OBVIOUS
  <1>1. /\ calls = <<>> /\ writes # <<>> /\ faults < MaxFaults /\ faults' = faults + 1
        /\ UNCHANGED <<state, row, asked, answered, draining, up, crashes>>
        /\ \/ Room!PreludeFails(m)
           \/ /\ at[m] = "reset_stranded" /\ Room!Rests(m, Room!Outcome(m, "dropped"))
              /\ UNCHANGED <<buffer, calls>>
           \/ /\ at[m] \in Room!Stores \ {"reset_stranded"}
              /\ Room!Rests(m, Room!Outcome(m, "failed"))
              /\ UNCHANGED <<buffer, calls>>
    BY <1>0 DEF Room!WriteRejects
  <1>2. m \in Messages /\ Room!Commits(m, at[m])
    <2>1. writes \in Seq(Messages)
      BY DEF RoomInv, Room!TypeOK
    <2> QED
      BY <1>0, <1>1, <2>1, TailIs DEF Room!Commits
  <1>3. CASE Room!PreludeFails(m)
    <2>1. CASE at[m] = "resetting" /\ Room!Abandon(m)
      BY <1>1, <1>2, <2>1, AbandonKept
    <2>2. CASE /\ at[m] \in Room!PreludeWrites \ {"resetting"} /\ Room!Goes(m, "resetting")
               /\ UNCHANGED <<buffer, calls>>
      <3>1. /\ at[m] \in Writing /\ "resetting" \in Writing /\ at[m] \in Room!Prelude
            /\ "resetting" \in Room!Prelude \ {"activating", "routing"}
        BY <2>2 DEF Writing, Room!Prelude, Room!PreludeWrites
      <3>2. /\ at' = [at EXCEPT ![m] = "resetting"]
            /\ writes' \in Seq(Messages) /\ QueueSound'
        BY <1>2, <2>2, <3>1, GoesOn
      <3>3. /\ faults \in Nat /\ faults' \in 0..MaxFaults /\ faults' >= 1
            /\ row \in [Messages -> {"absent", "inactive", "processable"}]
        BY <1>1 DEF RoomInv, Room!TypeOK, Room!ActivationAssumption
      <3> QED
        BY <1>1, <1>2, <2>2, <3>1, <3>2, <3>3, StageKept
    <2> QED
      BY <1>3, <2>1, <2>2 DEF Room!PreludeFails
  <1>4. CASE at[m] \in Room!Stores /\ ~Room!PreludeFails(m)
    <2>1. PICK t \in {"seen", "failed", "dropped"} :
              Room!Rests(m, t) /\ UNCHANGED <<buffer, calls>>
      BY <1>1, <1>4 DEF Room!Outcome
    <2> QED
      BY <1>0, <1>1, <1>2, <1>4, <2>1, StoreRejects
  <1> QED
    BY <1>1, <1>3, <1>4 DEF Room!Stores

\* The trigger's readiness is awaited no longer: the backlog is flipped, or, in a shutdown,
\* the prelude ends there, with what it held.
LEMMA ReadyKept ==
    ASSUME Room!ActivationAssumption, RoomInv, NEW m \in Messages, Room!Ready(m)
    PROVE  RoomInv'
PROOF
  <1>1. /\ calls = <<>> /\ at[m] = "readying"
        /\ UNCHANGED <<state, row, calls, asked, answered, draining, up, faults, crashes>>
    BY DEF Room!Ready
  <1>2. /\ "readying" \notin Writing /\ "flipping" \in Writing
        /\ "readying" \in Room!Prelude \ {"activating", "routing", "resetting"}
        /\ "flipping" \in Room!Prelude \ {"activating", "routing"}
    BY DEF Writing, Room!Prelude, Room!PreludeWrites, Room!Stores
  <1>3. \A n \in Messages : at[n] \notin {"store_inactive"} \cup Stranded
    BY <1>1, <1>2, LaterStages
  <1>4. CASE /\ at' = [at EXCEPT ![m] = "flipping"] /\ writes' = Append(writes, m)
             /\ UNCHANGED buffer
    <2>1. writes' \in Seq(Messages) /\ QueueSound'
      BY <1>1, <1>2, <1>4, Awaits
    <2>2. faults \in 0..MaxFaults /\ row \in [Messages -> {"absent", "inactive", "processable"}]
      BY DEF RoomInv, Room!TypeOK
    <2> QED
      BY <1>1, <1>2, <1>3, <1>4, <2>1, <2>2, StageKept
  <1>5. CASE /\ draining /\ buffer' = NoBuffer /\ UNCHANGED writes
             /\ at' = [n \in Messages |->
                         IF n = m \/ n \in Room!ToSet(buffer) THEN "lost" ELSE at[n]]
    <2>1. /\ Room!TypeOK /\ HoldsSound /\ AskedSound /\ QueueSound /\ FaultsSound /\ RowsSound
          /\ at \in [Messages -> Room!Stages]
      BY DEF RoomInv, Room!TypeOK
    <2>2. /\ Room!Guarded /\ state # "active" /\ buffer \in Seq(Triggers)
          /\ \A n \in Messages : n # m => at[n] \notin Room!Prelude
      BY <1>1, <1>2, PreludeIs
    <2>3. \A n \in Room!ToSet(buffer) : at[n] = "held"
      BY <2>1, <2>2 DEF HoldsSound, AllHeld, Room!ToSet
    <2>4. ASSUME NEW n \in Messages
          PROVE  \/ at'[n] = at[n] /\ n # m
                 \/ at'[n] = "lost" /\ at[n] \in {"readying", "held"}
      <3>1. at'[n] = IF n = m \/ n \in Room!ToSet(buffer) THEN "lost" ELSE at[n]
        BY <1>5
      <3>2. CASE n = m
        BY <1>1, <3>1, <3>2
      <3>3. CASE n # m /\ n \in Room!ToSet(buffer)
        BY <2>3, <3>1, <3>3
      <3>4. CASE n # m /\ n \notin Room!ToSet(buffer)
        BY <3>1, <3>4
      <3> QED
        BY <3>2, <3>3, <3>4
    <2>5. /\ "lost" \notin Writing \cup Room!Prelude /\ "held" \notin Writing
          /\ "lost" \in Room!Stages
      BY DEF Writing, Room!PreludeWrites, Room!Prelude, Room!Stores, Room!Stages, Room!Settled
    <2>6. \A n \in Messages : at'[n] \notin Room!Prelude
      BY <2>2, <2>4, <2>5
    <2>7. at' \in [Messages -> Room!Stages]
      BY <1>5, <2>1, <2>5
    <2>8. ~Room!Guarded'
      BY <1>5 DEF Room!Guarded
    <2>9. Room!TypeOK'
      BY <1>1, <1>5, <2>1, <2>7, <2>8 DEF Room!TypeOK
    <2>10. QueueSound'
      <3>1. \A n \in Messages : at'[n] \in Writing <=> at[n] \in Writing
        BY <1>2, <2>4, <2>5
      <3> QED
        BY <1>5, <2>1, <3>1 DEF QueueSound, Writing, Waiting
    <2>11. HoldsSound'
      BY <1>1, <2>8, EmptySeq DEF HoldsSound, AllHeld
    <2>12. AskedSound'
      <3>1. ASSUME NEW n \in Messages
            PROVE  /\ asked'[n] => n \in Triggers
                   /\ at'[n] \in Room!Prelude \cup {"held", "accepted"} => asked'[n]
                   /\ answered'[n] = (IF at'[n] = "accepted" THEN 1 ELSE 0)
        <4>1. CASE at'[n] = at[n]
          BY <1>1, <2>1, <4>1 DEF AskedSound
        <4>2. CASE at'[n] = "lost" /\ at[n] \in {"readying", "held"}
          BY <1>1, <2>1, <2>5, <4>2 DEF AskedSound
        <4> QED
          BY <2>4, <4>1, <4>2
      <3> QED
        BY <3>1 DEF AskedSound
    <2>13. Room!GuardOwned'
      BY <2>6, <2>8 DEF Room!GuardOwned
    <2>14. OrderSound'
      <3>1. "activating" \in Room!Prelude /\ "routing" \in Room!Prelude
        BY DEF Room!Prelude, Room!PreludeWrites
      <3> QED
        BY <1>1, <2>2, <2>6, <3>1 DEF OrderSound
    <2>15. RowsSound'
      <3>1. {"promoting", "backfilling", "grouping", "readying"} \subseteq Room!Prelude
        BY DEF Room!Prelude, Room!PreludeWrites
      <3>2. \A n \in Messages :
                at'[n] \notin {"promoting", "backfilling", "grouping", "readying"}
        BY <2>6, <3>1
      <3>3. \A n \in Messages : at'[n] # "promoting" /\ at'[n] # "readying"
        BY <3>2
      <3> QED
        BY <1>1, <2>2, <3>2, <3>3 DEF RowsSound
    <2>16. FaultsSound'
      <3>1. \A n \in Messages : at'[n] = "resetting" => at[n] = "resetting"
        BY <2>4
      <3> QED
        BY <1>1, <1>5, <2>1, <3>1 DEF FaultsSound, Room!NotLeftActivating
    <2> QED
      BY <2>9, <2>10, <2>11, <2>12, <2>13, <2>14, <2>15, <2>16 DEF RoomInv
  <1> QED
    BY <1>4, <1>5 DEF Room!Ready

LEMMA DrainKept ==
    ASSUME RoomInv, Room!Drain
    PROVE  RoomInv'
PROOF
  <1>1. /\ draining' = TRUE
        /\ UNCHANGED <<state, row, buffer, writes, calls, at, asked, answered, up, faults,
             crashes>>
    BY DEF Room!Drain
  <1>2. Room!TypeOK'
    BY <1>1 DEF RoomInv, Room!TypeOK, Room!Guarded
  <1>3. QueueSound' /\ HoldsSound' /\ AskedSound'
    BY <1>1 DEF RoomInv, QueueSound, Waiting, HoldsSound, AllHeld, Room!Guarded, AskedSound
  <1>4. Room!GuardOwned' /\ OrderSound' /\ RowsSound'
    BY <1>1 DEF RoomInv, Room!GuardOwned, Room!Guarded, OrderSound, Ahead, RowsSound
  <1>5. FaultsSound'
    BY <1>1 DEF RoomInv, FaultsSound, Room!NotLeftActivating, Room!Guarded
  <1> QED
    BY <1>2, <1>3, <1>4, <1>5 DEF RoomInv

\* Nothing of the queue, the guard and its buffer outlives the process.
LEMMA CrashKept ==
    ASSUME Room!ActivationAssumption, RoomInv, Room!Crash
    PROVE  RoomInv'
PROOF
  <1> DEFINE Rest == Room!Settled \cup {"out", "seen"}
  <1>1. /\ calls = <<>> /\ crashes < MaxCrashes /\ crashes' = crashes + 1 /\ up' = FALSE
        /\ writes' = <<>> /\ buffer' = NoBuffer
        /\ at' = [n \in Messages |-> IF at[n] \in Rest THEN at[n] ELSE Room!Outcome(n, "lost")]
        /\ UNCHANGED <<state, row, calls, asked, answered, draining, faults>>
    BY DEF Room!Crash
  <1>2. /\ Room!TypeOK /\ AskedSound /\ RowsSound /\ FaultsSound
        /\ at \in [Messages -> Room!Stages]
    BY DEF RoomInv, Room!TypeOK
  <1>3. ASSUME NEW n \in Messages
        PROVE  /\ at'[n] \in Rest
               /\ at'[n] = "accepted" <=> at[n] = "accepted"
    <2>1. Room!Outcome(n, "lost") \in {"lost", "seen"}
      BY DEF Room!Outcome
    <2>2. at'[n] = IF at[n] \in Rest THEN at[n] ELSE Room!Outcome(n, "lost")
      BY <1>1
    <2>3. \/ at[n] \in Rest /\ at'[n] = at[n]
          \/ at[n] \notin Rest /\ at'[n] \in {"lost", "seen"}
      BY <2>1, <2>2
    <2> QED
      BY <2>3 DEF Room!Settled
  <1>4. /\ \A s \in Rest : s \notin Writing \cup Room!Prelude \cup {"held"}
        /\ Rest \subseteq Room!Stages
    BY DEF Writing, Room!PreludeWrites, Room!Prelude, Room!Stores, Room!Stages, Room!Settled
  <1>5. at' \in [Messages -> Room!Stages]
    BY <1>1, <1>3, <1>4
  <1>6. ~Room!Guarded'
    BY <1>1 DEF Room!Guarded
  <1>7. \A n \in Messages : at'[n] \notin Writing \cup Room!Prelude \cup {"held"}
    BY <1>3, <1>4
  <1> HIDE DEF Rest
  <1>8. Room!TypeOK'
    <2>1. crashes' \in 0..MaxCrashes
      BY <1>1, <1>2 DEF Room!TypeOK, Room!ActivationAssumption
    <2> QED
      BY <1>1, <1>2, <1>5, <1>6, <2>1, EmptySeq DEF Room!TypeOK
  <1>9. QueueSound'
    BY <1>1, <1>7, EmptySeq DEF QueueSound, Writing, Waiting
  <1>10. HoldsSound'
    BY <1>1, <1>6, EmptySeq DEF HoldsSound, AllHeld
  <1>11. AskedSound'
    BY <1>1, <1>2, <1>3, <1>7 DEF AskedSound
  <1>12. Room!GuardOwned'
    BY <1>6, <1>7 DEF Room!GuardOwned
  <1>13. OrderSound'
    <2>1. /\ {"activating", "routing"} \subseteq Room!Prelude
          /\ {"store_inactive"} \cup Stranded \subseteq Writing
      BY DEF Room!Prelude, Room!PreludeWrites, Writing, Room!Stores, Stranded
    <2> QED
      BY <1>7, <2>1 DEF OrderSound
  <1>14. RowsSound'
    <2>1. {"promoting", "backfilling", "grouping", "readying"} \subseteq Room!Prelude
      BY DEF Room!Prelude, Room!PreludeWrites
    <2>2. \A n \in Messages :
              at'[n] \notin {"promoting", "backfilling", "grouping", "readying"}
      BY <1>7, <2>1
    <2>3. \A n \in Messages : at'[n] # "promoting" /\ at'[n] # "readying"
      BY <2>2
    <2> QED
      BY <1>1, <1>2, <2>2, <2>3 DEF RowsSound
  <1>15. FaultsSound'
    <2>1. \A n \in Messages : at'[n] # "resetting"
      BY <1>7 DEF Room!Prelude, Room!PreludeWrites
    <2> QED
      BY <1>1, <2>1 DEF FaultsSound, Room!NotLeftActivating
  <1> QED
    BY <1>8, <1>9, <1>10, <1>11, <1>12, <1>13, <1>14, <1>15 DEF RoomInv

LEMMA RestartKept ==
    ASSUME RoomInv, Room!Restart
    PROVE  RoomInv'
PROOF
  <1>1. /\ up' = TRUE /\ draining' = FALSE
        /\ state' = (IF state = "activating" THEN "inactive" ELSE state)
        /\ UNCHANGED <<row, buffer, writes, calls, at, asked, answered, faults, crashes>>
    BY DEF Room!Restart
  <1>2. /\ state' \in {"inactive", "active"} /\ (state' = "active" => state = "active")
    BY <1>1 DEF RoomInv, Room!TypeOK
  <1>3. Room!TypeOK'
    BY <1>1, <1>2 DEF RoomInv, Room!TypeOK, Room!Guarded
  <1>4. QueueSound' /\ HoldsSound' /\ AskedSound'
    BY <1>1 DEF RoomInv, QueueSound, Waiting, HoldsSound, AllHeld, Room!Guarded, AskedSound
  <1>5. Room!GuardOwned' /\ OrderSound' /\ RowsSound'
    BY <1>1, <1>2 DEF RoomInv, Room!GuardOwned, Room!Guarded, OrderSound, Ahead, RowsSound
  <1>6. FaultsSound'
    BY <1>1, <1>2 DEF RoomInv, FaultsSound, Room!NotLeftActivating
  <1> QED
    BY <1>3, <1>4, <1>5, <1>6 DEF RoomInv

LEMMA RoomUnchanged ==
    ASSUME RoomInv, UNCHANGED Room!vars
    PROVE  RoomInv'
PROOF
  <1>1. UNCHANGED <<state, row, buffer, writes, calls, at, asked, answered, draining, up,
                    faults, crashes>>
    BY DEF Room!vars
  <1>2. Room!TypeOK'
    BY <1>1 DEF RoomInv, Room!TypeOK, Room!Guarded
  <1>3. QueueSound' /\ HoldsSound' /\ AskedSound'
    BY <1>1 DEF RoomInv, QueueSound, Waiting, HoldsSound, AllHeld, Room!Guarded, AskedSound
  <1>4. Room!GuardOwned' /\ OrderSound' /\ RowsSound'
    BY <1>1 DEF RoomInv, Room!GuardOwned, Room!Guarded, OrderSound, Ahead, RowsSound
  <1>5. FaultsSound'
    BY <1>1 DEF RoomInv, FaultsSound, Room!NotLeftActivating, Room!Guarded
  <1> QED
    BY <1>2, <1>3, <1>4, <1>5 DEF RoomInv

-----------------------------------------------------------------------------
LEMMA RoomInit ==
    ASSUME Room!ActivationAssumption, Room!Init
    PROVE  RoomInv
PROOF
  <1>1. /\ state = "inactive" /\ row = [m \in Messages |-> "absent"] /\ buffer = NoBuffer
        /\ writes = <<>> /\ calls = <<>> /\ at = [m \in Messages |-> "out"]
        /\ asked = [m \in Messages |-> FALSE] /\ answered = [m \in Messages |-> 0]
        /\ draining = FALSE /\ up = TRUE /\ faults = 0 /\ crashes = 0
    BY DEF Room!Init
  <1>2. ~Room!Guarded
    BY <1>1 DEF Room!Guarded
  <1>3. /\ "out" \notin Writing \cup Room!Prelude \cup {"store_inactive"} \cup Stranded
        /\ "out" \in Room!Stages
    BY DEF Writing, Room!PreludeWrites, Room!Prelude, Room!Stores, Room!Stages, Stranded,
           Room!Settled
  <1>4. Room!TypeOK
    <2>1. MaxFaults \in Nat /\ MaxCrashes \in Nat
      BY DEF Room!ActivationAssumption
    <2>2. /\ row \in [Messages -> {"absent", "inactive", "processable"}]
          /\ at \in [Messages -> Room!Stages]
          /\ asked \in [Messages -> BOOLEAN]
          /\ answered \in [Messages -> Nat]
      BY <1>1, <1>3
    <2>3. faults \in 0..MaxFaults /\ crashes \in 0..MaxCrashes
      BY <1>1, <2>1
    <2> QED
      BY <1>1, <1>2, <2>2, <2>3, EmptySeq DEF Room!TypeOK
  <1>5. QueueSound
    BY <1>1, <1>3, EmptySeq DEF QueueSound, Waiting, Writing
  <1>6. HoldsSound /\ AskedSound
    BY <1>1, <1>2, <1>3, EmptySeq DEF HoldsSound, AllHeld, AskedSound
  <1>7. Room!GuardOwned /\ OrderSound /\ RowsSound /\ FaultsSound
    BY <1>1, <1>2, <1>3 DEF Room!GuardOwned, OrderSound, RowsSound, FaultsSound,
        Room!NotLeftActivating
  <1> QED
    BY <1>4, <1>5, <1>6, <1>7 DEF RoomInv

LEMMA RoomStep ==
    ASSUME Room!ActivationAssumption, RoomInv, [Room!Next]_(Room!vars)
    PROVE  RoomInv'
PROOF
  <1>1. ASSUME NEW m \in Messages, Room!DeliverPlain(m) \/ Room!DeliverTrigger(m)
        PROVE  RoomInv'
    BY <1>1, DeliverKept
  <1>2. ASSUME NEW m \in Messages, Room!Handle(m)
        PROVE  RoomInv'
    BY <1>2, StoreInactiveKept, StoreHeldKept, StoreStrandedKept, ResetStrandedKept,
       StoreActiveKept, ActivateKept, RouteKept, MarkKept, BackfillKept, GroupKept, ReadyKept,
       FlipKept, PromoteKept, ResetKept
       DEF Room!Handle
  <1>3. CASE Room!Dispatch
    BY <1>3, DispatchKept
  <1>4. CASE Room!WriteRejects
    BY <1>4, WriteRejectsKept
  <1>5. CASE Room!Drain
    BY <1>5, DrainKept
  <1>6. CASE Room!Crash
    BY <1>6, CrashKept
  <1>7. CASE Room!Restart
    BY <1>7, RestartKept
  <1>8. CASE UNCHANGED Room!vars
    BY <1>8, RoomUnchanged
  <1> QED
    BY <1>1, <1>2, <1>3, <1>4, <1>5, <1>6, <1>7, <1>8 DEF Room!Next, Room!SomeHandler

LEMMA RoomImplies ==
    ASSUME RoomInv
    PROVE  /\ Room!TypeOK /\ Room!NoneStranded /\ Room!GuardOwned /\ Room!NotLeftActivating
           /\ Room!AnsweredOnce
           /\ Triggers \subseteq Messages => Room!ReadinessMeansSomething
PROOF
  <1>1. Room!NoneStranded
    BY DEF RoomInv, RowsSound, Room!NoneStranded
  <1>2. Room!AnsweredOnce
    <2>1. \A m \in Messages : answered[m] \in {0, 1}
      BY DEF RoomInv, AskedSound
    <2> QED
      BY <2>1 DEF Room!AnsweredOnce
  <1>3. ASSUME Triggers \subseteq Messages
        PROVE  Room!ReadinessMeansSomething
    BY <1>3 DEF RoomInv, RowsSound, Room!ReadinessMeansSomething
  <1> QED
    BY <1>1, <1>2, <1>3 DEF RoomInv, FaultsSound

\* A step of the room leaves an active timeline active: whatever would reset it needs a
\* prelude, or a trigger that met the inconsistent state, and there is neither.
LEMMA RoomStays ==
    ASSUME RoomInv, [Room!Next]_(Room!vars)
    PROVE  Room!StaysActive
PROOF
  <1> SUFFICES ASSUME state = "active" PROVE state' = "active"
    BY DEF Room!StaysActive
  <1>1. \A m \in Messages : at[m] \notin {"activating", "promoting", "resetting",
                              "reset_stranded"}
    BY DEF RoomInv, OrderSound, Room!Prelude, Room!PreludeWrites, Stranded
  <1>2. ASSUME NEW m \in Messages, Room!DeliverPlain(m) \/ Room!DeliverTrigger(m)
        PROVE  state' = "active"
    BY <1>2 DEF Room!DeliverPlain, Room!DeliverTrigger
  <1>3. ASSUME NEW m \in Messages, Room!Handle(m)
        PROVE  state' = "active"
    BY <1>1, <1>3 DEF Room!Handle, Room!Commits, Room!StoreInactive, Room!StoreHeld,
       Room!StoreStranded, Room!ResetStranded, Room!StoreActive, Room!Activate, Room!Route,
       Room!Mark, Room!Backfill, Room!Group, Room!Ready, Room!Flip, Room!Promote, Room!Reset
  <1>4. CASE Room!Dispatch \/ Room!WriteRejects \/ Room!Drain \/ Room!Crash \/ Room!Restart
    BY <1>4 DEF Room!Dispatch, Room!WriteRejects, Room!Drain, Room!Crash, Room!Restart
  <1>5. CASE UNCHANGED Room!vars
    BY <1>5 DEF Room!vars
  <1> QED
    BY <1>2, <1>3, <1>4, <1>5 DEF Room!Next, Room!SomeHandler

-----------------------------------------------------------------------------
\* A room is sound whatever the order of deliveries and writes, whichever writes reject and
\* whenever the process dies: no message is left inactive in an active timeline, one prelude
\* runs at a time and the guard stands exactly as long, a trigger waits for its readiness with
\* the right statuses, is accepted once, and a timeline that reads activating for no prelude
\* has an excuse.
THEOREM RoomSound ==
    ASSUME Room!ActivationAssumption
    PROVE  Room!Spec => [](/\ Room!TypeOK /\ Room!NoneStranded /\ Room!GuardOwned
                           /\ Room!ReadinessMeansSomething /\ Room!NotLeftActivating
                           /\ Room!AnsweredOnce)
PROOF
  <1>1. Room!Init => RoomInv
    BY RoomInit
  <1>2. RoomInv /\ [Room!Next]_(Room!vars) => RoomInv'
    BY RoomStep
  <1>3. RoomInv => /\ Room!TypeOK /\ Room!NoneStranded /\ Room!GuardOwned
                   /\ Room!ReadinessMeansSomething /\ Room!NotLeftActivating
                   /\ Room!AnsweredOnce
    BY RoomImplies DEF Room!ActivationAssumption
  <1> QED
    BY <1>1, <1>2, <1>3, PTL DEF Room!Spec

\* An active timeline stays active: no reset lands on top of a promotion.
THEOREM RoomStaysActive ==
    ASSUME Room!ActivationAssumption
    PROVE  Room!Spec => [][Room!StaysActive]_(Room!vars)
PROOF
  <1>1. Room!Init => RoomInv
    BY RoomInit
  <1>2. RoomInv /\ [Room!Next]_(Room!vars) => RoomInv'
    BY RoomStep
  <1>3. RoomInv /\ [Room!Next]_(Room!vars) => [Room!StaysActive]_(Room!vars)
    BY RoomStays
  <1> QED
    BY <1>1, <1>2, <1>3, PTL DEF Room!Spec

-----------------------------------------------------------------------------
(***************************************************************************)
(* LateInput.                                                              *)
(***************************************************************************)
\* The phase others see follows from what the runner does, and only a request makes calls.
Phases ==
    /\ sessionPhase = "building" <=> run \in {"preparing", "creating"}
    /\ sessionPhase = "ended" <=> run \in {"settling", "over"}
    /\ run # "request" => call = "none"

\* An effect is counted from before its call executes until it is known not to have
\* happened, so a rollout without one has delivered nothing.
Effects ==
    /\ posts >= (IF posted THEN 1 ELSE 0) + (IF call = "posting" THEN 1 ELSE 0)
    /\ call = "reacting" => reacts >= 1
    /\ posts + reacts + (IF call \in {"held", "released"} THEN 1 ELSE 0) <= visibleCalls
    /\ run \in {"cancelled", "forking"} => posts = 0

\* A restart is filed or taken only while a redo is left; none is pending in a build, no step
\* at all after the end; and only a step that is being applied has taken corrections.
StepsFiled ==
    /\ pending.kind = "none" \/ sessionPhase = "ended" => pending = Session!NoStep
    /\ pending.kind = "restart" => sessionPhase = "running" /\ redoCount < MaxRedos
    /\ run \in {"restarting", "forking"} => redoCount < MaxRedos
    /\ taken # {} => run \in {"cancelling", "restarting", "cancelled", "forking"}
    /\ redoCount <= MaxRedos

LateInv == Session!TypeOK /\ Phases /\ Effects /\ StepsFiled /\ Session!NoneForgotten

\* A call returns: it was delivered, and counted, or its count is taken back.
LEMMA ReturnEffects ==
    ASSUME LateInv, Session!CallReturns
    PROVE  Effects'
PROOF
  <1>1. /\ visibleCalls \in Int /\ posts \in Int /\ reacts \in Int
        /\ posts >= (IF posted THEN 1 ELSE 0) + (IF call = "posting" THEN 1 ELSE 0)
        /\ call = "reacting" => reacts >= 1
        /\ posts + reacts + (IF call \in {"held", "released"} THEN 1 ELSE 0) <= visibleCalls
        /\ call # "none" => run = "request"
    <2>1. /\ visibleCalls \in Int /\ posts \in Int /\ reacts \in Int
          /\ call # "none" => run = "request"
      BY DEF LateInv, Phases, Session!TypeOK
    <2> QED
      BY <2>1 DEF LateInv, Effects
  <1>2. call' = "none" /\ run' = run /\ visibleCalls' = visibleCalls
    BY DEF Session!CallReturns
  <1>3. CASE call = "posting"
    <2>1. /\ reacts' = reacts
          /\ posts' = posts \/ (posts' = posts - 1 /\ posted' = posted)
      BY <1>3 DEF Session!CallReturns
    <2> QED
      BY <1>1, <1>2, <1>3, <2>1 DEF Effects
  <1>4. CASE call = "reacting"
    <2>1. posts' = posts /\ (posted' <=> posted) /\ (reacts' = reacts \/ reacts' = reacts - 1)
      BY <1>4 DEF Session!CallReturns
    <2> QED
      BY <1>1, <1>2, <1>4, <2>1 DEF Effects
  <1> QED
    BY <1>3, <1>4 DEF Session!CallReturns

\* The stages and the calls.
LEMMA LatePhases ==
    ASSUME LateInv, Session!LateInputAssumption, Session!Next
    PROVE  Phases'
PROOF
  <1> USE DEF LateInv, Phases, Session!TypeOK, StepsFiled, Session!callVars
  <1>1. CASE \E c \in Corrections : Session!Arrive(c)
    BY <1>1 DEF Session!Arrive, Session!RequestRestart, Session!RequestCancel, Session!Step,
        Session!CanRedo, Session!CanDiscardRollout
  <1>2. CASE \E c \in Corrections : Session!Interject(c)
    BY <1>2 DEF Session!Interject
  <1>3. CASE \E c \in Corrections : Session!Revive(c)
    BY <1>3 DEF Session!Revive
  <1>4. CASE Session!BuildStarts
    BY <1>4 DEF Session!BuildStarts
  <1>5. CASE Session!BuildDone
    BY <1>5 DEF Session!BuildDone
  <1>6. CASE Session!BuildFails
    BY <1>6 DEF Session!BuildFails
  <1>7. CASE Session!Call
    BY <1>7 DEF Session!Call
  <1>8. CASE Session!HeldCallEnds
    BY <1>8 DEF Session!HeldCallEnds
  <1>9. CASE Session!Execute
    BY <1>9 DEF Session!Execute
  <1>10. CASE Session!CallReturns
    BY <1>10 DEF Session!CallReturns
  <1>11. CASE Session!TurnEnds
    BY <1>11 DEF Session!TurnEnds
  <1>12. CASE Session!RunFails
    BY <1>12 DEF Session!RunFails
  <1>13. CASE Session!Check
    BY <1>13 DEF Session!Check
  <1>14. CASE Session!Apply
    BY <1>14 DEF Session!Apply, Session!FallBack, Session!CanDiscardRollout
  <1>15. CASE Session!Rebuild
    BY <1>15 DEF Session!Rebuild
  <1>16. CASE Session!Cancel
    BY <1>16 DEF Session!Cancel
  <1>17. CASE Session!End
    BY <1>17 DEF Session!End
  <1>18. CASE Session!Settle
    BY <1>18 DEF Session!Settle
  <1>19. CASE Session!Expire
    BY <1>19 DEF Session!Expire
  <1>20. CASE Session!Revived
    BY <1>20 DEF Session!Revived
  <1> QED
    BY <1>1, <1>2, <1>3, <1>4, <1>5, <1>6, <1>7, <1>8, <1>9, <1>10, <1>11, <1>12, <1>13, <1>14,
        <1>15, <1>16, <1>17, <1>18, <1>19, <1>20 DEF Session!Next

\* The effects that were recorded.
LEMMA LateEffects ==
    ASSUME LateInv, Session!LateInputAssumption, Session!Next
    PROVE  Effects'
PROOF
  <1> USE DEF LateInv, Phases, Effects, Session!TypeOK, Session!LateInputAssumption,
        Session!callVars
  <1>1. CASE \E c \in Corrections : Session!Arrive(c)
    BY <1>1 DEF Session!Arrive, Session!RequestRestart, Session!RequestCancel, Session!Step,
        Session!CanRedo, Session!CanDiscardRollout
  <1>2. CASE \E c \in Corrections : Session!Interject(c)
    BY <1>2 DEF Session!Interject
  <1>3. CASE \E c \in Corrections : Session!Revive(c)
    BY <1>3 DEF Session!Revive
  <1>4. CASE Session!BuildStarts
    BY <1>4 DEF Session!BuildStarts
  <1>5. CASE Session!BuildDone
    BY <1>5 DEF Session!BuildDone
  <1>6. CASE Session!BuildFails
    BY <1>6 DEF Session!BuildFails
  <1>7. CASE Session!Call
    BY <1>7 DEF Session!Call
  <1>8. CASE Session!HeldCallEnds
    BY <1>8 DEF Session!HeldCallEnds
  <1>9. CASE Session!Execute
    BY <1>9 DEF Session!Execute
  <1>10. CASE Session!CallReturns
    BY <1>10, ReturnEffects
  <1>11. CASE Session!TurnEnds
    BY <1>11 DEF Session!TurnEnds
  <1>12. CASE Session!RunFails
    BY <1>12 DEF Session!RunFails
  <1>13. CASE Session!Check
    BY <1>13 DEF Session!Check
  <1>14. CASE Session!Apply
    BY <1>14 DEF Session!Apply, Session!FallBack, Session!CanDiscardRollout
  <1>15. CASE Session!Rebuild
    BY <1>15 DEF Session!Rebuild
  <1>16. CASE Session!Cancel
    BY <1>16 DEF Session!Cancel
  <1>17. CASE Session!End
    BY <1>17 DEF Session!End
  <1>18. CASE Session!Settle
    BY <1>18 DEF Session!Settle
  <1>19. CASE Session!Expire
    BY <1>19 DEF Session!Expire
  <1>20. CASE Session!Revived
    BY <1>20 DEF Session!Revived
  <1> QED
    BY <1>1, <1>2, <1>3, <1>4, <1>5, <1>6, <1>7, <1>8, <1>9, <1>10, <1>11, <1>12, <1>13, <1>14,
        <1>15, <1>16, <1>17, <1>18, <1>19, <1>20 DEF Session!Next

\* The steps that are filed and taken.
LEMMA LateSteps ==
    ASSUME LateInv, Session!LateInputAssumption, Session!Next
    PROVE  StepsFiled'
PROOF
  <1> USE DEF LateInv, Phases, StepsFiled, Session!TypeOK, Session!LateInputAssumption,
        Session!NoStep, Session!stepVars
  <1>1. CASE \E c \in Corrections : Session!Arrive(c)
    BY <1>1 DEF Session!Arrive, Session!RequestRestart, Session!RequestCancel, Session!Step,
        Session!CanRedo, Session!CanDiscardRollout
  <1>2. CASE \E c \in Corrections : Session!Interject(c)
    BY <1>2 DEF Session!Interject
  <1>3. CASE \E c \in Corrections : Session!Revive(c)
    BY <1>3 DEF Session!Revive
  <1>4. CASE Session!BuildStarts
    BY <1>4 DEF Session!BuildStarts
  <1>5. CASE Session!BuildDone
    BY <1>5 DEF Session!BuildDone
  <1>6. CASE Session!BuildFails
    BY <1>6 DEF Session!BuildFails
  <1>7. CASE Session!Call
    BY <1>7 DEF Session!Call
  <1>8. CASE Session!HeldCallEnds
    BY <1>8 DEF Session!HeldCallEnds
  <1>9. CASE Session!Execute
    BY <1>9 DEF Session!Execute
  <1>10. CASE Session!CallReturns
    BY <1>10 DEF Session!CallReturns
  <1>11. CASE Session!TurnEnds
    BY <1>11 DEF Session!TurnEnds
  <1>12. CASE Session!RunFails
    BY <1>12 DEF Session!RunFails
  <1>13. CASE Session!Check
    BY <1>13 DEF Session!Check
  <1>14. CASE Session!Apply
    BY <1>14 DEF Session!Apply, Session!FallBack, Session!CanDiscardRollout
  <1>15. CASE Session!Rebuild
    BY <1>15 DEF Session!Rebuild
  <1>16. CASE Session!Cancel
    BY <1>16 DEF Session!Cancel
  <1>17. CASE Session!End
    BY <1>17 DEF Session!End
  <1>18. CASE Session!Settle
    BY <1>18 DEF Session!Settle
  <1>19. CASE Session!Expire
    BY <1>19 DEF Session!Expire
  <1>20. CASE Session!Revived
    BY <1>20 DEF Session!Revived
  <1> QED
    BY <1>1, <1>2, <1>3, <1>4, <1>5, <1>6, <1>7, <1>8, <1>9, <1>10, <1>11, <1>12, <1>13, <1>14,
        <1>15, <1>16, <1>17, <1>18, <1>19, <1>20 DEF Session!Next

\* Every correction that filed a step is in one.
LEMMA LateFiled ==
    ASSUME LateInv, Session!LateInputAssumption, Session!Next
    PROVE  Session!NoneForgotten'
PROOF
  <1> USE DEF LateInv, Phases, StepsFiled, Session!TypeOK, Session!NoneForgotten, Session!Whose,
        Session!Come, Session!stepVars, Session!NoStep
  <1>1. CASE \E c \in Corrections : Session!Arrive(c)
    BY <1>1 DEF Session!Arrive, Session!RequestRestart, Session!RequestCancel, Session!Step,
        Session!CanRedo, Session!CanDiscardRollout
  <1>2. CASE \E c \in Corrections : Session!Interject(c)
    BY <1>2 DEF Session!Interject
  <1>3. CASE \E c \in Corrections : Session!Revive(c)
    BY <1>3 DEF Session!Revive
  <1>4. CASE Session!BuildStarts
    BY <1>4 DEF Session!BuildStarts
  <1>5. CASE Session!BuildDone
    BY <1>5 DEF Session!BuildDone
  <1>6. CASE Session!BuildFails
    BY <1>6 DEF Session!BuildFails
  <1>7. CASE Session!Call
    BY <1>7 DEF Session!Call
  <1>8. CASE Session!HeldCallEnds
    BY <1>8 DEF Session!HeldCallEnds
  <1>9. CASE Session!Execute
    BY <1>9 DEF Session!Execute
  <1>10. CASE Session!CallReturns
    BY <1>10 DEF Session!CallReturns
  <1>11. CASE Session!TurnEnds
    BY <1>11 DEF Session!TurnEnds
  <1>12. CASE Session!RunFails
    BY <1>12 DEF Session!RunFails
  <1>13. CASE Session!Check
    BY <1>13 DEF Session!Check
  <1>14. CASE Session!Apply
    BY <1>14 DEF Session!Apply, Session!FallBack, Session!CanDiscardRollout
  <1>15. CASE Session!Rebuild
    BY <1>15 DEF Session!Rebuild
  <1>16. CASE Session!Cancel
    BY <1>16 DEF Session!Cancel
  <1>17. CASE Session!End
    BY <1>17 DEF Session!End
  <1>18. CASE Session!Settle
    BY <1>18 DEF Session!Settle
  <1>19. CASE Session!Expire
    BY <1>19 DEF Session!Expire
  <1>20. CASE Session!Revived
    BY <1>20 DEF Session!Revived
  <1> QED
    BY <1>1, <1>2, <1>3, <1>4, <1>5, <1>6, <1>7, <1>8, <1>9, <1>10, <1>11, <1>12, <1>13, <1>14,
        <1>15, <1>16, <1>17, <1>18, <1>19, <1>20 DEF Session!Next

\* The types.
LEMMA LateTyped ==
    ASSUME LateInv, Session!LateInputAssumption, Session!Next
    PROVE  Session!TypeOK'
PROOF
  <1> USE DEF LateInv, Phases, Effects, StepsFiled, Session!TypeOK, Session!LateInputAssumption,
        Session!Fates, Session!NoStep, Session!Come, Session!callVars, Session!stepVars
  <1>1. CASE \E c \in Corrections : Session!Arrive(c)
    BY <1>1 DEF Session!Arrive, Session!RequestRestart, Session!RequestCancel, Session!Step,
        Session!CanRedo, Session!CanDiscardRollout
  <1>2. CASE \E c \in Corrections : Session!Interject(c)
    BY <1>2 DEF Session!Interject
  <1>3. CASE \E c \in Corrections : Session!Revive(c)
    BY <1>3 DEF Session!Revive
  <1>4. CASE Session!BuildStarts
    BY <1>4 DEF Session!BuildStarts
  <1>5. CASE Session!BuildDone
    <2>1. /\ fate' \in [Corrections -> Session!Fates]
          /\ sessionPhase' \in {"building", "running", "ended"}
          /\ run' \in {"creating", "request", "over"}
      BY <1>5 DEF Session!BuildDone
    <2>2. pending' \in {pending, Session!NoStep} /\ rebuild' = {} /\ redoCount' \in Nat
      BY <1>5 DEF Session!BuildDone
    <2>3. gone' \in BOOLEAN /\ taken' = taken /\ doomed' = doomed /\ reviving' = reviving
      BY <1>5 DEF Session!BuildDone
    <2>4. UNCHANGED <<call, posts, reacts, posted, visibleCalls>>
      BY <1>5 DEF Session!BuildDone
    <2> QED
      BY <2>1, <2>2, <2>3, <2>4
  <1>6. CASE Session!BuildFails
    BY <1>6 DEF Session!BuildFails
  <1>7. CASE Session!Call
    BY <1>7 DEF Session!Call
  <1>8. CASE Session!HeldCallEnds
    BY <1>8 DEF Session!HeldCallEnds
  <1>9. CASE Session!Execute
    BY <1>9 DEF Session!Execute
  <1>10. CASE Session!CallReturns
    <2>1. posted' \in BOOLEAN
      BY <1>10, Zenon DEF Session!CallReturns
    <2>2. \/ posts' = posts
          \/ posts' = posts - 1 /\ call = "posting"
      BY <1>10, Zenon DEF Session!CallReturns
    <2>3. \/ reacts' = reacts
          \/ reacts' = reacts - 1 /\ call = "reacting"
      BY <1>10, Zenon DEF Session!CallReturns
    <2>4. posts >= (IF call = "posting" THEN 1 ELSE 0)
      OBVIOUS
    <2>5. posts' \in 0..MaxCalls /\ reacts' \in 0..MaxCalls
      BY <2>2, <2>3, <2>4
    <2>6. /\ call' = "none"
          /\ UNCHANGED <<sessionPhase, run, gone, pending, rebuild, taken, redoCount,
                         visibleCalls, doomed, reviving, fate>>
      BY <1>10 DEF Session!CallReturns
    <2> QED
      BY <2>1, <2>5, <2>6
  <1>11. CASE Session!TurnEnds
    BY <1>11 DEF Session!TurnEnds
  <1>12. CASE Session!RunFails
    BY <1>12 DEF Session!RunFails
  <1>13. CASE Session!Check
    BY <1>13 DEF Session!Check
  <1>14. CASE Session!Apply
    BY <1>14 DEF Session!Apply, Session!FallBack, Session!CanDiscardRollout
  <1>15. CASE Session!Rebuild
    <2>1. fate' \in [Corrections -> Session!Fates]
      BY <1>15 DEF Session!Rebuild
    <2>2. pending' = Session!NoStep \/ pending' = pending
      BY <1>15, Zenon DEF Session!Rebuild
    <2>3. pending' \in [kind : {"none", "restart", "cancel"}, who : SUBSET Corrections]
      BY <2>2
    <2>4. /\ sessionPhase' = "building" /\ run' = "creating" /\ taken' = {}
          /\ redoCount' = redoCount + 1 /\ posts' = 0
          /\ UNCHANGED <<rebuild, call, reacts, visibleCalls>>
      BY <1>15 DEF Session!Rebuild
    <2>5. {gone, posted, doomed, reviving}' \subseteq BOOLEAN
      BY <1>15 DEF Session!Rebuild
    <2> QED
      BY <2>1, <2>3, <2>4, <2>5
  <1>16. CASE Session!Cancel
    BY <1>16 DEF Session!Cancel
  <1>17. CASE Session!End
    BY <1>17 DEF Session!End
  <1>18. CASE Session!Settle
    BY <1>18 DEF Session!Settle
  <1>19. CASE Session!Expire
    BY <1>19 DEF Session!Expire
  <1>20. CASE Session!Revived
    BY <1>20 DEF Session!Revived
  <1> QED
    BY <1>1, <1>2, <1>3, <1>4, <1>5, <1>6, <1>7, <1>8, <1>9, <1>10, <1>11, <1>12, <1>13, <1>14,
        <1>15, <1>16, <1>17, <1>18, <1>19, <1>20 DEF Session!Next

LEMMA LateInit == ASSUME Session!LateInputAssumption PROVE Session!Init => LateInv
PROOF
  <1> SUFFICES ASSUME Session!Init PROVE LateInv
    OBVIOUS
  <1>1. Session!TypeOK
    <2>1. fate \in [Corrections -> Session!Fates]
      BY DEF Session!Init, Session!Fates
    <2>2. {gone, posted, doomed, reviving} \subseteq BOOLEAN
      BY DEF Session!Init
    <2> QED
      BY <2>1, <2>2 DEF Session!Init, Session!TypeOK, Session!NoStep, Session!LateInputAssumption
  <1>2. Phases /\ Effects /\ StepsFiled
    BY DEF Session!Init, Phases, Effects, StepsFiled, Session!NoStep, Session!LateInputAssumption
  <1>3. Session!NoneForgotten
    BY DEF Session!Init, Session!NoneForgotten, Session!Whose
  <1> QED
    BY <1>1, <1>2, <1>3 DEF LateInv

LEMMA LateStep ==
    ASSUME Session!LateInputAssumption
    PROVE  LateInv /\ [Session!Next]_(Session!vars) => LateInv'
PROOF
  <1> SUFFICES ASSUME LateInv, [Session!Next]_(Session!vars) PROVE LateInv'
    OBVIOUS
  <1>1. CASE Session!Next
    BY <1>1, LateTyped, LatePhases, LateEffects, LateSteps, LateFiled DEF LateInv
  <1>2. CASE UNCHANGED Session!vars
    <2>1. Session!TypeOK'
      BY <1>2 DEF LateInv, Session!TypeOK, Session!vars, Session!Fates
    <2>2. Phases' /\ Effects' /\ StepsFiled'
      BY <1>2 DEF LateInv, Phases, Effects, StepsFiled, Session!vars, Session!NoStep
    <2>3. Session!NoneForgotten'
      BY <1>2 DEF LateInv, Session!NoneForgotten, Session!Whose, Session!vars
    <2> QED
      BY <2>1, <2>2, <2>3 DEF LateInv
  <1> QED
    BY <1>1, <1>2

LEMMA LateImplies ==
    LateInv => Session!TypeOK /\ Session!NoPostDiscarded /\ Session!NoneForgotten
               /\ Session!RedosBounded
PROOF
  <1> SUFFICES ASSUME LateInv
               PROVE  Session!NoPostDiscarded /\ Session!RedosBounded
    BY DEF LateInv
  <1>1. Session!NoPostDiscarded
    BY DEF LateInv, Effects, Session!TypeOK, Session!NoPostDiscarded
  <1>2. Session!RedosBounded
    BY DEF LateInv, StepsFiled, Session!RedosBounded
  <1> QED
    BY <1>1, <1>2

\* Corrections that arrive while a session is built, runs, delivers, is redone, ends or is
\* revived: no rollout that delivered a message is thrown away, no correction that filed a
\* step is forgotten, and the session is redone at most max_redos times.
THEOREM CorrectionsHeard ==
    ASSUME Session!LateInputAssumption
    PROVE  Session!Spec => [](Session!NoPostDiscarded /\ Session!NoneForgotten
                              /\ Session!RedosBounded)
PROOF
  <1>1. Session!Init => LateInv
    BY LateInit
  <1>2. LateInv /\ [Session!Next]_(Session!vars) => LateInv'
    BY LateStep
  <1>3. LateInv => Session!NoPostDiscarded /\ Session!NoneForgotten /\ Session!RedosBounded
    BY LateImplies
  <1> QED
    BY <1>1, <1>2, <1>3, PTL DEF Session!Spec

(***************************************************************************)
(* RequestChain.                                                           *)
(***************************************************************************)
Attempting == requestPhase \in {"admission", "silent", "producing"}

\* The members that were well all along and neither refused nor failed the request.
Left == steady \ (refused \cup excluded)

\* While one of those is left untried, no pass was begun anew, so that the counts of this
\* pass are those of the request.  An attempt whose notes name nobody else has nobody else.
RequestSound ==
    /\ Attempting => served \in Request!Members
    /\ requestPhase # "ended" => trips <= MaxTrips
    /\ \A m \in steady : health[m] = "well"
    /\ \A m \in Left : total[m] = 0 => \A n \in Request!Members : used[n] = total[n]
    /\ Attempting /\ ~notes.falls => Left \subseteq {served}

RequestInv == Request!TypeOK /\ RequestSound /\ Request!EndsWhenAlone

\* A set of numbers has a least one.
LEMMA LeastNumber ==
    ASSUME NEW S \in SUBSET Nat, S # {}
    PROVE  \E x \in S : \A y \in S : x <= y
PROOF
  <1>1. PICK x \in S : \A y \in S : ~(<<y, x>> \in OpToRel(<, Nat))
    BY NatLessThanWellFounded, WFMin, Zenon
  <1>2. \A y \in S : ~(y < x)
    BY <1>1 DEF OpToRel
  <1> QED
    BY <1>2

\* The least of some members.
LEMMA MinIs ==
    ASSUME Request!RequestChainAssumption, NEW S \in SUBSET Request!Members, S # {}
    PROVE  Request!Min(S) \in S
PROOF
  <1>1. S \subseteq Nat
    BY DEF Request!RequestChainAssumption, Request!Members
  <1>2. PICK x \in S : \A y \in S : x <= y
    BY <1>1, LeastNumber
  <1> QED
    BY <1>2, Zenon DEF Request!Min

\* The chain names a member that is still open, and nobody only when no open one is well.
LEMMA Chosen ==
    ASSUME Request!RequestChainAssumption, Request!TypeOK, NEW p,
           NEW c, c = Request!ChooseMember(p)
    PROVE  /\ c # 0 => c \in Request!Members \ (p.refused \cup p.excluded) /\ p.used[c] < Quota
           /\ \A m \in Request!Members \ (p.refused \cup p.excluded) :
                  p.used[m] < Quota /\ health[m] = "well" => c # 0
PROOF
  <1> DEFINE Open == {m \in Request!Members \ (p.refused \cup p.excluded) : p.used[m] < Quota}
             Skipped == {m \in Request!Members : GroupOf[m] \in p.failed}
             Viable == {m \in Open : health[m] = "well"}
  <1>1. 0 \notin Request!Members /\ Open \subseteq Request!Members
    BY DEF Request!Members, Request!RequestChainAssumption
  <1>2. c = IF 1 \in Viable \ Skipped \/ (1 \in Open \ Skipped /\ health[1] = "due") THEN 1
            ELSE IF Viable \ Skipped # {}
                 THEN IF Viable \ Skipped = {} THEN 0 ELSE Request!Min(Viable \ Skipped)
                 ELSE IF Viable = {} THEN 0 ELSE Request!Min(Viable)
    BY Zenon DEF Request!ChooseMember, Request!Nobody
  <1> HIDE DEF Open, Skipped
  <1>3. Viable \ Skipped \subseteq Open /\ Viable \subseteq Open
    OBVIOUS
  <1> HIDE DEF Viable
  <1>4. /\ Viable \ Skipped # {} => Request!Min(Viable \ Skipped) \in Open
        /\ Viable # {} => Request!Min(Viable) \in Open
    BY <1>1, <1>3, MinIs
  <1>5. c \in Open \/ (Viable = {} /\ c = 0)
    BY <1>2, <1>3, <1>4
  <1>6. c # 0 => c \in Open
    BY <1>1, <1>5
  <1>7. ASSUME NEW m \in Open, health[m] = "well" PROVE c # 0
    <2>1. m \in Viable
      BY <1>7 DEF Viable
    <2> QED
      BY <1>1, <1>5, <2>1
  <1> QED
    BY <1>6, <1>7 DEF Open


\* A count goes up by one, unless it is at its cap.
LEMMA CountedIs ==
    ASSUME NEW cap \in Nat, NEW f \in [Request!Members -> 0..cap], NEW m \in Request!Members
    PROVE  /\ Request!Counted(f, m, cap) \in [Request!Members -> 0..cap]
           /\ \A n \in Request!Members :
                  Request!Counted(f, m, cap)[n] =
                      IF n = m /\ f[n] < cap THEN f[n] + 1 ELSE f[n]
  BY DEF Request!Counted

\* What was noted of the others: if it is that nobody is left, nobody is.
LEMMA Noted ==
    ASSUME Request!RequestChainAssumption, Request!TypeOK, RequestSound,
           NEW m, NEW p, NEW n, n = Request!Notes(m, p)
    PROVE  /\ n \in [moves : BOOLEAN, falls : BOOLEAN, yields : BOOLEAN, last : BOOLEAN]
           /\ ~n.falls => Left \subseteq {m}
PROOF
  <1>1. n \in [moves : BOOLEAN, falls : BOOLEAN, yields : BOOLEAN, last : BOOLEAN]
    BY DEF Request!Notes
  <1> DEFINE q == [Request!Anew EXCEPT !.excluded = @ \cup {m}]
  <1>2. /\ q.refused = refused /\ q.excluded = excluded \cup {m}
        /\ \A k \in Request!Members : q.used[k] = 0
    BY DEF Request!Anew, Request!Pass, Request!Unused
  <1>3. n.falls <=> Request!ChooseMember(q) # 0
    BY Zenon DEF Request!Notes, Request!Nobody
  <1>4. ASSUME NEW k \in Left, k # m PROVE n.falls
    <2>1. k \in Request!Members \ (q.refused \cup q.excluded) /\ health[k] = "well"
      BY <1>2, <1>4 DEF Left, Request!TypeOK, RequestSound
    <2>2. q.used[k] < Quota
      BY <1>2, <2>1 DEF Request!RequestChainAssumption
    <2> QED
      BY <1>3, <2>1, <2>2, Chosen
  <1> QED
    BY <1>1, <1>4

\* An attempt is dispatched to m, in this pass or in a new one.
LEMMA Served ==
    ASSUME Request!RequestChainAssumption, RequestInv, NEW m \in Request!Members,
           NEW anew \in BOOLEAN, Request!Serve(m, anew), UNCHANGED <<refused, excluded, steady>>
    PROVE  /\ used' \in [Request!Members -> 0..Quota]
           /\ total' \in [Request!Members -> 0..(Quota + 1)]
           /\ failedGroups' \subseteq failedGroups
           /\ notes' \in [moves : BOOLEAN, falls : BOOLEAN, yields : BOOLEAN, last : BOOLEAN]
           /\ ~notes'.falls => Left \subseteq {m}
           /\ served' = m /\ clock' \in {"off", "running", "expired"}
           /\ \A n \in Request!Members :
                 total'[n] = IF n = m /\ total[n] < Quota + 1 THEN total[n] + 1 ELSE total[n]
           /\ ~anew => \A n \in Request!Members :
                 used'[n] = IF n = m /\ used[n] < Quota THEN used[n] + 1 ELSE used[n]
PROOF
  <1> DEFINE before == IF anew THEN Request!Anew ELSE Request!Pass
             p == [before EXCEPT !.used = Request!Counted(@, m, Quota)]
  <1>1. /\ before.used \in [Request!Members -> 0..Quota] /\ before.failed \subseteq failedGroups
        /\ ~anew => before.used = used
    BY DEF Request!Anew, Request!Pass, Request!Unused, RequestInv, Request!TypeOK,
           Request!RequestChainAssumption
  <1>2. Quota \in Nat /\ Quota + 1 \in Nat
    BY DEF Request!RequestChainAssumption
  <1>3. p.used = Request!Counted(before.used, m, Quota) /\ p.failed = before.failed
    BY DEF Request!Anew, Request!Pass
  <1>4. /\ used' = p.used /\ failedGroups' = p.failed /\ notes' = Request!Notes(m, p)
        /\ served' = m /\ total' = Request!Counted(total, m, Quota + 1)
        /\ clock' = IF served # 0 /\ served # m THEN Request!Armed(clock) ELSE clock
    BY Zenon DEF Request!Serve
  <1>5. total \in [Request!Members -> 0..(Quota + 1)] /\ clock \in {"off", "running", "expired"}
    BY DEF RequestInv, Request!TypeOK
  <1> HIDE DEF p, before
  <1>6. /\ used' \in [Request!Members -> 0..Quota]
        /\ \A n \in Request!Members : used'[n] =
              IF n = m /\ before.used[n] < Quota THEN before.used[n] + 1 ELSE before.used[n]
    BY <1>1, <1>2, <1>3, <1>4, CountedIs
  <1>7. /\ total' \in [Request!Members -> 0..(Quota + 1)]
        /\ \A n \in Request!Members :
              total'[n] = IF n = m /\ total[n] < Quota + 1 THEN total[n] + 1 ELSE total[n]
    BY <1>2, <1>4, <1>5, CountedIs
  <1>8. /\ notes' \in [moves : BOOLEAN, falls : BOOLEAN, yields : BOOLEAN, last : BOOLEAN]
        /\ ~notes'.falls => Left \subseteq {m}
    BY <1>4, Noted DEF RequestInv
  <1>9. clock' \in {"off", "running", "expired"}
    BY <1>4, <1>5 DEF Request!Armed
  <1> QED
    BY <1>1, <1>3, <1>4, <1>6, <1>7, <1>8, <1>9


\* The member asked when nobody can serve: one that was not asked to its end, if there is one.
LEMMA Spared ==
    ASSUME Request!RequestChainAssumption
    PROVE  /\ Request!AllUnhealthy \in Request!Members
           /\ Request!AllUnhealthy \in refused \cup excluded =>
                  Request!Members \subseteq refused \cup excluded
PROOF
  <1> DEFINE Kept == Request!Members \ refused
             Fresh == Kept \ excluded
  <1>1. Request!AllUnhealthy = IF Fresh # {} THEN Request!Min(Fresh)
                               ELSE IF Kept # {} THEN Request!Min(Kept) ELSE 1
    BY Zenon DEF Request!AllUnhealthy
  <1>2. 1 \in Request!Members
    BY DEF Request!Members, Request!RequestChainAssumption
  <1>3. Fresh \subseteq Request!Members /\ Kept \subseteq Request!Members
    OBVIOUS
  <1> HIDE DEF Fresh, Kept
  <1>4. /\ Fresh # {} => Request!Min(Fresh) \in Fresh
        /\ Kept # {} => Request!Min(Kept) \in Kept
    BY <1>3, MinIs
  <1>5. CASE Fresh # {}
    BY <1>1, <1>3, <1>4, <1>5 DEF Fresh, Kept
  <1>6. CASE Fresh = {}
    <2>1. Request!AllUnhealthy \in Request!Members
      BY <1>1, <1>2, <1>3, <1>4, <1>6
    <2> QED
      BY <1>6, <2>1 DEF Fresh, Kept
  <1> QED
    BY <1>5, <1>6

\* Whom an attempt is dispatched to: an open member of this pass while one that is well is
\* left untried.
LEMMA Dispatched ==
    ASSUME Request!RequestChainAssumption, RequestInv, Request!Dispatch
    PROVE  \E m \in Request!Members, anew \in BOOLEAN :
              /\ Request!Serve(m, anew)
              /\ (~anew /\ used[m] < Quota) \/ (\A n \in Left : total[n] # 0)
              /\ m \in refused \cup excluded => Request!Members \subseteq refused \cup excluded
PROOF
  <1> DEFINE p == Request!Pass
             c == Request!ChooseMember(p)
             d == Request!ChooseMember(Request!Anew)
             new == c = 0 /\ used # Request!Unused /\ d # 0
  <1>1. Request!TypeOK /\ RequestSound
    BY DEF RequestInv
  <1>2. /\ p.refused = refused /\ p.excluded = excluded /\ p.used = used
        /\ Request!Anew.refused = refused /\ Request!Anew.excluded = excluded
    BY DEF Request!Pass, Request!Anew
  <1>3. \/ c # 0 /\ Request!Serve(c, FALSE)
        \/ c = 0 /\ new /\ Request!Serve(d, TRUE)
        \/ c = 0 /\ ~new /\ Request!Serve(Request!AllUnhealthy, FALSE)
    BY DEF Request!Dispatch, Request!Nobody
  <1> HIDE DEF p, c, d
  <1>4. /\ c # 0 => c \in Request!Members \ (refused \cup excluded) /\ used[c] < Quota
        /\ \A m \in Request!Members \ (refused \cup excluded) :
                  used[m] < Quota /\ health[m] = "well" => c # 0
    BY <1>1, <1>2, Chosen DEF c
  <1>5. d # 0 => d \in Request!Members \ (refused \cup excluded)
    BY <1>1, <1>2, Chosen DEF d
  <1>6. c = 0 => \A n \in Left : total[n] # 0
    <2> SUFFICES ASSUME NEW n \in Left, total[n] = 0 PROVE c # 0
      OBVIOUS
    <2>1. n \in Request!Members \ (refused \cup excluded) /\ health[n] = "well"
      BY <1>1 DEF Left, RequestSound, Request!TypeOK
    <2>2. used[n] = total[n]
      BY <1>1, <2>1 DEF RequestSound
    <2>3. used[n] < Quota
      BY <2>2 DEF Request!RequestChainAssumption
    <2> QED
      BY <1>4, <2>1, <2>3
  <1>7. CASE c # 0
    <2>1. Request!Serve(c, FALSE)
      BY <1>3, <1>7
    <2> QED
      BY <1>4, <1>7, <2>1
  <1>8. CASE c = 0 /\ Request!Serve(d, TRUE) /\ new
    BY <1>5, <1>6, <1>8
  <1>9. CASE c = 0 /\ Request!Serve(Request!AllUnhealthy, FALSE)
    BY <1>6, <1>9, Spared
  <1> QED
    BY <1>3, <1>7, <1>8, <1>9

LEMMA DispatchSound ==
    ASSUME Request!RequestChainAssumption, RequestInv, Request!Dispatch
    PROVE  RequestInv'
PROOF
  <1>1. PICK m \in Request!Members, anew \in BOOLEAN :
              /\ Request!Serve(m, anew)
              /\ (~anew /\ used[m] < Quota) \/ (\A n \in Left : total[n] # 0)
    BY Dispatched
  <1>2. /\ requestPhase = "choosing" /\ requestPhase' = "admission"
        /\ cut' \in {"none", "caller", "stall", "budget"}
        /\ UNCHANGED <<health, refused, excluded, callerAborted, trips, result, steady,
                       flips, reissues>>
    BY DEF Request!Dispatch
  <1>3. /\ used' \in [Request!Members -> 0..Quota]
        /\ total' \in [Request!Members -> 0..(Quota + 1)]
        /\ failedGroups' \subseteq failedGroups
        /\ notes' \in [moves : BOOLEAN, falls : BOOLEAN, yields : BOOLEAN, last : BOOLEAN]
        /\ ~notes'.falls => Left \subseteq {m}
        /\ served' = m /\ clock' \in {"off", "running", "expired"}
        /\ \A n \in Request!Members :
              total'[n] = IF n = m /\ total[n] < Quota + 1 THEN total[n] + 1 ELSE total[n]
        /\ ~anew => \A n \in Request!Members :
              used'[n] = IF n = m /\ used[n] < Quota THEN used[n] + 1 ELSE used[n]
    BY <1>1, <1>2, Served
  <1>4. Left' = Left /\ Left \subseteq Request!Members
    BY <1>2 DEF Left, RequestInv, Request!TypeOK
  <1>5. \A k \in Left : total'[k] = 0 => \A n \in Request!Members : used'[n] = total'[n]
    <2> SUFFICES ASSUME NEW k \in Left, total'[k] = 0, NEW n \in Request!Members
                 PROVE  used'[n] = total'[n]
      OBVIOUS
    <2>1. total \in [Request!Members -> 0..(Quota + 1)] /\ used \in [Request!Members -> 0..Quota]
      BY DEF RequestInv, Request!TypeOK
    <2>2. Quota \in Nat
      BY DEF Request!RequestChainAssumption
    <2>3. total[k] = 0
      BY <1>3, <1>4, <2>1, <2>2
    <2>4. \A j \in Request!Members : used[j] = total[j]
      BY <2>3 DEF RequestInv, RequestSound
    <2>5. ~anew /\ used[m] < Quota
      BY <1>1, <2>3
    <2>6. used[n] < Quota + 1 /\ used[n] = total[n]
      BY <2>1, <2>2, <2>4
    <2> QED
      BY <1>3, <2>4, <2>5, <2>6
  <1>6. RequestSound'
    BY <1>2, <1>3, <1>4, <1>5 DEF RequestInv, RequestSound, Attempting
  <1>7. Request!TypeOK'
    <2>1. served' \in 0..ChainLength
      BY <1>3 DEF Request!Members, Request!RequestChainAssumption
    <2>2. \A g \in failedGroups' : \E k \in Request!Members : g = GroupOf[k]
      BY <1>3 DEF RequestInv, Request!TypeOK
    <2> QED
      BY <1>2, <1>3, <2>1, <2>2 DEF RequestInv, Request!TypeOK
  <1>8. Request!EndsWhenAlone'
    BY <1>2 DEF RequestInv, Request!TypeOK, Request!EndsWhenAlone
  <1> QED
    BY <1>6, <1>7, <1>8 DEF RequestInv

\* An attempt that failed for its member: it is repeated, another takes over, or the request
\* ends, and that only when its notes name nobody else or the caller has gone.
LEMMA FailsSound ==
    ASSUME Request!RequestChainAssumption, RequestInv, Attempting,
           NEW stall \in BOOLEAN, NEW trip \in BOOLEAN, NEW listed \in BOOLEAN,
           trip => ~callerAborted, Request!Fails(stall, trip, listed)
    PROVE  RequestInv'
PROOF
  <1> DEFINE now == IF trip THEN Request!Armed(clock) ELSE clock
             count == IF trip THEN trips + 1 ELSE trips
             spent == now = "expired"
             out == count > MaxTrips
             falls == Request!FallsOver(stall, spent, out)
  <1>1. Request!TypeOK /\ RequestSound /\ served \in Request!Members
    BY DEF RequestInv, RequestSound
  <1>2. falls <=> (stall \/ spent \/ out) /\ ~callerAborted /\ notes.falls
    BY Zenon DEF Request!FallsOver
  <1>3. now \in {"off", "running", "expired"} /\ count \in 0..(MaxTrips + 1)
    BY <1>1 DEF Request!Armed, Request!TypeOK, RequestSound, Attempting,
        Request!RequestChainAssumption
  <1>4. /\ failedGroups' \in {failedGroups, failedGroups \cup {GroupOf[served]}}
        /\ excluded' \in {excluded, excluded \cup {served}}
        /\ trips' = (IF falls /\ out THEN 0 ELSE count)
        /\ clock' = (IF falls THEN Request!Armed(now) ELSE now)
        /\ notes' = Request!NoNotes /\ cut' = "none"
    BY Zenon DEF Request!Fails, Request!TripsAfter, Request!AttemptOver
  <1>5. \/ ~falls /\ (out \/ spent) /\ requestPhase' = "ended" /\ result' = "environmental"
        \/ (falls \/ ~out) /\ requestPhase' \in {"choosing", "sleeping"} /\ result' = result
    BY Zenon DEF Request!Fails, Request!Ends
  <1>6. UNCHANGED <<health, served, used, refused, callerAborted, steady, total, flips, reissues>>
    BY DEF Request!Fails, Request!historyVars
  <1> HIDE DEF now, count, spent, out, falls
  <1>7. Left' \subseteq Left
    BY <1>4, <1>6 DEF Left
  <1>8. requestPhase' # "ended" => trips' <= MaxTrips
    BY <1>3, <1>4, <1>5 DEF out, Request!RequestChainAssumption
  <1>9. RequestSound'
    BY <1>1, <1>5, <1>6, <1>7, <1>8 DEF RequestSound, Attempting
  <1>10. Request!EndsWhenAlone'
    <2>1. requestPhase # "ended" /\ result = "none"
      BY <1>1 DEF Attempting, Request!TypeOK
    <2>2. CASE ~falls /\ (out \/ spent) /\ ~callerAborted
      <3>1. Left \subseteq {served}
        BY <1>1, <1>2, <2>2 DEF RequestSound
      <3> QED
        BY <1>4, <1>6, <3>1 DEF Left, Request!EndsWhenAlone
    <2> QED
      BY <1>5, <1>6, <2>1, <2>2 DEF Request!EndsWhenAlone
  <1>11. Request!TypeOK'
    <2>1. (result' = "none") <=> requestPhase' # "ended"
      BY <1>1, <1>5 DEF Attempting, Request!TypeOK
    <2>2. /\ trips' \in 0..(MaxTrips + 1) /\ clock' \in {"off", "running", "expired"}
          /\ excluded' \in SUBSET Request!Members
      BY <1>1, <1>3, <1>4 DEF Request!Armed, Request!TypeOK, Request!RequestChainAssumption
    <2>3. \A g \in failedGroups' : \E m \in Request!Members : g = GroupOf[m]
      BY <1>1, <1>4 DEF Request!TypeOK
    <2>4. notes' \in [moves : BOOLEAN, falls : BOOLEAN, yields : BOOLEAN, last : BOOLEAN]
      BY <1>4 DEF Request!NoNotes
    <2>5. /\ requestPhase' \in {"choosing", "sleeping", "ended"}
          /\ result' \in {"none", "environmental"}
      BY <1>1, <1>5 DEF Attempting, Request!TypeOK
    <2> QED
      BY <1>1, <1>4, <1>6, <2>1, <2>2, <2>3, <2>4, <2>5 DEF Request!TypeOK
  <1> QED
    BY <1>9, <1>10, <1>11 DEF RequestInv

\* What happens to a request beside the dispatch and the failure of an attempt.
Settled ==
    \/ Request!OverBudget \/ Request!Admitted \/ Request!FirstToken \/ Request!StallTimer
    \/ Request!BudgetExpires \/ Request!CallerAborts \/ Request!Wake \/ Request!WakeAborted
    \/ Request!Done \/ Request!Truncated \/ Request!ContentError \/ Request!Refusal

\* The notes and the counts.
LEMMA SettledSound ==
    ASSUME Request!RequestChainAssumption, RequestInv, Settled
    PROVE  RequestSound'
PROOF
  <1> USE DEF RequestInv, RequestSound, Left, Attempting, Request!TypeOK,
        Request!RequestChainAssumption, Request!passVars, Request!historyVars
  <1>1. CASE Request!OverBudget
    BY <1>1 DEF Request!OverBudget, Request!Ends
  <1>2. CASE Request!Admitted
    BY <1>2 DEF Request!Admitted
  <1>3. CASE Request!FirstToken
    BY <1>3 DEF Request!FirstToken
  <1>4. CASE Request!StallTimer
    BY <1>4 DEF Request!StallTimer
  <1>5. CASE Request!BudgetExpires
    BY <1>5 DEF Request!BudgetExpires
  <1>6. CASE Request!CallerAborts
    BY <1>6 DEF Request!CallerAborts
  <1>7. CASE Request!Wake
    BY <1>7 DEF Request!Wake
  <1>8. CASE Request!WakeAborted
    BY <1>8 DEF Request!WakeAborted, Request!Ends
  <1>9. CASE Request!Done
    BY <1>9 DEF Request!Done, Request!OnWire, Request!Ends, Request!AttemptOver, Request!NoNotes
  <1>10. CASE Request!Truncated
    BY <1>10 DEF Request!Truncated, Request!OnWire, Request!AttemptOver, Request!NoNotes
  <1>11. CASE Request!ContentError
    BY <1>11 DEF Request!ContentError, Request!OnWire, Request!Ends, Request!AttemptOver,
        Request!NoNotes
  <1>12. CASE Request!Refusal
    BY <1>12 DEF Request!Refusal, Request!OnWire, Request!Ends, Request!AttemptOver,
        Request!NoNotes, Request!Unused
  <1> QED
    BY <1>1, <1>2, <1>3, <1>4, <1>5, <1>6, <1>7, <1>8, <1>9, <1>10, <1>11, <1>12 DEF Settled

\* An ending: in the class of the member's failures only when nobody is left.
LEMMA SettledAlone ==
    ASSUME Request!RequestChainAssumption, RequestInv, Settled
    PROVE  Request!EndsWhenAlone'
PROOF
  <1> USE DEF RequestInv, RequestSound, Left, Attempting, Request!TypeOK, Request!EndsWhenAlone,
        Request!passVars, Request!historyVars
  <1>1. CASE Request!OverBudget
    BY <1>1 DEF Request!OverBudget, Request!Ends
  <1>2. CASE Request!Admitted
    BY <1>2 DEF Request!Admitted
  <1>3. CASE Request!FirstToken
    BY <1>3 DEF Request!FirstToken
  <1>4. CASE Request!StallTimer
    BY <1>4 DEF Request!StallTimer
  <1>5. CASE Request!BudgetExpires
    BY <1>5 DEF Request!BudgetExpires
  <1>6. CASE Request!CallerAborts
    BY <1>6 DEF Request!CallerAborts
  <1>7. CASE Request!Wake
    BY <1>7 DEF Request!Wake
  <1>8. CASE Request!WakeAborted
    BY <1>8 DEF Request!WakeAborted, Request!Ends
  <1>9. CASE Request!Done
    BY <1>9 DEF Request!Done, Request!OnWire, Request!Ends, Request!AttemptOver, Request!NoNotes
  <1>10. CASE Request!Truncated
    BY <1>10 DEF Request!Truncated, Request!OnWire, Request!AttemptOver, Request!NoNotes
  <1>11. CASE Request!ContentError
    BY <1>11 DEF Request!ContentError, Request!OnWire, Request!Ends, Request!AttemptOver,
        Request!NoNotes
  <1>12. CASE Request!Refusal
    BY <1>12 DEF Request!Refusal, Request!OnWire, Request!Ends, Request!AttemptOver,
        Request!NoNotes, Request!Unused
  <1> QED
    BY <1>1, <1>2, <1>3, <1>4, <1>5, <1>6, <1>7, <1>8, <1>9, <1>10, <1>11, <1>12 DEF Settled

\* The types.
LEMMA SettledTyped ==
    ASSUME Request!RequestChainAssumption, RequestInv, Settled
    PROVE  Request!TypeOK'
PROOF
  <1> USE DEF RequestInv, RequestSound, Attempting, Request!TypeOK,
        Request!RequestChainAssumption, Request!passVars, Request!historyVars
  <1>1. CASE Request!OverBudget
    BY <1>1 DEF Request!OverBudget, Request!Ends
  <1>2. CASE Request!Admitted
    BY <1>2 DEF Request!Admitted
  <1>3. CASE Request!FirstToken
    BY <1>3 DEF Request!FirstToken
  <1>4. CASE Request!StallTimer
    BY <1>4 DEF Request!StallTimer
  <1>5. CASE Request!BudgetExpires
    BY <1>5 DEF Request!BudgetExpires
  <1>6. CASE Request!CallerAborts
    BY <1>6 DEF Request!CallerAborts
  <1>7. CASE Request!Wake
    BY <1>7 DEF Request!Wake
  <1>8. CASE Request!WakeAborted
    BY <1>8 DEF Request!WakeAborted, Request!Ends
  <1>9. CASE Request!Done
    BY <1>9 DEF Request!Done, Request!OnWire, Request!Ends, Request!AttemptOver, Request!NoNotes
  <1>10. CASE Request!Truncated
    BY <1>10 DEF Request!Truncated, Request!OnWire, Request!AttemptOver, Request!NoNotes
  <1>11. CASE Request!ContentError
    BY <1>11 DEF Request!ContentError, Request!OnWire, Request!Ends, Request!AttemptOver,
        Request!NoNotes
  <1>12. CASE Request!Refusal
    BY <1>12 DEF Request!Refusal, Request!OnWire, Request!Ends, Request!AttemptOver,
        Request!NoNotes, Request!Unused
  <1> QED
    BY <1>1, <1>2, <1>3, <1>4, <1>5, <1>6, <1>7, <1>8, <1>9, <1>10, <1>11, <1>12 DEF Settled

\* What can serve changes while the request waits for an answer.
LEMMA FlipSound ==
    ASSUME Request!RequestChainAssumption, RequestInv, NEW m \in Request!Members, Request!Flip(m)
    PROVE  RequestInv'
PROOF
  <1>1. /\ steady' = steady \ {m} /\ flips' = flips + 1 /\ flips < MaxFlips
        /\ \E h \in {"well", "due", "down"} : health' = [health EXCEPT ![m] = h]
        /\ UNCHANGED <<requestPhase, served, used, refused, excluded, failedGroups, notes, clock,
                       cut, callerAborted, trips, result, total, reissues>>
    BY DEF Request!Flip, Request!passVars
  <1>2. Left' \subseteq Left
    BY <1>1 DEF Left
  <1>3. Request!TypeOK'
    BY <1>1 DEF RequestInv, Request!TypeOK, Request!RequestChainAssumption
  <1>4. RequestSound'
    <2>1. \A n \in steady' : health'[n] = "well"
      BY <1>1 DEF RequestInv, RequestSound, Request!TypeOK
    <2> QED
      BY <1>1, <1>2, <2>1 DEF RequestInv, RequestSound, Attempting
  <1>5. Request!EndsWhenAlone'
    BY <1>1 DEF RequestInv, Request!EndsWhenAlone
  <1> QED
    BY <1>3, <1>4, <1>5 DEF RequestInv

LEMMA RequestInit == ASSUME Request!RequestChainAssumption PROVE Request!Init => RequestInv
PROOF
  <1> SUFFICES ASSUME Request!Init PROVE RequestInv
    OBVIOUS
  <1>1. /\ \A n \in Request!Members : used[n] = 0 /\ total[n] = 0
        /\ used \in [Request!Members -> 0..Quota] /\ total \in [Request!Members -> 0..(Quota + 1)]
    BY DEF Request!Init, Request!Unused, Request!RequestChainAssumption
  <1>2. Request!TypeOK
    <2>1. (result = "none") = (requestPhase # "ended")
      BY DEF Request!Init
    <2>2. notes \in [moves : BOOLEAN, falls : BOOLEAN, yields : BOOLEAN, last : BOOLEAN]
      BY DEF Request!Init, Request!NoNotes
    <2>3. /\ health \in [Request!Members -> {"well", "due", "down"}]
          /\ {refused, excluded, steady} \subseteq SUBSET Request!Members
      BY DEF Request!Init
    <2>4. /\ requestPhase = "choosing" /\ served = 0 /\ failedGroups = {} /\ cut = "none"
          /\ clock \in {"off", "running"} /\ callerAborted = FALSE
          /\ trips = 0 /\ flips = 0 /\ reissues = 0 /\ result = "none"
      BY DEF Request!Init
    <2>5. served \in 0..ChainLength /\ trips \in 0..(MaxTrips + 1)
          /\ flips \in 0..MaxFlips /\ reissues \in 0..MaxReissues
      BY <2>4 DEF Request!RequestChainAssumption
    <2> QED
      BY <1>1, <2>1, <2>2, <2>3, <2>4, <2>5 DEF Request!TypeOK
  <1>3. RequestSound
    BY <1>1 DEF Request!Init, RequestSound, Attempting, Left, Request!RequestChainAssumption
  <1>4. Request!EndsWhenAlone
    BY DEF Request!Init, Request!EndsWhenAlone
  <1> QED
    BY <1>2, <1>3, <1>4 DEF RequestInv

LEMMA RequestStep ==
    ASSUME Request!RequestChainAssumption
    PROVE  RequestInv /\ [Request!Next]_(Request!vars) => RequestInv'
PROOF
  <1> SUFFICES ASSUME RequestInv, [Request!Next]_(Request!vars) PROVE RequestInv'
    OBVIOUS
  <1>1. CASE Request!Dispatch
    BY <1>1, DispatchSound
  <1>2. CASE Settled
    BY <1>2, SettledSound, SettledAlone, SettledTyped DEF RequestInv
  <1>3. CASE Request!Errs
    <2>1. PICK listed \in BOOLEAN : Request!Fails(FALSE, FALSE, listed)
      BY <1>3 DEF Request!Errs
    <2>2. Attempting
      BY <1>3 DEF Request!Errs, Request!OnWire, Attempting
    <2> QED
      BY <2>1, <2>2, FailsSound
  <1>4. CASE Request!Degenerates
    <2>1. Attempting /\ ~callerAborted /\ Request!Fails(FALSE, TRUE, FALSE)
      BY <1>4 DEF Request!Degenerates, Attempting
    <2> QED
      BY <2>1, FailsSound
  <1>5. CASE Request!AttemptAborted
    <2>1. Attempting
      BY <1>5 DEF Request!AttemptAborted, Attempting
    <2>2. CASE Request!Stalled
      <3>1. PICK stall \in BOOLEAN : stall <=> cut = "stall" \/ requestPhase # "producing"
        OBVIOUS
      <3>2. Request!Fails(cut = "stall" \/ requestPhase # "producing", FALSE, FALSE)
        BY <1>5, <2>2 DEF Request!AttemptAborted
      <3>3. (cut = "stall" \/ requestPhase # "producing") \in BOOLEAN
        OBVIOUS
      <3> QED
        BY <2>1, <3>2, <3>3, FailsSound
    <2>3. CASE ~Request!Stalled
      <3>1. /\ requestPhase' = "ended" /\ result' = "aborted"
            /\ notes' = Request!NoNotes /\ cut' = "none"
            /\ UNCHANGED <<health, served, used, refused, excluded, failedGroups, clock,
                           callerAborted, trips, steady, total, flips, reissues>>
        BY <1>5, <2>3 DEF Request!AttemptAborted, Request!Ends, Request!AttemptOver,
            Request!passVars, Request!historyVars
      <3>2. Request!TypeOK'
        BY <3>1 DEF RequestInv, Request!TypeOK, Request!NoNotes
      <3>3. RequestSound' /\ Request!EndsWhenAlone'
        BY <3>1 DEF RequestInv, RequestSound, Attempting, Left, Request!EndsWhenAlone
      <3> QED
        BY <3>2, <3>3 DEF RequestInv
    <2> QED
      BY <2>2, <2>3
  <1>6. CASE \E m \in Request!Members : Request!Flip(m)
    BY <1>6, FlipSound
  <1>7. CASE UNCHANGED Request!vars
    <2>1. Request!TypeOK'
      BY <1>7 DEF RequestInv, Request!TypeOK, Request!vars
    <2>2. RequestSound' /\ Request!EndsWhenAlone'
      BY <1>7 DEF RequestInv, RequestSound, Attempting, Left, Request!EndsWhenAlone, Request!vars
    <2> QED
      BY <2>1, <2>2 DEF RequestInv
  <1> QED
    BY <1>1, <1>2, <1>3, <1>4, <1>5, <1>6, <1>7 DEF Request!Next, Request!Settles, Settled

LEMMA RequestImplies ==
    ASSUME Request!RequestChainAssumption
    PROVE  RequestInv => Request!TypeOK /\ Request!UntriedReached /\ Request!EndsWhenAlone
PROOF
  <1> SUFFICES ASSUME RequestInv PROVE Request!UntriedReached
    BY DEF RequestInv
  <1> SUFFICES ASSUME NEW m \in Left, total[m] = 0, NEW n \in Request!Members
               PROVE  total[n] <= Quota
    BY DEF Request!UntriedReached, Left
  <1>1. total[n] = used[n]
    BY DEF RequestInv, RequestSound
  <1>2. used[n] \in 0..Quota
    BY DEF RequestInv, Request!TypeOK
  <1> QED
    BY <1>1, <1>2 DEF Request!RequestChainAssumption

\* What a step of the request never does, in a state of the invariant.
LEMMA RequestStepsAre ==
    ASSUME Request!RequestChainAssumption, RequestInv, [Request!Next]_(Request!vars)
    PROVE  Request!NeverAskedAgain /\ Request!TokensAreSafe
PROOF
  <1>1. Request!NeverAskedAgain
    <2> SUFFICES ASSUME requestPhase = "choosing", requestPhase' = "admission",
                        served' \in refused \cup excluded
                 PROVE  Request!Members \subseteq refused \cup excluded
      BY DEF Request!NeverAskedAgain
    <2>1. Request!Dispatch
      BY DEF Request!Next, Request!Settles, Request!OverBudget, Request!Ends, Request!Admitted,
          Request!FirstToken, Request!StallTimer, Request!BudgetExpires, Request!CallerAborts,
          Request!Wake, Request!WakeAborted, Request!Done, Request!Truncated, Request!Errs,
          Request!Degenerates, Request!ContentError, Request!Refusal, Request!AttemptAborted,
          Request!OnWire, Request!Flip, Request!vars
    <2>2. PICK m \in Request!Members, anew \in BOOLEAN :
              /\ Request!Serve(m, anew)
              /\ m \in refused \cup excluded => Request!Members \subseteq refused \cup excluded
      BY <2>1, Dispatched
    <2>3. served' = m
      BY <2>2 DEF Request!Serve
    <2> QED
      BY <2>2, <2>3
  <1>2. Request!TokensAreSafe
    <2> SUFFICES ASSUME requestPhase = "producing" PROVE cut' \in {cut, "none", "caller"}
      BY DEF Request!TokensAreSafe
    <2>1. CASE \E stall, trip, listed \in BOOLEAN : Request!Fails(stall, trip, listed)
      BY <2>1 DEF Request!Fails, Request!AttemptOver
    <2>2. CASE Request!Errs \/ Request!Degenerates \/ Request!AttemptAborted
      <3>1. cut' = "none"
        BY <2>2 DEF Request!Errs, Request!Degenerates, Request!AttemptAborted,
            Request!Fails, Request!AttemptOver
      <3> QED
        BY <3>1
    <2>3. CASE \/ Request!Done \/ Request!Truncated \/ Request!ContentError \/ Request!Refusal
      BY <2>3 DEF Request!Done, Request!Truncated, Request!ContentError, Request!Refusal,
          Request!AttemptOver
    <2>4. CASE \/ Request!Dispatch \/ Request!OverBudget \/ Request!Admitted
               \/ Request!FirstToken \/ Request!StallTimer \/ Request!BudgetExpires
               \/ Request!CallerAborts \/ Request!Wake \/ Request!WakeAborted
               \/ (\E m \in Request!Members : Request!Flip(m)) \/ UNCHANGED Request!vars
      BY <2>4 DEF Request!Dispatch, Request!OverBudget, Request!Admitted, Request!FirstToken,
          Request!StallTimer, Request!BudgetExpires, Request!CallerAborts, Request!Wake,
          Request!WakeAborted, Request!Flip, Request!vars
    <2> QED
      BY <2>2, <2>3, <2>4 DEF Request!Next, Request!Settles
  <1> QED
    BY <1>1, <1>2

\* A request over its chain of models, whatever becomes of their health and of the clocks: a
\* member that could have served all along is asked before another has had more than its
\* attempts, and no failure ends the request before it was.
THEOREM NobodyPassedOver ==
    ASSUME Request!RequestChainAssumption
    PROVE  Request!Spec => [](Request!UntriedReached /\ Request!EndsWhenAlone)
PROOF
  <1>1. Request!Init => RequestInv
    BY RequestInit
  <1>2. RequestInv /\ [Request!Next]_(Request!vars) => RequestInv'
    BY RequestStep
  <1>3. RequestInv => Request!UntriedReached /\ Request!EndsWhenAlone
    BY RequestImplies
  <1> QED
    BY <1>1, <1>2, <1>3, PTL DEF Request!Spec

\* No member that refused the request or was excluded from it is asked again while another is
\* left, and no clock cuts an attempt that has produced a token.
THEOREM NobodyAskedAgain ==
    ASSUME Request!RequestChainAssumption
    PROVE  Request!Spec => [][Request!NeverAskedAgain /\ Request!TokensAreSafe]_(Request!vars)
PROOF
  <1>1. Request!Init => RequestInv
    BY RequestInit
  <1>2. RequestInv /\ [Request!Next]_(Request!vars) => RequestInv'
    BY RequestStep
  <1>3. RequestInv /\ [Request!Next]_(Request!vars)
            => [Request!NeverAskedAgain /\ Request!TokensAreSafe]_(Request!vars)
    BY RequestStepsAre
  <1> QED
    BY <1>1, <1>2, <1>3, PTL DEF Request!Spec

=============================================================================
