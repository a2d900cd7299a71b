----------------------------- MODULE StoreProofs -----------------------------
(***************************************************************************)
(* Proofs about the components that work on the rows of the store, for     *)
(* every value of their constants: MessageEdits, a message with its edits  *)
(* and the sweep that decrypts them, WorkerPool, the pools that enrich and *)
(* caption, SummaryJobs, the writes of a summarization job, BackfetchJob,  *)
(* the descents into a room's history, and DiaryJobs, the writes of a      *)
(* diary job and the file they end in.  The variables have the names       *)
(* MCComponents gives them.                                                *)
(***************************************************************************)
EXTENDS FiniteSetTheorems, FunctionTheorems, SequenceTheorems, WellFoundedInduction, TLAPS

CONSTANTS Edits, MaxAttempts, BatchSize, Window, MaxSweepRestarts
VARIABLES key, renderable, messageRow, shown, last, parked, probes, backoff, todo, applied,
          sweepRestarts, heard, blind

Message == INSTANCE MessageEdits WITH
    MaxRestarts <- MaxSweepRestarts,
    row <- messageRow, attempts <- probes, restarts <- sweepRestarts

-----------------------------------------------------------------------------
(***************************************************************************)
(* MessageEdits.                                                           *)
(***************************************************************************)
\* The version n is that of the newest edit that was applied or parked.
IsNewest(n) == n \in heard \cup {0} /\ \A e \in heard : e <= n

\* What has the newest edit, while the message is absent, undecryptable and shown.
EditHeld ==
    /\ messageRow[0] = "absent" => IsNewest(parked)
    /\ messageRow[0] # "absent" => IsNewest(last)
    /\ messageRow[0] = "message" /\ ~blind => IsNewest(shown)
    /\ messageRow[0] = "utd" /\ ~blind => heard = {}

\* A row is probed only while it is undecryptable and not given up, and between the two
\* writes of a decrypted edit the row in hand is one whose edit was heard.
Probing ==
    /\ \A e \in todo : messageRow[e] = "utd" /\ probes[e] < MaxAttempts
    /\ applied => \E e \in todo : Message!IsNext(e) /\ e \in heard

MessageInv ==
    /\ Message!TypeOK /\ 0 \notin heard
    /\ Probing
    /\ messageRow[0] = "message" => renderable
    /\ renderable => EditHeld

\* The greatest of a set of numbers is known by its bound.
LEMMA MaxIs ==
    ASSUME NEW S \in SUBSET Int, NEW m \in S, \A x \in S : x <= m
    PROVE  Message!Max(S) = m
PROOF
  <1>1. \A y \in S : m >= y
    OBVIOUS
  <1>2. Message!Max(S) \in S /\ \A y \in S : Message!Max(S) >= y
    BY <1>1, Zenon DEF Message!Max
  <1>3. m >= Message!Max(S) /\ Message!Max(S) >= m
    BY <1>1, <1>2, Zenon
  <1>4. m \in Int /\ Message!Max(S) \in Int
    BY <1>2, Zenon
  <1> QED
    BY <1>3, <1>4

\* Which of two edits waits for the message.
LEMMA ParkingIs ==
    ASSUME NEW e \in Nat, parked \in Nat
    PROVE  Message!Parking(e) = IF parked <= e THEN e ELSE parked
PROOF
  <1>1. {parked, e} \in SUBSET Int
    OBVIOUS
  <1>2. CASE parked <= e
    <2>1. \A x \in {parked, e} : x <= e
      BY <1>2
    <2> QED
      BY <1>1, <1>2, <2>1, MaxIs DEF Message!Parking
  <1>3. CASE ~(parked <= e)
    <2>1. \A x \in {parked, e} : x <= parked
      BY <1>3
    <2> QED
      BY <1>1, <1>3, <2>1, MaxIs DEF Message!Parking
  <1> QED
    BY <1>2, <1>3

\* An edit that is applied or parked is the newest when nothing newer was.
LEMMA EditApplied ==
    ASSUME MessageInv, NEW e \in Message!Events \ {0}, Message!ApplyEdit(e),
           messageRow'[0] = messageRow[0], renderable' = renderable
    PROVE  /\ {shown', last', parked'} \subseteq Message!Events
           /\ heard' \in SUBSET Message!Events /\ 0 \notin heard' /\ blind' \in BOOLEAN
           /\ renderable' => EditHeld'
PROOF
  <1> USE DEF MessageInv
  <1>1. e \in Nat /\ e # 0 /\ heard' = heard \cup {e}
    BY DEF Message!ApplyEdit, Message!Events
  <1>2. {shown, last, parked} \subseteq Message!Events /\ heard \subseteq Message!Events
            /\ blind \in BOOLEAN
    BY DEF Message!TypeOK
  <1>3. {shown, last, parked} \subseteq Nat /\ heard \subseteq Nat
    BY <1>2 DEF Message!Events
  <1>4. CASE messageRow[0] = "absent"
    <2>1. parked' = (IF parked <= e THEN e ELSE parked) /\ UNCHANGED <<shown, last, blind>>
      BY <1>1, <1>3, <1>4, ParkingIs DEF Message!ApplyEdit
    <2>2. IsNewest(parked) => IsNewest(parked)'
      BY <1>1, <1>3, <2>1 DEF IsNewest
    <2> QED
      BY <1>1, <1>2, <1>4, <2>1, <2>2 DEF EditHeld
  <1>5. CASE messageRow[0] # "absent" /\ e < last
    <2>1. UNCHANGED <<shown, last, parked, blind>>
      BY <1>5 DEF Message!ApplyEdit, Message!IsStale
    <2>2. ASSUME NEW n \in Nat, IsNewest(last), IsNewest(n) PROVE IsNewest(n)'
      BY <1>1, <1>3, <1>5, <2>2 DEF IsNewest
    <2>3. IsNewest(last) => heard # {}
      BY <1>1, <1>3, <1>5 DEF IsNewest
    <2> QED
      BY <1>1, <1>2, <1>3, <1>5, <2>1, <2>2, <2>3 DEF EditHeld
  <1>6. CASE messageRow[0] # "absent" /\ ~(e < last)
    <2>1. shown' = e /\ last' = e /\ blind' = (messageRow[0] = "utd") /\ UNCHANGED parked
      BY <1>6 DEF Message!ApplyEdit, Message!IsStale
    <2>2. IsNewest(last) => \A x \in heard' : x <= e
      BY <1>1, <1>3, <1>6 DEF IsNewest
    <2> QED
      BY <1>1, <1>2, <1>6, <2>1, <2>2 DEF EditHeld, IsNewest
  <1> QED
    BY <1>4, <1>5, <1>6

LEMMA MessageInit == ASSUME Message!MessageEditsAssumption, Message!Init PROVE MessageInv
PROOF
  <1>1. 0 \in Message!Events
    BY DEF Message!MessageEditsAssumption, Message!Events
  <1>2. 0 \in 0..MaxAttempts /\ 0 \in 0..MaxSweepRestarts
    BY DEF Message!MessageEditsAssumption
  <1>3. Message!TypeOK
    BY <1>1, <1>2 DEF Message!Init, Message!TypeOK
  <1> QED
    BY <1>1, <1>3 DEF Message!Init, MessageInv, Probing, EditHeld, IsNewest

\* A step that leaves the store alone.
LEMMA StoreAlone ==
    ASSUME MessageInv, UNCHANGED <<renderable, messageRow, shown, last, parked, heard, blind>>,
           Message!TypeOK', Probing'
    PROVE  MessageInv'
  BY DEF MessageInv, EditHeld, IsNewest

\* The probes of the sweep that change no message, and a restart.
LEMMA SweepStep ==
    ASSUME Message!MessageEditsAssumption, MessageInv,
           \/ Message!Tick \/ Message!Restart
           \/ \E e \in Message!Events : Message!ProbeFails(e) \/ Message!KeyArrives(e)
                                        \/ Message!BackoffElapses(e)
    PROVE  MessageInv'
PROOF
  <1> USE DEF Message!storeVars, Message!sweepVars, Message!historyVars
  <1>1. Message!TypeOK /\ Probing
    BY DEF MessageInv
  <1>2. CASE Message!Tick
    <2>1. todo' \subseteq {e \in Message!Events : messageRow[e] = "utd"
              /\ probes[e] < MaxAttempts} /\ ~applied
      BY <1>1, <1>2, Zenon DEF Message!Tick, Message!Oldest, Message!Rotation, Probing
    <2>2. \A e \in todo' : messageRow[e] = "utd" /\ probes[e] < MaxAttempts
      BY <2>1, Zenon
    <2>3. Message!TypeOK'
      BY <1>1, <1>2, <2>1 DEF Message!Tick, Message!TypeOK
    <2> QED
      BY <1>2, <2>1, <2>2, <2>3, StoreAlone DEF Message!Tick, Probing
  <1>3. CASE Message!Restart
    <2>2. sweepRestarts' \in 0..MaxSweepRestarts
      BY <1>1, <1>3 DEF Message!Restart, Message!TypeOK, Message!MessageEditsAssumption
    <2>1. Message!TypeOK'
      BY <1>1, <1>3, <2>2 DEF Message!Restart, Message!TypeOK
    <2> QED
      BY <1>3, <2>1, StoreAlone DEF Message!Restart, Probing
  <1>4. ASSUME NEW e \in Message!Events, Message!ProbeFails(e) PROVE MessageInv'
    <2>1. e \in todo /\ ~applied /\ probes[e] < MaxAttempts
      BY <1>1, <1>4 DEF Message!ProbeFails, Message!Probed, Message!IsNext, Probing
    <2>2. Message!TypeOK'
      BY <1>1, <1>4, <2>1 DEF Message!ProbeFails, Message!Counted, Message!TypeOK,
         Message!MessageEditsAssumption
    <2>3. Probing'
      BY <1>1, <1>4, <2>1 DEF Message!ProbeFails, Message!Counted, Probing, Message!TypeOK
    <2> QED
      BY <1>4, <2>2, <2>3, StoreAlone DEF Message!ProbeFails
  <1>5. ASSUME NEW e \in Message!Events, Message!KeyArrives(e) PROVE MessageInv'
    <2>1. Message!TypeOK'
      BY <1>1, <1>5 DEF Message!KeyArrives, Message!TypeOK
    <2> QED
      BY <1>1, <1>5, <2>1, StoreAlone DEF Message!KeyArrives, Probing, Message!IsNext
  <1>6. ASSUME NEW e \in Message!Events, Message!BackoffElapses(e) PROVE MessageInv'
    <2>1. Message!TypeOK'
      BY <1>1, <1>6 DEF Message!BackoffElapses, Message!TypeOK
    <2> QED
      BY <1>1, <1>6, <2>1, StoreAlone DEF Message!BackoffElapses, Probing, Message!IsNext
  <1> QED
    BY <1>2, <1>3, <1>4, <1>5, <1>6

\* The message arrives, once.
LEMMA MessageArrives ==
    ASSUME Message!MessageEditsAssumption, MessageInv, Message!ArriveMessage
    PROVE  MessageInv'
PROOF
  <1> USE DEF Message!storeVars, Message!sweepVars, Message!historyVars
  <1>1. Message!TypeOK /\ Probing /\ messageRow[0] = "absent" /\ 0 \in Message!Events
    BY DEF MessageInv, Message!ArriveMessage, Message!MessageEditsAssumption, Message!Events
  <1>2. PICK kind \in {"message", "utd"} : Message!Append0(kind) /\ (kind = "message" =>
            renderable)
    BY Zenon DEF Message!ArriveMessage
  <1>3. messageRow'[0] = kind /\ shown' = parked /\ last' = parked /\ parked' = 0
        /\ blind' = (kind = "utd" /\ parked > 0)
    BY <1>1, <1>2 DEF Message!Append0, Message!TypeOK
  <1>4. UNCHANGED <<key, renderable, probes, backoff, todo, applied, sweepRestarts, heard>>
    BY DEF Message!ArriveMessage
  <1>5. Message!TypeOK'
    BY <1>1, <1>2, <1>3, <1>4 DEF Message!Append0, Message!TypeOK
  <1>6. Probing'
    BY <1>1, <1>2, <1>4 DEF Probing, Message!IsNext, Message!Append0, Message!TypeOK
  <1>7. parked \in Nat /\ heard \subseteq Nat \ {0}
    BY <1>1 DEF Message!TypeOK, Message!Events, MessageInv
  <1>8. renderable => EditHeld'
    <2> SUFFICES ASSUME renderable PROVE EditHeld'
      OBVIOUS
    <2>1. IsNewest(parked)
      BY <1>1 DEF MessageInv, EditHeld
    <2>2. parked = 0 => heard = {}
      BY <1>7, <2>1 DEF IsNewest
    <2>3. IsNewest(last)'
      BY <1>3, <1>4, <2>1 DEF IsNewest
    <2>4. CASE kind = "message"
      BY <1>3, <2>3, <2>4 DEF EditHeld, IsNewest
    <2>5. CASE kind = "utd"
      <3>1. ~blind' => parked = 0
        <4>1. parked # 0 => parked > 0
          BY <1>7
        <4> QED
          BY <1>3, <2>5, <4>1, Zenon
      <3> QED
        BY <1>3, <1>4, <2>2, <2>3, <2>5, <3>1, Zenon DEF EditHeld
    <2> QED
      BY <2>4, <2>5
  <1> QED
    BY <1>2, <1>3, <1>4, <1>5, <1>6, <1>8 DEF MessageInv

\* An edit arrives, readable or not.
LEMMA EditArrives ==
    ASSUME MessageInv, NEW e \in Message!Events \ {0}, Message!ArriveEdit(e)
    PROVE  MessageInv'
PROOF
  <1> USE DEF Message!storeVars, Message!sweepVars, Message!historyVars
  <1>1. Message!TypeOK /\ Probing
    BY DEF MessageInv
  <1>2. UNCHANGED <<key, renderable, probes, backoff, todo, applied, sweepRestarts>>
    BY DEF Message!ArriveEdit
  <1>3. CASE Message!ApplyEdit(e) /\ UNCHANGED messageRow
    <2>1. /\ {shown', last', parked'} \subseteq Message!Events
          /\ heard' \in SUBSET Message!Events /\ 0 \notin heard' /\ blind' \in BOOLEAN
          /\ renderable' => EditHeld'
      BY <1>2, <1>3, EditApplied
    <2>2. Message!TypeOK'
      BY <1>1, <1>2, <1>3, <2>1 DEF Message!TypeOK
    <2>3. Probing'
      BY <1>1, <1>2, <1>3 DEF Probing, Message!IsNext, Message!ApplyEdit
    <2> QED
      BY <1>2, <1>3, <2>1, <2>2, <2>3 DEF MessageInv
  <1>4. CASE messageRow' = [messageRow EXCEPT ![e] = "utd"]
                 /\ UNCHANGED <<shown, last, parked, heard, blind>>
    <2>1. messageRow'[0] = messageRow[0]
      BY <1>1, <1>4 DEF Message!TypeOK
    <2>2. Message!TypeOK'
      BY <1>1, <1>2, <1>4 DEF Message!TypeOK
    <2>3. Probing'
      BY <1>1, <1>2, <1>4 DEF Probing, Message!IsNext
    <2> QED
      BY <1>2, <1>4, <2>1, <2>2, <2>3 DEF MessageInv, EditHeld, IsNewest
  <1> QED
    BY <1>3, <1>4 DEF Message!ArriveEdit

\* The message is decrypted: it shows its own text, or goes.
LEMMA MessageDecrypted ==
    ASSUME Message!MessageEditsAssumption, MessageInv, Message!ProbeDecrypts
    PROVE  MessageInv'
PROOF
  <1> USE DEF Message!storeVars, Message!sweepVars, Message!historyVars
  <1>1. Message!TypeOK /\ Probing /\ 0 \in Message!Events /\ ~applied
    BY DEF MessageInv, Message!ProbeDecrypts, Message!Probed, Message!MessageEditsAssumption,
       Message!Events
  <1>2. UNCHANGED <<key, renderable, last, parked, probes, applied, sweepRestarts, heard, blind>>
    BY DEF Message!ProbeDecrypts
  <1>3. Message!TypeOK'
    BY <1>1, <1>2 DEF Message!ProbeDecrypts, Message!TypeOK
  <1>4. Probing'
    BY <1>1, <1>2 DEF Probing, Message!ProbeDecrypts, Message!TypeOK
  <1>5. CASE renderable
    <2>1. messageRow'[0] = "message" /\ shown' = 0
      BY <1>1, <1>5 DEF Message!ProbeDecrypts, Message!TypeOK
    <2>2. messageRow[0] = "utd"
      BY <1>1 DEF Probing, Message!ProbeDecrypts, Message!Probed, Message!IsNext
    <2>3. EditHeld'
      BY <1>2, <1>5, <2>1, <2>2 DEF MessageInv, EditHeld, IsNewest
    <2> QED
      BY <1>2, <1>3, <1>4, <1>5, <2>3 DEF MessageInv
  <1>6. CASE ~renderable
    <2>1. messageRow'[0] = "absent"
      BY <1>1, <1>6 DEF Message!ProbeDecrypts, Message!TypeOK
    <2> QED
      BY <1>2, <1>3, <1>4, <1>6, <2>1 DEF MessageInv
  <1> QED
    BY <1>5, <1>6

\* A decrypted edit is applied, and its placeholder goes.
LEMMA EditDecrypted ==
    ASSUME MessageInv, NEW e \in Message!Events,
           Message!ProbeFindsEdit(e) \/ Message!PlaceholderGoes(e)
    PROVE  MessageInv'
PROOF
  <1> USE DEF Message!storeVars, Message!sweepVars, Message!historyVars
  <1>1. Message!TypeOK /\ Probing
    BY DEF MessageInv
  <1>2. CASE Message!ProbeFindsEdit(e)
    <2>1. /\ e # 0 /\ e \in todo /\ Message!IsNext(e) /\ Message!ApplyEdit(e) /\ applied' = TRUE
          /\ UNCHANGED <<key, renderable, messageRow, probes, backoff, todo, sweepRestarts>>
      BY <1>2 DEF Message!ProbeFindsEdit, Message!Probed, Message!IsNext
    <2>2. /\ {shown', last', parked'} \subseteq Message!Events
          /\ heard' \in SUBSET Message!Events /\ 0 \notin heard' /\ blind' \in BOOLEAN
          /\ renderable' => EditHeld'
      BY <2>1, EditApplied
    <2>3. Message!TypeOK'
      BY <1>1, <2>1, <2>2 DEF Message!TypeOK
    <2>4. e \in heard'
      BY <2>1 DEF Message!ApplyEdit
    <2>5. Probing'
      BY <1>1, <2>1, <2>4 DEF Probing, Message!IsNext
    <2> QED
      BY <2>1, <2>2, <2>3, <2>5 DEF MessageInv
  <1>3. CASE Message!PlaceholderGoes(e)
    <2>1. e \in heard
      BY <1>1, <1>3 DEF Message!PlaceholderGoes, Message!IsNext, Probing, Message!TypeOK,
                        Message!Events
    <2>2. e # 0
      BY <2>1 DEF MessageInv
    <2>3. /\ messageRow' = [messageRow EXCEPT ![e] = "absent"] /\ todo' = todo \ {e}
                 /\ applied' = FALSE
          /\ UNCHANGED <<key, renderable, shown, last, parked, probes, sweepRestarts, heard,
               blind>>
      BY <1>3 DEF Message!PlaceholderGoes
    <2>4. Message!TypeOK'
      BY <1>1, <1>3, <2>3, ZenonT(60) DEF Message!TypeOK, Message!PlaceholderGoes
    <2>5. Probing'
      BY <1>1, <2>3 DEF Probing, Message!TypeOK
    <2>6. messageRow'[0] = messageRow[0]
      BY <1>1, <2>2, <2>3 DEF Message!TypeOK
    <2> QED
      BY <2>3, <2>4, <2>5, <2>6 DEF MessageInv, EditHeld, IsNewest
  <1> QED
    BY <1>2, <1>3

LEMMA MessageStep ==
    ASSUME Message!MessageEditsAssumption, MessageInv, [Message!Next]_(Message!vars)
    PROVE  MessageInv'
PROOF
  <1>1. CASE Message!Next
    BY <1>1, SweepStep, MessageArrives, EditArrives, MessageDecrypted, EditDecrypted
       DEF Message!Next, Message!Sweeps
  <1>2. CASE UNCHANGED Message!vars
    BY <1>2 DEF Message!vars, Message!storeVars, Message!sweepVars, Message!historyVars,
       MessageInv, Message!TypeOK, Probing, Message!IsNext, EditHeld, IsNewest
  <1> QED
    BY <1>1, <1>2

LEMMA MessageSafe == ASSUME MessageInv PROVE Message!ShowsNewest
PROOF
  <1>1. heard \cup {0} \in SUBSET Int
    BY DEF MessageInv, Message!TypeOK, Message!Events
  <1>2. ASSUME NEW n, IsNewest(n) PROVE Message!Max(heard \cup {0}) = n
    <2>1. n \in heard \cup {0} /\ \A x \in heard \cup {0} : x <= n
      BY <1>1, <1>2 DEF IsNewest, MessageInv, Message!TypeOK, Message!Events
    <2> QED
      BY <1>1, <2>1, MaxIs
  <1> QED
    BY <1>2 DEF MessageInv, EditHeld, Message!ShowsNewest

\* A placeholder does not go before its edit was heard.
LEMMA PlaceholderStays ==
    ASSUME MessageInv, [Message!Next]_(Message!vars)
    PROVE  Message!PlaceholdersStand
PROOF
  <1> USE DEF Message!storeVars, Message!sweepVars, Message!historyVars
  <1> SUFFICES ASSUME NEW e \in Message!Events \ {0}, messageRow[e] = "utd",
                        messageRow'[e] = "absent"
               PROVE  e \in heard
    BY DEF Message!PlaceholdersStand
  <1>1. Message!TypeOK /\ Probing
    BY DEF MessageInv
  <1>2. messageRow' # messageRow
    OBVIOUS
  <1>3. CASE Message!ArriveMessage
    BY <1>1, <1>3 DEF Message!ArriveMessage, Message!Append0, Message!TypeOK
  <1>4. ASSUME NEW d \in Message!Events \ {0}, Message!ArriveEdit(d) PROVE FALSE
    BY <1>1, <1>4 DEF Message!ArriveEdit, Message!TypeOK
  <1>5. CASE Message!ProbeDecrypts
    BY <1>1, <1>5 DEF Message!ProbeDecrypts, Message!TypeOK
  <1>6. ASSUME NEW d \in Message!Events, Message!PlaceholderGoes(d) PROVE e \in heard
    <2>1. d \in heard
      BY <1>1, <1>6 DEF Message!PlaceholderGoes, Message!IsNext, Probing, Message!TypeOK,
                        Message!Events
    <2>2. d = e
      BY <1>1, <1>6 DEF Message!PlaceholderGoes, Message!TypeOK
    <2> QED
      BY <2>1, <2>2
  <1> QED
    BY <1>2, <1>3, <1>4, <1>5, <1>6 DEF Message!Next, Message!Sweeps, Message!vars,
                                        Message!KeyArrives,
       Message!BackoffElapses, Message!Tick, Message!ProbeFails, Message!ProbeFindsEdit,
         Message!Restart

\* In whatever order a message and its edits arrive and become readable, it shows the newest
\* edit heard of, and one that is not stored yet has it parked.
THEOREM NewestShown ==
    ASSUME Message!MessageEditsAssumption PROVE Message!Spec => []Message!ShowsNewest
PROOF
  <1>1. Message!Init => MessageInv
    BY MessageInit
  <1>2. MessageInv /\ [Message!Next]_(Message!vars) => MessageInv'
    BY MessageStep
  <1>3. MessageInv => Message!ShowsNewest
    BY MessageSafe
  <1> QED
    BY <1>1, <1>2, <1>3, PTL DEF Message!Spec

\* The placeholder of an edit does not go before what it stands for was heard.
THEOREM PlaceholdersOutlive ==
    ASSUME Message!MessageEditsAssumption
    PROVE  Message!Spec => [][Message!PlaceholdersStand]_(Message!vars)
PROOF
  <1>1. Message!Init => MessageInv
    BY MessageInit
  <1>2. MessageInv /\ [Message!Next]_(Message!vars) => MessageInv'
    BY MessageStep
  <1>3. MessageInv /\ [Message!Next]_(Message!vars) => [Message!PlaceholdersStand]_(Message!vars)
    BY PlaceholderStays
  <1> QED
    BY <1>1, <1>2, <1>3, PTL DEF Message!Spec

-----------------------------------------------------------------------------
(***************************************************************************)
(* WorkerPool.                                                             *)
(***************************************************************************)
CONSTANTS Jobs, WorkerCount, MaxRetries, CountsAtClaim,
          MaxEdits, MaxRejects, MaxRestarts, MaxRetriedByHand
VARIABLES status, attempts, body, enriched, timer, waker, busy, paused, phase, raced,
          rejects, restarts, byHand

Pool == INSTANCE WorkerPool

\* The workers on a row.
On(j) == {i \in 1..Len(busy) : busy[i].job = j}
Hands(j) == Cardinality(On(j))

\* What is true of a row: a worker on a row that is not processing is one it was edited
\* under, as are two on one row; each such worker is owed to an edit; and a worker works on
\* the text as it reads now, unless it was edited meanwhile.
RowSound(j) ==
    /\ On(j) # {} /\ status[j] # "processing" => raced[j]
    /\ \A i, k \in On(j) : i # k => raced[j]
    /\ Hands(j) <= body[j] + (IF status[j] = "processing" THEN 1 ELSE 0)
    /\ \A i \in On(j) : busy[i].seen = body[j] \/ raced[j]
    /\ status[j] = "complete" => enriched[j] = body[j] \/ raced[j]
    /\ phase = "running" /\ status[j] = "processing" => On(j) # {}
    /\ CountsAtClaim => body[j] = 0

\* How often a row was tried, the attempts under way included that count when they fail.
Tried(j) == attempts[j] + (IF CountsAtClaim THEN 0 ELSE Hands(j))

\* There is an attempt left for a row that waits for one.
Allowed(j) ==
    Tried(j) + (IF status[j] \in {"absent", "pending"} THEN 1 ELSE 0)
        <= MaxRetries + body[j] + restarts

PoolInv ==
    /\ Pool!TypeOK
    /\ Len(busy) <= WorkerCount
    /\ phase = "down" => busy = <<>>
    /\ phase = "down" => restarts < MaxRestarts
    /\ phase = "running" /\ rejects = 0 => timer # "none"
    /\ \A j \in Jobs : RowSound(j) /\ Allowed(j)

-----------------------------------------------------------------------------
LEMMA PoolCardinality == \A S : Pool!Cardinality(S) = Cardinality(S)
                                    /\ Pool!IsFiniteSet(S) = IsFiniteSet(S)
  BY Zenon DEF Pool!Cardinality, Cardinality, Pool!IsFiniteSet, IsFiniteSet

\* A sequence of the members of a finite set, each once.
LEMMA SetAsSeq ==
    ASSUME NEW R, NEW S \in SUBSET R, IsFiniteSet(S)
    PROVE  /\ Cardinality(S) \in Nat
           /\ Pool!SetToSeq(S) \in [1..Cardinality(S) -> S]
           /\ Pool!SetToSeq(S) \in Seq(R) /\ Len(Pool!SetToSeq(S)) = Cardinality(S)
           /\ \A a, b \in 1..Cardinality(S) : Pool!SetToSeq(S)[a] = Pool!SetToSeq(S)[b] => a = b
           /\ \A x \in S : \E a \in 1..Cardinality(S) : Pool!SetToSeq(S)[a] = x
PROOF
  <1> DEFINE n == Cardinality(S)
             T == Pool!SetToSeq(S)
  <1>1. n \in Nat /\ ExistsBijection(1..n, S)
    BY FS_CardinalityType
  <1>2. PICK f \in Bijection(1..n, S) : TRUE
    BY <1>1 DEF ExistsBijection
  <1>3. f \in [1..n -> S] /\ Pool!IsInjective(f)
    BY <1>2 DEF Bijection, Injection, IsInjective, Pool!IsInjective
  <1>4. T \in [1..n -> S] /\ Pool!IsInjective(T)
    BY <1>3, PoolCardinality, Zenon DEF Pool!SetToSeq
  <1>5. T \in Injection(1..n, S)
    BY <1>4 DEF Injection, IsInjective, Pool!IsInjective
  <1>6. T \in Surjection(1..n, S)
    BY <1>1, <1>5, FS_Injection, FS_Interval
  <1>7. T \in Seq(R) /\ Len(T) = n
    <2>1. T \in [1..n -> R]
      BY <1>4
    <2> QED
      BY <1>1, <2>1
  <1> QED
    BY <1>1, <1>4, <1>6, <1>7 DEF Pool!IsInjective, Surjection

\* Where the others are in a sequence from which one was removed.
LEMMA Removed ==
    ASSUME NEW R, NEW s \in Seq(R), NEW i \in 1..Len(s)
    PROVE  /\ Pool!RemoveAt(s, i) \in Seq(R)
           /\ Len(Pool!RemoveAt(s, i)) = Len(s) - 1
           /\ \A k \in 1..(Len(s) - 1) :
                Pool!RemoveAt(s, i)[k] = s[IF k < i THEN k ELSE k + 1]
PROOF
  <1> DEFINE a == SubSeq(s, 1, i - 1)
             b == SubSeq(s, i + 1, Len(s))
  <1>1. a \in Seq(R) /\ Len(a) = i - 1 /\ \A k \in 1..(i - 1) : a[k] = s[k]
    OBVIOUS
  <1>2. b \in Seq(R) /\ Len(b) = Len(s) - i /\ \A k \in 1..(Len(s) - i) : b[k] = s[k + i]
    OBVIOUS
  <1>3. Pool!RemoveAt(s, i) = a \o b
    BY DEF Pool!RemoveAt
  <1> HIDE DEF a, b
  <1>4. a \o b \in Seq(R) /\ Len(a \o b) = Len(s) - 1
    <2>1. a \o b \in Seq(R) /\ Len(a \o b) = Len(a) + Len(b)
      BY <1>1, <1>2, ConcatProperties
    <2>2. Len(s) \in Nat /\ i \in Int
      OBVIOUS
    <2> QED
      BY <1>1, <1>2, <2>1, <2>2
  <1>5. ASSUME NEW k \in 1..(Len(s) - 1) PROVE (a \o b)[k] = s[IF k < i THEN k ELSE k + 1]
    <2>1. CASE k < i
      BY <1>1, <1>2, <2>1
    <2>2. CASE ~(k < i)
      <3>1. (a \o b)[k] = b[k - (i - 1)] /\ k - (i - 1) \in 1..(Len(s) - i)
        BY <1>1, <1>2, <2>2
      <3> QED
        BY <1>2, <2>2, <3>1, SMTT(30)
    <2> QED
      BY <2>1, <2>2
  <1> QED
    BY <1>3, <1>4, <1>5

LEMMA OnFinite ==
    ASSUME Pool!TypeOK, NEW j
    PROVE  IsFiniteSet(On(j)) /\ Hands(j) \in Nat /\ On(j) \subseteq 1..Len(busy)
           /\ (Hands(j) = 0 <=> On(j) = {})
PROOF
  <1>1. Len(busy) \in Nat
    BY DEF Pool!TypeOK
  <1>2. On(j) \subseteq 1..Len(busy)
    BY DEF On
  <1>3. IsFiniteSet(On(j))
    <2>1. IsFiniteSet(1..Len(busy))
      BY <1>1, FS_Interval
    <2> QED
      BY <1>2, <2>1, FS_Subset
  <1> QED
    BY <1>2, <1>3, FS_CardinalityType, FS_EmptySet DEF Hands

\* A worker leaves.
LEMMA FewerHands ==
    ASSUME Pool!TypeOK, NEW i \in 1..Len(busy), busy' = Pool!RemoveAt(busy, i), NEW j
    PROVE  /\ busy' \in Seq([job : Jobs, seen : 0..MaxEdits]) /\ Len(busy') = Len(busy) - 1
           /\ \A k \in On(j)' : \E m \in On(j) : m # i /\ busy'[k] = busy[m]
           /\ Hands(j)' <= Hands(j) /\ Hands(j)' \in Nat
           /\ busy[i].job = j => Hands(j)' <= Hands(j) - 1
           /\ busy[i].job # j /\ On(j) # {} => On(j)' # {}
           /\ \A k, l \in On(j)' : k # l => \E m, o \in On(j) : m # o
PROOF
  <1> DEFINE R == [job : Jobs, seen : 0..MaxEdits]
             f == [k \in On(j)' |-> IF k < i THEN k ELSE k + 1]
  <1>0. busy \in Seq(R) /\ Len(busy) \in Nat
    BY DEF Pool!TypeOK
  <1>1. /\ busy' \in Seq(R) /\ Len(busy') = Len(busy) - 1
        /\ \A k \in 1..(Len(busy) - 1) : busy'[k] = busy[IF k < i THEN k ELSE k + 1]
    BY <1>0, Removed
  <1> HIDE DEF R
  <1>2. \A k \in On(j)' : k \in 1..(Len(busy) - 1) /\ busy'[k].job = j
    BY <1>1 DEF On
  <1>3. ASSUME NEW k \in On(j)' PROVE f[k] \in On(j) \ {i} /\ busy'[k] = busy[f[k]] /\ k \in Int
    <2>1. k \in 1..(Len(busy) - 1) /\ busy'[k] = busy[f[k]] /\ busy'[k].job = j
      BY <1>1, <1>2
    <2>2. f[k] \in 1..Len(busy) /\ f[k] # i
      BY <1>0, <2>1
    <2> QED
      BY <2>1, <2>2 DEF On
  <1>4. f \in Injection(On(j)', On(j) \ {i})
    <2>1. f \in [On(j)' -> On(j) \ {i}]
      BY <1>3
    <2>2. ASSUME NEW k \in On(j)', NEW l \in On(j)', f[k] = f[l] PROVE k = l
      BY <1>3, <2>2
    <2> QED
      BY <2>1, <2>2, Fun_IsInj
  <1>5. IsFiniteSet(On(j)) /\ Hands(j) \in Nat
    BY OnFinite
  <1>6. IsFiniteSet(On(j) \ {i})
            /\ Cardinality(On(j) \ {i}) = IF i \in On(j) THEN Hands(j) - 1 ELSE Hands(j)
    BY <1>5, FS_RemoveElement DEF Hands
  <1>7. IsFiniteSet(On(j)') /\ Cardinality(On(j)') <= Cardinality(On(j) \ {i})
    BY <1>4, <1>6, FS_Injection
  <1>8. Hands(j)' \in Nat /\ Hands(j)' = Cardinality(On(j)')
    BY <1>7, FS_CardinalityType DEF Hands
  <1>9. busy[i].job = j => i \in On(j)
    BY DEF On
  <1>10. ASSUME busy[i].job # j, NEW m \in On(j) PROVE On(j)' # {}
    <2>1. m \in 1..Len(busy) /\ busy[m].job = j /\ m # i
      BY <1>10 DEF On
    <2>2. CASE m < i
      <3>1. m \in 1..(Len(busy) - 1) /\ busy'[m] = busy[m]
        BY <1>0, <1>1, <2>1, <2>2
      <3> QED
        BY <1>1, <2>1, <3>1 DEF On
    <2>3. CASE ~(m < i)
      <3>1. m - 1 \in 1..(Len(busy) - 1) /\ busy'[m - 1] = busy[m]
        BY <1>0, <1>1, <2>1, <2>3
      <3> QED
        BY <1>1, <2>1, <3>1 DEF On
    <2> QED
      BY <2>2, <2>3
  <1>11. \A k, l \in On(j)' : k # l => f[k] # f[l]
    BY <1>3
  <1> HIDE DEF f
  <1>12. Hands(j)' <= Hands(j) /\ (busy[i].job = j => Hands(j)' <= Hands(j) - 1)
    BY <1>5, <1>6, <1>7, <1>8, <1>9
  <1>13. \A k \in On(j)' : \E m \in On(j) : m # i /\ busy'[k] = busy[m]
    BY <1>3
  <1>14. \A k, l \in On(j)' : k # l => \E m, o \in On(j) : m # o
    BY <1>3, <1>11
  <1> QED
    BY <1>1, <1>8, <1>10, <1>12, <1>13, <1>14 DEF R

\* A poll starts a worker for each row of S.
Started(S) == busy' = busy \o Pool!SetToSeq({[job |-> j, seen |-> body[j]] : j \in S})

LEMMA MoreHands ==
    ASSUME Pool!WorkerPoolAssumption, Pool!TypeOK, NEW S \in SUBSET Jobs,
           Started(S), NEW j \in Jobs
    PROVE  /\ busy' \in Seq([job : Jobs, seen : 0..MaxEdits])
           /\ Cardinality(S) \in Nat /\ Len(busy') <= Len(busy) + Cardinality(S)
           /\ On(j) \subseteq On(j)'
           /\ \A i \in On(j)' : \/ i \in On(j) /\ busy'[i] = busy[i]
                                \/ j \in S /\ busy'[i].seen = body[j]
           /\ j \in S => On(j)' # {}
           /\ Hands(j)' \in Nat /\ Hands(j)' <= Hands(j) + (IF j \in S THEN 1 ELSE 0)
           /\ \A i, k \in On(j)' : i # k => On(j) # {}
           /\ j \notin S => On(j)' = On(j) /\ \A i \in On(j) : busy'[i] = busy[i]
PROOF
  <1> DEFINE R == [job : Jobs, seen : 0..MaxEdits]
             T == {[job |-> u, seen |-> body[u]] : u \in S}
             f == [u \in S |-> [job |-> u, seen |-> body[u]]]
             q == Pool!SetToSeq(T)
             n == Cardinality(T)
  <1>1. IsFiniteSet(S) /\ Cardinality(S) \in Nat
    BY PoolCardinality, FS_Subset, FS_CardinalityType DEF Pool!WorkerPoolAssumption
  <1>2. IsFiniteSet(T) /\ n <= Cardinality(S)
    <2>1. f \in [S -> T]
      OBVIOUS
    <2>2. \A t \in T : \E u \in S : f[u] = t
      OBVIOUS
    <2>3. f \in Surjection(S, T)
      BY <2>1, <2>2, Fun_IsSurj
    <2> QED
      BY <1>1, <2>3, FS_Surjection
  <1>3. busy \in Seq(R) /\ Len(busy) \in Nat
    BY DEF Pool!TypeOK
  <1>4. T \subseteq R
    BY DEF Pool!TypeOK
  <1>5. \A t \in T : t.job \in S /\ t = [job |-> t.job, seen |-> body[t.job]]
    OBVIOUS
  <1>6. \A u \in S : [job |-> u, seen |-> body[u]] \in T
    OBVIOUS
  <1>7. /\ n \in Nat /\ q \in [1..n -> T] /\ q \in Seq(R) /\ Len(q) = n
        /\ \A a, b \in 1..n : q[a] = q[b] => a = b
        /\ \A t \in T : \E a \in 1..n : q[a] = t
    BY <1>2, <1>4, SetAsSeq
  <1>8. busy' = busy \o q
    BY DEF Started
  <1> HIDE DEF R, T, q, n, f
  <1>9. /\ busy' \in Seq(R) /\ Len(busy') = Len(busy) + n
        /\ \A i \in 1..(Len(busy) + n) :
             busy'[i] = IF i <= Len(busy) THEN busy[i] ELSE q[i - Len(busy)]
    <2>1. /\ busy \o q \in Seq(R) /\ Len(busy \o q) = Len(busy) + Len(q)
          /\ \A i \in 1..(Len(busy) + Len(q)) :
               (busy \o q)[i] = IF i <= Len(busy) THEN busy[i] ELSE q[i - Len(busy)]
      <3>1. busy \in Seq(R) /\ q \in Seq(R)
        BY <1>3, <1>7
      <3> QED
        BY <3>1, ConcatProperties
    <2> QED
      BY <1>7, <1>8, <2>1, Zenon
  <1>10. On(j) \subseteq On(j)' /\ \A i \in On(j) : busy'[i] = busy[i]
    BY <1>3, <1>7, <1>9 DEF On
  <1>11. ASSUME NEW i \in On(j)', i \notin On(j)
         PROVE  /\ i - Len(busy) \in 1..n /\ busy'[i] = q[i - Len(busy)] /\ j \in S
                /\ busy'[i] = [job |-> j, seen |-> body[j]] /\ i \in Int
    <2>1. i \in 1..(Len(busy) + n) /\ busy'[i].job = j
      BY <1>9, <1>11 DEF On
    <2>2. i > Len(busy)
      BY <1>3, <1>9, <1>11, <2>1 DEF On
    <2>3. i - Len(busy) \in 1..n /\ busy'[i] = q[i - Len(busy)] /\ i \in Int
      BY <1>3, <1>7, <1>9, <2>1, <2>2
    <2>4. busy'[i] \in T
      BY <1>7, <2>3
    <2> QED
      BY <1>5, <2>1, <2>3, <2>4
  <1>12. j \in S => On(j)' # {}
    <2> SUFFICES ASSUME j \in S PROVE On(j)' # {}
      OBVIOUS
    <2>1. PICK a \in 1..n : q[a] = [job |-> j, seen |-> body[j]]
      BY <1>6, <1>7
    <2>2. Len(busy) + a \in 1..(Len(busy) + n) /\ busy'[Len(busy) + a] = q[a]
      <3>1. /\ Len(busy) + a \in 1..(Len(busy) + n) /\ ~(Len(busy) + a <= Len(busy))
            /\ (Len(busy) + a) - Len(busy) = a
        BY <1>3, <1>7
      <3> QED
        BY <1>9, <3>1, Zenon
    <2>3. busy'[Len(busy) + a].job = j
      BY <2>1, <2>2
    <2> QED
      BY <1>9, <2>2, <2>3 DEF On
  <1>13. \A i, k \in On(j)' : i \notin On(j) /\ k \notin On(j) => i = k
    <2> SUFFICES ASSUME NEW i \in On(j)', NEW k \in On(j)', i \notin On(j), k \notin On(j)
                 PROVE  i = k
      OBVIOUS
    <2>1. q[i - Len(busy)] = q[k - Len(busy)] /\ i - Len(busy) \in 1..n /\ k - Len(busy) \in 1..n
      BY <1>11
    <2>2. i - Len(busy) = k - Len(busy)
      BY <1>7, <2>1
    <2> QED
      BY <1>3, <1>11, <2>2
  <1>14. IsFiniteSet(On(j)) /\ Hands(j) \in Nat
    BY OnFinite
  <1>15. Hands(j)' \in Nat /\ Hands(j)' <= Hands(j) + (IF j \in S THEN 1 ELSE 0)
    <2>1. CASE On(j)' = On(j)
      BY <1>14, <2>1 DEF Hands
    <2>2. ASSUME NEW i \in On(j)', i \notin On(j)
          PROVE  Hands(j)' \in Nat /\ Hands(j)' = Hands(j) + 1 /\ j \in S
      <3>1. On(j)' = On(j) \cup {i}
        BY <1>10, <1>13, <2>2
      <3> QED
        <4>1. Cardinality(On(j)') = Cardinality(On(j)) + 1
          BY <1>14, <2>2, <3>1, FS_AddElement
        <4>2. Hands(j)' = Hands(j) + 1
          BY <4>1 DEF Hands
        <4> QED
          BY <1>11, <1>14, <2>2, <4>2
    <2>3. On(j)' # On(j) => \E i \in On(j)' : i \notin On(j)
      BY <1>10
    <2>4. On(j)' = On(j) => Hands(j)' = Hands(j)
      BY DEF Hands
    <2> HIDE DEF Hands
    <2> QED
      BY <1>14, <2>2, <2>3, <2>4
  <1>16. Len(busy') <= Len(busy) + Cardinality(S)
    BY <1>1, <1>2, <1>3, <1>7, <1>9
  <1>17. \A i, k \in On(j)' : i # k => On(j) # {}
    BY <1>13
  <1>18. \A i \in On(j)' : \/ i \in On(j) /\ busy'[i] = busy[i]
                           \/ j \in S /\ busy'[i].seen = body[j]
    BY <1>10, <1>11
  <1>19. j \notin S => On(j)' = On(j) /\ \A i \in On(j) : busy'[i] = busy[i]
    BY <1>10, <1>11
  <1> QED
    BY <1>1, <1>9, <1>10, <1>12, <1>15, <1>16, <1>17, <1>18, <1>19 DEF R

\* A row that nothing happens to.
LEMMA RowAlone ==
    ASSUME NEW j \in Jobs, RowSound(j), Allowed(j),
           status'[j] = status[j], attempts'[j] = attempts[j], body'[j] = body[j],
           enriched'[j] = enriched[j], raced'[j] = raced[j],
           UNCHANGED <<busy, restarts>>, phase' = "running" => phase = "running"
    PROVE  RowSound(j)' /\ Allowed(j)'
PROOF
  <1>1. On(j)' = On(j) /\ Hands(j)' = Hands(j)
    BY DEF On, Hands
  <1>2. RowSound(j)'
    BY <1>1 DEF RowSound
  <1>3. Allowed(j)'
    BY <1>1 DEF Allowed, Tried
  <1> QED
    BY <1>2, <1>3

\* The numbers of a row.
LEMMA RowNumbers ==
    ASSUME Pool!WorkerPoolAssumption, Pool!TypeOK, NEW j \in Jobs
    PROVE  /\ attempts[j] \in Nat /\ body[j] \in Nat /\ restarts \in Nat /\ Hands(j) \in Nat
           /\ MaxRetries \in Nat /\ MaxRetries > 0 /\ Tried(j) \in Nat
PROOF
  <1>1. Hands(j) \in Nat
    BY OnFinite
  <1>2. attempts[j] \in Nat /\ body[j] \in Nat /\ restarts \in Nat
    BY DEF Pool!TypeOK, Pool!WorkerPoolAssumption
  <1> QED
    BY <1>1, <1>2 DEF Tried, Pool!WorkerPoolAssumption

\* What a worker's end says of its row.
RowEnds(i, j) ==
    \/ status'[j] = "complete" /\ enriched'[j] = busy[i].seen /\ attempts'[j] = attempts[j]
    \/ /\ status'[j] = "failed" /\ enriched'[j] = enriched[j]
       /\ attempts'[j] = attempts[j] \/ (attempts'[j] = attempts[j] + 1 /\ ~CountsAtClaim)
    \/ /\ status'[j] = "pending" /\ enriched'[j] = enriched[j]
       /\ attempts'[j] = attempts[j] + (IF CountsAtClaim THEN 0 ELSE 1)
       /\ attempts'[j] < MaxRetries

\* A row while a worker leaves, its own or another's.
LEMMA RowLeft ==
    ASSUME Pool!WorkerPoolAssumption, Pool!TypeOK, NEW i \in 1..Len(busy),
           busy' = Pool!RemoveAt(busy, i),
           NEW j \in Jobs, RowSound(j), Allowed(j),
           body'[j] = body[j], raced'[j] = raced[j], restarts' = restarts,
           phase' = phase \/ phase' = "stopping",
           \/ /\ busy[i].job # j \/ phase' = "stopping"
              /\ status'[j] = status[j] /\ attempts'[j] = attempts[j]
                     /\ enriched'[j] = enriched[j]
           \/ busy[i].job = j /\ RowEnds(i, j)
    PROVE  RowSound(j)' /\ Allowed(j)'
PROOF
  <1>1. /\ \A k \in On(j)' : \E m \in On(j) : m # i /\ busy'[k] = busy[m]
        /\ Hands(j)' <= Hands(j) /\ Hands(j)' \in Nat
        /\ busy[i].job = j => Hands(j)' <= Hands(j) - 1
        /\ busy[i].job # j /\ On(j) # {} => On(j)' # {}
        /\ \A k, l \in On(j)' : k # l => \E m, o \in On(j) : m # o
    BY FewerHands
  <1>2. /\ attempts[j] \in Nat /\ body[j] \in Nat /\ restarts \in Nat /\ Hands(j) \in Nat
        /\ MaxRetries \in Nat
    BY RowNumbers
  <1>3. busy[i].job = j => i \in On(j)
    BY DEF On
  <1>4. CASE (busy[i].job # j \/ phase' = "stopping") /\ status'[j] = status[j]
             /\ attempts'[j] = attempts[j] /\ enriched'[j] = enriched[j]
    <2>1. RowSound(j)'
      <3>1. Hands(j)' <= body'[j] + (IF status'[j] = "processing" THEN 1 ELSE 0)
        BY <1>1, <1>2, <1>4 DEF RowSound
      <3>2. \A k \in On(j)' : busy'[k].seen = body'[j] \/ raced'[j]
        BY <1>1 DEF RowSound
      <3> QED
        BY <1>1, <1>4, <3>1, <3>2 DEF RowSound
    <2>2. Allowed(j)'
      BY <1>1, <1>2, <1>4, SMTT(30) DEF Allowed, Tried
    <2> QED
      BY <2>1, <2>2
  <1>5. CASE busy[i].job = j /\ RowEnds(i, j)
    <2>1. Hands(j) >= 1 /\ Hands(j)' <= Hands(j) - 1 /\ Hands(j)' <= body[j]
      BY <1>1, <1>2, <1>5 DEF RowSound
    <2>2. On(j)' # {} => raced[j]
      BY <1>1, <1>3, <1>5 DEF RowSound
    <2>3. \A k \in On(j)' : busy'[k].seen = body'[j] \/ raced'[j]
      BY <1>1 DEF RowSound
    <2>4. busy[i].seen = body[j] \/ raced[j]
      BY <1>3, <1>5 DEF RowSound
    <2>5. status'[j] \in {"complete", "failed", "pending"}
      BY <1>5 DEF RowEnds
    <2>6. status'[j] = "complete" => enriched'[j] = body[j] \/ raced[j]
      BY <1>5, <2>4 DEF RowEnds
    <2>7. RowSound(j)'
      <3>1. Hands(j)' <= body'[j] + (IF status'[j] = "processing" THEN 1 ELSE 0)
        BY <1>2, <2>1, <2>5
      <3> QED
        BY <1>1, <2>2, <2>3, <2>5, <2>6, <3>1 DEF RowSound
    <2>8. Allowed(j)'
      <3> DEFINE more == IF CountsAtClaim THEN 0 ELSE 1
                 hands == IF CountsAtClaim THEN 0 ELSE Hands(j)'
      <3>1. CASE status'[j] = "pending"
        <4>1. attempts'[j] = attempts[j] + more /\ attempts'[j] < MaxRetries
          BY <1>5, <3>1 DEF RowEnds
        <4>2. attempts'[j] \in Nat /\ hands \in Nat /\ hands <= body[j]
          BY <1>1, <1>2, <2>1, <4>1
        <4>3. attempts'[j] + hands + 1 <= MaxRetries + body[j] + restarts
          BY <1>2, <4>1, <4>2
        <4> QED
          BY <3>1, <4>3 DEF Allowed, Tried
      <3>2. CASE status'[j] # "pending"
        <4>1. status'[j] \notin {"absent", "pending"}
          BY <2>5, <3>2
        <4>2. attempts'[j] = attempts[j] \/ (attempts'[j] = attempts[j] + 1 /\ ~CountsAtClaim)
          BY <1>5, <3>2 DEF RowEnds
        <4>3. attempts[j] + (IF CountsAtClaim THEN 0 ELSE Hands(j)) <= MaxRetries + body[j] + restarts
          BY <1>2 DEF Allowed, Tried
        <4>4. attempts'[j] + hands <= MaxRetries + body[j] + restarts
          BY <1>1, <1>2, <2>1, <4>2, <4>3, SMTT(30)
        <4>5. attempts'[j] + hands \in Nat
          BY <1>1, <1>2, <4>2
        <4> QED
          BY <4>1, <4>4, <4>5 DEF Allowed, Tried
      <3> QED
        BY <3>1, <3>2
    <2> QED
      BY <2>7, <2>8
  <1> QED
    BY <1>4, <1>5

LEMMA HeldIs == ASSUME Pool!TypeOK, NEW j PROVE Pool!Held(j) <=> On(j) # {}
PROOF
  <1>1. DOMAIN busy = 1..Len(busy)
    BY DEF Pool!TypeOK
  <1> QED
    BY <1>1 DEF Pool!Held, On

\* A row that waits for a worker again: stored, edited or retried by hand.
LEMMA RowWaits ==
    ASSUME Pool!WorkerPoolAssumption, Pool!TypeOK, NEW j \in Jobs, RowSound(j), Allowed(j),
           UNCHANGED <<busy, restarts, phase>>, enriched'[j] = enriched[j],
                       status'[j] = "pending",
           \/ /\ status[j] = "absent"
              /\ attempts'[j] = attempts[j] /\ body'[j] = body[j] /\ raced'[j] = raced[j]
           \/ /\ ~CountsAtClaim /\ attempts'[j] = attempts[j] /\ body'[j] = body[j] + 1
              /\ raced'[j] = (raced[j] \/ Pool!Held(j))
           \/ /\ status[j] \in {"complete", "failed"}
              /\ attempts'[j] = 0 /\ body'[j] = body[j] /\ raced'[j] = raced[j]
    PROVE  RowSound(j)' /\ Allowed(j)'
PROOF
  <1>1. On(j)' = On(j) /\ Hands(j)' = Hands(j)
    BY DEF On, Hands
  <1>2. /\ attempts[j] \in Nat /\ body[j] \in Nat /\ restarts \in Nat /\ Hands(j) \in Nat
        /\ MaxRetries \in Nat /\ MaxRetries > 0
    BY RowNumbers
  <1>3. attempts'[j] \in Nat /\ body'[j] \in Nat
    BY <1>2
  <1> DEFINE hands == IF CountsAtClaim THEN 0 ELSE Hands(j)
  <1>4. attempts[j] + hands + (IF status[j] \in {"absent",
          "pending"} THEN 1 ELSE 0) <= MaxRetries + body[j] + restarts
    BY DEF Allowed, Tried
  <1>5. hands \in Nat /\ hands <= Hands(j)
    BY <1>2
  <1>6. Pool!Held(j) <=> On(j) # {}
    BY HeldIs
  <1> HIDE DEF hands
  <1>7. Hands(j) <= body'[j] /\ attempts'[j] + hands + 1 <= MaxRetries + body'[j] + restarts
    <2>1. CASE status[j] = "absent" /\ attempts'[j] = attempts[j] /\ body'[j] = body[j]
      BY <1>2, <1>4, <1>5, <2>1 DEF RowSound
    <2>2. CASE attempts'[j] = attempts[j] /\ body'[j] = body[j] + 1
      <3>1. Hands(j) <= body[j] + 1
        BY <1>2 DEF RowSound
      <3>2. attempts[j] + hands <= MaxRetries + body[j] + restarts
        BY <1>2, <1>4, <1>5
      <3> QED
        BY <1>2, <1>5, <2>2, <3>1, <3>2
    <2>3. CASE status[j] \in {"complete", "failed"} /\ attempts'[j] = 0 /\ body'[j] = body[j]
      <3>1. Hands(j) <= body[j]
        BY <1>2, <2>3 DEF RowSound
      <3> QED
        BY <1>2, <1>5, <2>3, <3>1
    <2> QED
      BY <2>1, <2>2, <2>3
  <1>8. Allowed(j)'
    BY <1>1, <1>3, <1>7 DEF Allowed, Tried, hands
  <1>9. On(j) # {} => raced'[j]
    BY <1>6 DEF RowSound
  <1>10. \A i \in On(j) : busy[i].seen = body'[j] \/ raced'[j]
    BY <1>9
  <1>11. RowSound(j)'
    BY <1>1, <1>3, <1>7, <1>9, <1>10 DEF RowSound
  <1> QED
    BY <1>8, <1>11

\* A row while a poll claims those in S.
LEMMA RowClaimed ==
    ASSUME Pool!WorkerPoolAssumption, Pool!TypeOK, NEW S \in SUBSET Jobs, Started(S),
           NEW j \in Jobs, RowSound(j), Allowed(j), j \in S => status[j] = "pending",
           status'[j] = (IF j \in S THEN "processing" ELSE status[j]),
           attempts'[j] = (IF j \in S /\ CountsAtClaim THEN attempts[j] + 1 ELSE attempts[j]),
           raced'[j] = (raced[j] /\ (j \in S => Pool!Held(j))),
           UNCHANGED <<body, enriched, restarts, phase>>
    PROVE  RowSound(j)' /\ Allowed(j)'
PROOF
  <1>1. /\ On(j) \subseteq On(j)'
        /\ \A i \in On(j)' : \/ i \in On(j) /\ busy'[i] = busy[i]
                             \/ j \in S /\ busy'[i].seen = body[j]
        /\ j \in S => On(j)' # {}
        /\ Hands(j)' \in Nat /\ Hands(j)' <= Hands(j) + (IF j \in S THEN 1 ELSE 0)
        /\ \A i, k \in On(j)' : i # k => On(j) # {}
        /\ j \notin S => On(j)' = On(j) /\ \A i \in On(j) : busy'[i] = busy[i]
    BY MoreHands
  <1>2. /\ attempts[j] \in Nat /\ body[j] \in Nat /\ restarts \in Nat /\ Hands(j) \in Nat
        /\ MaxRetries \in Nat
    BY RowNumbers
  <1>3. raced[j] \in BOOLEAN
    BY DEF Pool!TypeOK
  <1>4. Pool!Held(j) <=> On(j) # {}
    BY HeldIs
  <1>5. CASE j \notin S
    <2>1. Hands(j)' = Hands(j) /\ On(j)' = On(j)
      BY <1>1, <1>5 DEF Hands
    <2>2. raced'[j] = raced[j] /\ status'[j] = status[j] /\ attempts'[j] = attempts[j]
      BY <1>3, <1>5
    <2>3. \A i \in On(j) : busy'[i] = busy[i]
      BY <1>1, <1>5
    <2>4. RowSound(j)'
      BY <2>1, <2>2, <2>3 DEF RowSound
    <2> QED
      BY <2>1, <2>2, <2>4 DEF Allowed, Tried
  <1>6. CASE j \in S
    <2>1. status[j] = "pending" /\ status'[j] = "processing"
      BY <1>6
    <2>2. On(j) # {} => raced[j] /\ raced'[j]
      BY <1>4, <2>1 DEF RowSound
    <2>3. Hands(j) <= body[j] /\ Hands(j)' <= Hands(j) + 1
      BY <1>1, <1>2, <1>6, <2>1 DEF RowSound
    <2>4. \A i \in On(j)' : busy'[i].seen = body'[j] \/ raced'[j]
      BY <1>1, <2>2
    <2>5. \A i, k \in On(j)' : i # k => raced'[j]
      BY <1>1, <2>2
    <2>6. Hands(j)' <= body'[j] + 1
      BY <1>1, <1>2, <2>3
    <2>7. RowSound(j)'
      BY <1>1, <1>6, <2>1, <2>4, <2>5, <2>6 DEF RowSound
    <2> DEFINE hands == IF CountsAtClaim THEN 0 ELSE Hands(j)
               handsNow == IF CountsAtClaim THEN 0 ELSE Hands(j)'
    <2>8. attempts[j] + hands + 1 <= MaxRetries + body[j] + restarts
      BY <2>1 DEF Allowed, Tried
    <2>9. attempts'[j] + handsNow <= attempts[j] + hands + 1 /\ attempts'[j] + handsNow \in Nat
      BY <1>1, <1>2, <1>6, <2>3
    <2>10. attempts'[j] + handsNow <= MaxRetries + body[j] + restarts
      <3>1. attempts[j] + hands + 1 \in Nat /\ MaxRetries + body[j] + restarts \in Nat
        BY <1>2
      <3> HIDE DEF hands, handsNow
      <3> QED
        BY <2>8, <2>9, <3>1
    <2>11. Allowed(j)'
      BY <2>1, <2>9, <2>10 DEF Allowed, Tried
    <2> QED
      BY <2>7, <2>11
  <1> QED
    BY <1>5, <1>6

LEMMA PoolInit == ASSUME Pool!WorkerPoolAssumption, Pool!Init PROVE PoolInv
PROOF
  <1>1. 0 \in 0..MaxEdits /\ 0 \in 0..MaxRejects /\ 0 \in 0..MaxRestarts
            /\ 0 \in 0..MaxRetriedByHand
    BY DEF Pool!WorkerPoolAssumption
  <1>2. Pool!TypeOK
    <2>1. busy \in Seq([job : Jobs, seen : 0..MaxEdits])
      BY EmptySeq, Zenon DEF Pool!Init
    <2>2. /\ status \in [Jobs -> {"absent", "pending", "processing", "complete", "failed"}]
          /\ attempts \in [Jobs -> Nat] /\ body \in [Jobs -> 0..MaxEdits]
          /\ enriched \in [Jobs -> 0..MaxEdits] /\ raced \in [Jobs -> BOOLEAN]
      BY <1>1 DEF Pool!Init
    <2> QED
      BY <1>1, <2>1, <2>2 DEF Pool!Init, Pool!TypeOK
  <1>3. Len(busy) = 0
    BY DEF Pool!Init
  <1>4. ASSUME NEW j \in Jobs PROVE On(j) = {} /\ Hands(j) = 0
    <2>1. On(j) = {}
      BY <1>3 DEF On
    <2> QED
      BY <1>2, <2>1, OnFinite
  <1>5. ASSUME NEW j \in Jobs PROVE RowSound(j) /\ Allowed(j)
    <2>1. status[j] = "absent" /\ attempts[j] = 0 /\ body[j] = 0 /\ restarts = 0
      BY DEF Pool!Init
    <2>2. RowSound(j)
      BY <1>4, <2>1 DEF RowSound
    <2>3. Allowed(j)
      BY <1>4, <2>1 DEF Allowed, Tried, Pool!WorkerPoolAssumption
    <2> QED
      BY <2>2, <2>3
  <1> QED
    BY <1>2, <1>3, <1>5 DEF PoolInv, Pool!Init, Pool!WorkerPoolAssumption

\* A step of the loop or of the process that leaves the rows and the workers alone.
LEMMA LoopStep ==
    ASSUME Pool!WorkerPoolAssumption, PoolInv, Pool!TypeOK',
           UNCHANGED <<status, attempts, body, enriched, raced, busy, restarts>>,
           phase' = phase \/ phase' = "stopping",
           phase' = "running" /\ rejects' = 0 => timer' # "none",
           phase' = "down" => phase = "down"
    PROVE  PoolInv'
PROOF
  <1>1. ASSUME NEW j \in Jobs PROVE RowSound(j)' /\ Allowed(j)'
    BY RowAlone DEF PoolInv
  <1> QED
    BY <1>1 DEF PoolInv

LEMMA PoolLoop ==
    ASSUME Pool!WorkerPoolAssumption, PoolInv,
           Pool!Sleep \/ Pool!ClaimRejects \/ Pool!SleepEnds \/ Pool!Budget \/ Pool!Stop
    PROVE  PoolInv'
PROOF
  <1> USE DEF Pool!rowVars, Pool!loopVars, Pool!boundVars
  <1>1. Pool!TypeOK /\ (phase = "running" /\ rejects = 0 => timer # "none")
    BY DEF PoolInv
  <1>2. CASE Pool!Sleep
    <2>1. Pool!TypeOK'
      BY <1>1, <1>2 DEF Pool!Sleep, Pool!TypeOK
    <2> QED
      BY <1>1, <1>2, <2>1, LoopStep DEF Pool!Sleep
  <1>3. CASE Pool!ClaimRejects
    <2>1. rejects' \in 0..MaxRejects /\ rejects' # 0
      BY <1>1, <1>3 DEF Pool!ClaimRejects, Pool!TypeOK, Pool!WorkerPoolAssumption
    <2>2. Pool!TypeOK'
      BY <1>1, <1>3, <2>1 DEF Pool!ClaimRejects, Pool!TypeOK
    <2> QED
      BY <1>1, <1>3, <2>1, <2>2, LoopStep DEF Pool!ClaimRejects
  <1>4. CASE Pool!SleepEnds
    <2>1. timer' = "poll"
      BY <1>4 DEF Pool!SleepEnds, Pool!SchedulePoll
    <2>2. Pool!TypeOK'
      BY <1>1, <1>4, <2>1 DEF Pool!SleepEnds, Pool!TypeOK
    <2> QED
      BY <1>1, <1>4, <2>1, <2>2, LoopStep DEF Pool!SleepEnds
  <1>5. CASE Pool!Budget
    <2>1. Pool!TypeOK'
      BY <1>1, <1>5 DEF Pool!Budget, Pool!TypeOK
    <2> QED
      BY <1>1, <1>5, <2>1, LoopStep DEF Pool!Budget
  <1>6. CASE Pool!Stop
    <2>1. Pool!TypeOK'
      BY <1>1, <1>6 DEF Pool!Stop, Pool!TypeOK
    <2> QED
      BY <1>1, <1>6, <2>1, LoopStep DEF Pool!Stop
  <1> QED
    BY <1>2, <1>3, <1>4, <1>5, <1>6

LEMMA PoolClaims ==
    ASSUME Pool!WorkerPoolAssumption, PoolInv, Pool!Claim
    PROVE  PoolInv'
PROOF
  <1> USE DEF Pool!rowVars, Pool!loopVars, Pool!boundVars
  <1>1. Pool!TypeOK /\ Len(busy) <= WorkerCount
    BY DEF PoolInv
  <1>2. phase = "running" /\ timer' = "poll"
        /\ UNCHANGED <<body, enriched, waker, paused, phase, rejects, restarts, byHand>>
    BY DEF Pool!Claim, Pool!Polls, Pool!Running, Pool!SchedulePoll
  <1>3. PICK S \in SUBSET Pool!Pending :
            /\ Pool!Cardinality(S) <= Pool!Available
            /\ status' = [j \in Jobs |-> IF j \in S THEN "processing" ELSE status[j]]
            /\ attempts' = [j \in Jobs |-> IF j \in S /\ CountsAtClaim THEN attempts[j] + 1
                                           ELSE attempts[j]]
            /\ raced' = [j \in Jobs |-> raced[j] /\ (j \in S => Pool!Held(j))]
            /\ Started(S)
    BY Zenon DEF Pool!Claim, Started
  <1>4. S \in SUBSET Jobs /\ \A j \in S : status[j] = "pending"
    BY DEF Pool!Pending
  <1>5. ASSUME NEW j \in Jobs PROVE RowSound(j)' /\ Allowed(j)'
    <2>1. RowSound(j) /\ Allowed(j)
      BY DEF PoolInv
    <2>2. /\ status'[j] = (IF j \in S THEN "processing" ELSE status[j])
          /\ attempts'[j] = (IF j \in S /\ CountsAtClaim THEN attempts[j] + 1 ELSE attempts[j])
          /\ raced'[j] = (raced[j] /\ (j \in S => Pool!Held(j)))
      BY <1>3, Zenon
    <2> QED
      BY <1>1, <1>2, <1>3, <1>4, <2>1, <2>2, RowClaimed
  <1>6. busy' \in Seq([job : Jobs, seen : 0..MaxEdits]) /\ Len(busy') <= WorkerCount
    <2>1. CASE Jobs = {}
      <3>1. S = {}
        BY <1>4, <2>1
      <3>2. FALSE
        BY <2>1 DEF Pool!Claim, Pool!Pending
      <3> QED
        BY <3>2
    <2>2. ASSUME NEW j \in Jobs
          PROVE  busy' \in Seq([job : Jobs, seen : 0..MaxEdits]) /\ Len(busy') <= WorkerCount
      <3>1. /\ busy' \in Seq([job : Jobs, seen : 0..MaxEdits])
            /\ Cardinality(S) \in Nat /\ Len(busy') <= Len(busy) + Cardinality(S)
        BY <1>1, <1>3, <1>4, MoreHands
      <3>2. Cardinality(S) <= WorkerCount - Len(busy)
        BY <1>3, PoolCardinality DEF Pool!Available
      <3>3. Len(busy) \in Nat /\ Len(busy') \in Nat /\ WorkerCount \in Nat
        BY <1>1, <3>1, SMTT(30) DEF Pool!TypeOK, Pool!WorkerPoolAssumption
      <3> QED
        BY <3>1, <3>2, <3>3
    <2> QED
      BY <2>1, <2>2
  <1>7. Pool!TypeOK'
    <2>1. /\ status' \in [Jobs -> {"absent", "pending", "processing", "complete", "failed"}]
          /\ attempts' \in [Jobs -> Nat]
      BY <1>1, <1>3 DEF Pool!TypeOK
    <2>2. raced' \in [Jobs -> BOOLEAN]
      BY <1>3, Zenon
    <2> QED
      BY <1>1, <1>2, <1>6, <2>1, <2>2 DEF Pool!TypeOK
  <1> QED
    BY <1>2, <1>5, <1>6, <1>7 DEF PoolInv

\* A worker ends, in its outcome or in a write that rejects.
LEMMA PoolEnds ==
    ASSUME Pool!WorkerPoolAssumption, PoolInv, NEW i \in DOMAIN busy,
           Pool!WorkerEnds(i) \/ Pool!WriteRejects(i)
    PROVE  PoolInv'
PROOF
  <1> USE DEF Pool!rowVars, Pool!loopVars, Pool!boundVars
  <1> DEFINE R == [job : Jobs, seen : 0..MaxEdits]
  <1>0. Pool!TypeOK /\ Len(busy) <= WorkerCount
    BY DEF PoolInv
  <1>9. busy \in Seq(R)
    BY <1>0 DEF Pool!TypeOK
  <1>1. Pool!TypeOK /\ Len(busy) <= WorkerCount /\ Len(busy) \in Nat /\ WorkerCount \in Nat
    <2>1. Len(busy) \in Nat
      BY <1>9, LenProperties
    <2>2. WorkerCount \in Nat
      BY DEF Pool!WorkerPoolAssumption
    <2> QED
      BY <1>0, <2>1, <2>2
  <1>2. i \in 1..Len(busy) /\ busy[i] \in R
    <2> HIDE DEF R
    <2>1. i \in 1..Len(busy)
      BY <1>9, LenProperties
    <2> QED
      BY <1>9, <2>1, ElementOfSeq
  <1> DEFINE j == busy[i].job
             count == attempts[j] + (IF CountsAtClaim THEN 0 ELSE 1)
  <1>3. j \in Jobs /\ busy[i].seen \in 0..MaxEdits /\ count \in Nat
    BY <1>1, <1>2, SMTT(30) DEF Pool!TypeOK
  <1>4. busy' = Pool!RemoveAt(busy, i)
    BY DEF Pool!WorkerEnds, Pool!Succeeds, Pool!Fails, Pool!FailsForGood, Pool!Leaves,
           Pool!WriteRejects
  <1>5. phase # "down" /\ busy # <<>>
    BY <1>1, <1>2 DEF PoolInv
  <1>6. busy' \in Seq([job : Jobs, seen : 0..MaxEdits]) /\ Len(busy') = Len(busy) - 1
    BY <1>1, <1>2, <1>4, FewerHands
  <1>7. CASE Pool!WriteRejects(i)
    <2>1. rejects' \in 0..MaxRejects
      BY <1>1, <1>7 DEF Pool!WriteRejects, Pool!TypeOK, Pool!WorkerPoolAssumption
    <2>2. Pool!TypeOK'
      BY <1>1, <1>6, <1>7, <2>1 DEF Pool!WriteRejects, Pool!TypeOK
    <2>3. ASSUME NEW u \in Jobs PROVE RowSound(u)' /\ Allowed(u)'
      <3>1. RowSound(u) /\ Allowed(u)
        BY DEF PoolInv
      <3>2. /\ phase' = "stopping" /\ restarts' = restarts
            /\ UNCHANGED <<status, attempts, body, enriched, raced>>
        BY <1>7 DEF Pool!WriteRejects
      <3> QED
        BY <1>1, <1>2, <1>4, <3>1, <3>2, RowLeft
    <2> QED
      BY <1>1, <1>6, <1>7, <2>2, <2>3 DEF PoolInv, Pool!WriteRejects
  <1>8. CASE Pool!WorkerEnds(i)
    <2>1. /\ timer' = (IF phase = "running" THEN "poll" ELSE timer)
          /\ UNCHANGED <<body, waker, paused, phase, raced, rejects, restarts, byHand>>
      BY <1>8 DEF Pool!WorkerEnds, Pool!Succeeds, Pool!Fails, Pool!FailsForGood, Pool!Leaves,
         Pool!SchedulePoll, Pool!Running
    <2>2. /\ status' \in [Jobs -> {"absent", "pending", "processing", "complete", "failed"}]
          /\ attempts' \in [Jobs -> Nat] /\ enriched' \in [Jobs -> 0..MaxEdits]
          /\ \A u \in Jobs \ {j} : /\ status'[u] = status[u] /\ attempts'[u] = attempts[u]
                                  /\ enriched'[u] = enriched[u]
          /\ RowEnds(i, j)
      <3>1. CASE Pool!Succeeds(i)
        BY <1>1, <1>3, <3>1 DEF Pool!Succeeds, Pool!TypeOK, RowEnds
      <3>2. CASE Pool!FailsForGood(i)
        BY <1>1, <1>3, <3>2 DEF Pool!FailsForGood, Pool!TypeOK, RowEnds
      <3>3. CASE Pool!Fails(i)
        <4>1. /\ attempts' = [attempts EXCEPT ![j] = count]
              /\ status' = [status EXCEPT ![j] = IF count >= MaxRetries THEN "failed" ELSE "pending"]
              /\ enriched' = enriched
          BY <3>3, Zenon DEF Pool!Fails
        <4>2. /\ status' \in [Jobs -> {"absent", "pending", "processing", "complete", "failed"}]
              /\ attempts' \in [Jobs -> Nat] /\ enriched' \in [Jobs -> 0..MaxEdits]
              /\ \A u \in Jobs \ {j} : /\ status'[u] = status[u] /\ attempts'[u] = attempts[u]
                                      /\ enriched'[u] = enriched[u]
          BY <1>1, <1>3, <4>1 DEF Pool!TypeOK
        <4>3. /\ attempts'[j] = count /\ enriched'[j] = enriched[j]
              /\ status'[j] = IF count >= MaxRetries THEN "failed" ELSE "pending"
          BY <1>1, <1>3, <4>1 DEF Pool!TypeOK
        <4>4. RowEnds(i, j)
          <5>1. MaxRetries \in Nat /\ attempts[j] \in Nat
            BY <1>1, <1>3 DEF Pool!TypeOK, Pool!WorkerPoolAssumption
          <5>2. CASE count >= MaxRetries
            BY <4>3, <5>1, <5>2 DEF RowEnds
          <5>3. CASE ~(count >= MaxRetries)
            BY <1>3, <4>3, <5>1, <5>3 DEF RowEnds
          <5> QED
            BY <5>2, <5>3
        <4> QED
          BY <4>2, <4>4
      <3> QED
        BY <1>8, <3>1, <3>2, <3>3 DEF Pool!WorkerEnds
    <2>3. ASSUME NEW u \in Jobs PROVE RowSound(u)' /\ Allowed(u)'
      <3>1. RowSound(u) /\ Allowed(u)
        BY DEF PoolInv
      <3>2. CASE u = j
        BY <1>1, <1>2, <1>4, <2>1, <2>2, <3>1, <3>2, RowLeft
      <3>3. CASE u # j
        BY <1>1, <1>2, <1>4, <2>1, <2>2, <3>1, <3>3, RowLeft
      <3> QED
        BY <3>2, <3>3
    <2>4. Pool!TypeOK'
      BY <1>1, <1>6, <2>1, <2>2 DEF Pool!TypeOK
    <2> QED
      BY <1>1, <1>5, <1>6, <2>1, <2>3, <2>4 DEF PoolInv
  <1> QED
    BY <1>7, <1>8

\* What others do to the rows.
LEMMA PoolRows ==
    ASSUME Pool!WorkerPoolAssumption, PoolInv,
           \/ \E j \in Jobs : Pool!Store(j) \/ Pool!Edit(j)
           \/ \E S \in SUBSET Jobs : Pool!Retry(S)
    PROVE  PoolInv'
PROOF
  <1> USE DEF Pool!rowVars, Pool!loopVars, Pool!boundVars
  <1>1. Pool!TypeOK /\ (phase = "running" /\ rejects = 0 => timer # "none")
    BY DEF PoolInv
  <1>2. ASSUME NEW u \in Jobs PROVE RowSound(u) /\ Allowed(u)
    BY DEF PoolInv
  <1>3. ASSUME Pool!Notify PROVE /\ timer' \in {"none", "poll", "sleep"} /\ waker' = FALSE
                                 /\ phase = "running" /\ rejects = 0 => timer' # "none"
    <2>1. timer' = IF waker /\ phase = "running" THEN "poll" ELSE timer
      BY <1>3 DEF Pool!Notify, Pool!Running
    <2> QED
      BY <1>1, <1>3, <2>1 DEF Pool!TypeOK, Pool!Notify
  <1>4. ASSUME NEW j \in Jobs, Pool!Store(j) PROVE PoolInv'
    <2>1. /\ status[j] = "absent" /\ status' = [status EXCEPT ![j] = "pending"] /\ Pool!Notify
          /\ UNCHANGED <<attempts, body, enriched, busy, paused, phase, raced,
                         rejects, restarts, byHand>>
      BY <1>4 DEF Pool!Store
    <2>2. Pool!TypeOK'
      BY <1>1, <1>3, <2>1 DEF Pool!TypeOK
    <2>3. ASSUME NEW u \in Jobs PROVE RowSound(u)' /\ Allowed(u)'
      <3>1. CASE u = j
        <4>1. status'[u] = "pending"
          BY <1>1, <2>1, <3>1 DEF Pool!TypeOK
        <4> QED
          BY <1>1, <1>2, <2>1, <3>1, <4>1, RowWaits
      <3>2. CASE u # j
        <4>1. status'[u] = status[u]
          BY <1>1, <2>1, <3>2 DEF Pool!TypeOK
        <4> QED
          BY <1>2, <2>1, <4>1, RowAlone
      <3> QED
        BY <3>1, <3>2
    <2> QED
      BY <1>3, <2>1, <2>2, <2>3 DEF PoolInv
  <1>5. ASSUME NEW j \in Jobs, Pool!Edit(j) PROVE PoolInv'
    <2>1. /\ ~CountsAtClaim /\ status[j] # "absent" /\ body[j] < MaxEdits /\ Pool!Notify
          /\ body' = [body EXCEPT ![j] = @ + 1]
          /\ status' = [status EXCEPT ![j] = "pending"]
          /\ raced' = [raced EXCEPT ![j] = @ \/ Pool!Held(j)]
          /\ UNCHANGED <<attempts, enriched, busy, paused, phase, rejects, restarts, byHand>>
      BY <1>5 DEF Pool!Edit
    <2>2. body' \in [Jobs -> 0..MaxEdits]
      BY <1>1, <2>1, SMTT(30) DEF Pool!TypeOK, Pool!WorkerPoolAssumption
    <2>3. raced' \in [Jobs -> BOOLEAN]
      <3>1. (raced[j] \/ Pool!Held(j)) \in BOOLEAN /\ raced \in [Jobs -> BOOLEAN]
        BY <1>1, Zenon DEF Pool!TypeOK
      <3> QED
        BY <2>1, <3>1, Zenon
    <2>4. Pool!TypeOK'
      BY <1>1, <1>3, <2>1, <2>2, <2>3 DEF Pool!TypeOK
    <2>5. ASSUME NEW u \in Jobs PROVE RowSound(u)' /\ Allowed(u)'
      <3>1. CASE u = j
        <4>1. status'[u] = "pending" /\ body'[u] = body[u] + 1
          BY <1>1, <2>1, <3>1 DEF Pool!TypeOK
        <4>2. raced'[u] = (raced[u] \/ Pool!Held(u))
          BY <1>1, <2>1, <3>1, Zenon DEF Pool!TypeOK
        <4> QED
          BY <1>1, <1>2, <2>1, <4>1, <4>2, RowWaits
      <3>2. CASE u # j
        <4>1. status'[u] = status[u] /\ body'[u] = body[u] /\ raced'[u] = raced[u]
          BY <1>1, <2>1, <3>2 DEF Pool!TypeOK
        <4> QED
          BY <1>2, <2>1, <4>1, RowAlone
      <3> QED
        BY <3>1, <3>2
    <2> QED
      BY <1>3, <2>1, <2>4, <2>5 DEF PoolInv
  <1>6. ASSUME NEW S \in SUBSET Jobs, Pool!Retry(S) PROVE PoolInv'
    <2>1. /\ \A u \in S : status[u] \in {"complete", "failed"}
          /\ byHand < MaxRetriedByHand /\ byHand' = byHand + 1 /\ Pool!Notify
          /\ status' = [u \in Jobs |-> IF u \in S THEN "pending" ELSE status[u]]
          /\ attempts' = [u \in Jobs |-> IF u \in S THEN 0 ELSE attempts[u]]
          /\ UNCHANGED <<body, enriched, busy, paused, phase, raced, rejects, restarts>>
      BY <1>6 DEF Pool!Retry
    <2>2. byHand' \in 0..MaxRetriedByHand
      BY <1>1, <2>1 DEF Pool!TypeOK, Pool!WorkerPoolAssumption
    <2>3. Pool!TypeOK'
      BY <1>1, <1>3, <2>1, <2>2 DEF Pool!TypeOK
    <2>4. ASSUME NEW u \in Jobs PROVE RowSound(u)' /\ Allowed(u)'
      <3>1. CASE u \in S
        BY <1>1, <1>2, <2>1, <3>1, RowWaits
      <3>2. CASE u \notin S
        BY <1>2, <2>1, <3>2, RowAlone
      <3> QED
        BY <3>1, <3>2
    <2> QED
      BY <1>3, <2>1, <2>3, <2>4 DEF PoolInv
  <1> QED
    BY <1>4, <1>5, <1>6

\* The process ends, and starts again with its rows reset.
LEMMA PoolProcess ==
    ASSUME Pool!WorkerPoolAssumption, PoolInv, Pool!Exit \/ Pool!Start
    PROVE  PoolInv'
PROOF
  <1> USE DEF Pool!rowVars, Pool!loopVars, Pool!boundVars
  <1>1. Pool!TypeOK
    BY DEF PoolInv
  <1>2. ASSUME NEW u \in Jobs
        PROVE  /\ RowSound(u) /\ Allowed(u)
               /\ attempts[u] \in Nat /\ body[u] \in Nat /\ restarts \in Nat /\ Hands(u) \in Nat
               /\ MaxRetries \in Nat
    BY <1>1, RowNumbers DEF PoolInv
  <1>3. busy' = <<>>
    BY DEF Pool!Exit, Pool!Start, PoolInv
  <1>4. busy' \in Seq([job : Jobs, seen : 0..MaxEdits]) /\ Len(busy') = 0
    BY <1>3, EmptySeq
  <1>5. Pool!TypeOK'
    <2>1. CASE Pool!Exit
      BY <1>1, <1>4, <2>1 DEF Pool!Exit, Pool!TypeOK
    <2>2. CASE Pool!Start
      <3>1. restarts' \in 0..MaxRestarts
        BY <1>1, <2>2 DEF Pool!Start, Pool!TypeOK, PoolInv, Pool!WorkerPoolAssumption
      <3>2. status' \in [Jobs -> {"absent", "pending", "processing", "complete", "failed"}]
        BY <1>1, <2>2 DEF Pool!Start, Pool!TypeOK
      <3> QED
        BY <1>1, <1>4, <2>2, <3>1, <3>2 DEF Pool!Start, Pool!TypeOK
    <2> QED
      BY <2>1, <2>2
  <1>6. ASSUME NEW u \in Jobs PROVE On(u)' = {} /\ Hands(u)' = 0
    <2>1. On(u)' = {}
      BY <1>4 DEF On
    <2> QED
      BY <2>1, FS_EmptySet DEF Hands
  <1>7. CASE Pool!Exit
    <2>1. /\ phase' = "down" /\ restarts < MaxRestarts
          /\ UNCHANGED <<status, attempts, body, enriched, raced, restarts>>
      BY <1>7 DEF Pool!Exit
    <2>2. ASSUME NEW u \in Jobs PROVE RowSound(u)' /\ Allowed(u)'
      <3>1. RowSound(u)'
        BY <1>2, <1>6, <2>1 DEF RowSound
      <3>2. Allowed(u)'
        BY <1>2, <1>6, <2>1 DEF Allowed, Tried
      <3> QED
        BY <3>1, <3>2
    <2> QED
      BY <1>3, <1>4, <1>5, <2>1, <2>2 DEF PoolInv, Pool!WorkerPoolAssumption
  <1>8. CASE Pool!Start
    <2>1. /\ phase' = "running" /\ timer' = "poll" /\ restarts' = restarts + 1
          /\ status' = [u \in Jobs |-> IF status[u] = "processing" THEN "pending" ELSE status[u]]
          /\ UNCHANGED <<attempts, body, enriched, raced>>
      BY <1>8 DEF Pool!Start
    <2>2. ASSUME NEW u \in Jobs PROVE RowSound(u)' /\ Allowed(u)'
      <3>1. status'[u] = IF status[u] = "processing" THEN "pending" ELSE status[u]
        BY <2>1
      <3>2. RowSound(u)'
        BY <1>2, <1>6, <2>1, <3>1 DEF RowSound
      <3>3. Allowed(u)'
        BY <1>2, <1>6, <2>1, <3>1 DEF Allowed, Tried
      <3> QED
        BY <3>2, <3>3
    <2> QED
      BY <1>3, <1>4, <1>5, <2>1, <2>2 DEF PoolInv, Pool!WorkerPoolAssumption
  <1> QED
    BY <1>7, <1>8

LEMMA PoolStep ==
    ASSUME Pool!WorkerPoolAssumption, PoolInv, [Pool!Next]_(Pool!vars)
    PROVE  PoolInv'
PROOF
  <1>1. CASE UNCHANGED Pool!vars
    <2>1. \A u \in Jobs : On(u)' = On(u) /\ Hands(u)' = Hands(u)
      BY <1>1 DEF On, Hands, Pool!vars
    <2>2. \A u \in Jobs : RowSound(u) /\ Allowed(u) => RowSound(u)' /\ Allowed(u)'
      BY <1>1, <2>1 DEF RowSound, Allowed, Tried, Pool!vars
    <2> QED
      BY <1>1, <2>2 DEF PoolInv, Pool!TypeOK, Pool!vars
  <1>2. CASE Pool!Claim
    BY <1>2, PoolClaims
  <1>3. CASE Pool!Sleep \/ Pool!ClaimRejects \/ Pool!SleepEnds \/ Pool!Budget \/ Pool!Stop
    BY <1>3, PoolLoop
  <1>4. CASE Pool!SomeWorkerEnds \/ \E i \in DOMAIN busy : Pool!WriteRejects(i)
    BY <1>4, PoolEnds DEF Pool!SomeWorkerEnds
  <1>5. CASE \/ \E j \in Jobs : Pool!Store(j) \/ Pool!Edit(j)
             \/ \E S \in SUBSET Jobs : Pool!Retry(S)
    BY <1>5, PoolRows
  <1>6. CASE Pool!Exit \/ Pool!Start
    BY <1>6, PoolProcess
  <1> QED
    BY <1>1, <1>2, <1>3, <1>4, <1>5, <1>6 DEF Pool!Next

LEMMA PoolSafe ==
    ASSUME Pool!WorkerPoolAssumption, PoolInv
    PROVE  /\ Pool!WorkersBounded /\ Pool!OneWorkerPerJob /\ Pool!ProcessingIsHeld
           /\ Pool!LoopAlive /\ Pool!AttemptsBounded /\ Pool!EditsEnriched
PROOF
  <1>1. Pool!TypeOK
    BY DEF PoolInv
  <1>2. ASSUME NEW u \in Jobs
        PROVE  /\ RowSound(u) /\ Allowed(u)
               /\ attempts[u] \in Nat /\ body[u] \in Nat /\ restarts \in Nat /\ Hands(u) \in Nat
               /\ MaxRetries \in Nat
    BY <1>1, RowNumbers DEF PoolInv
  <1>3. Pool!WorkersBounded /\ Pool!LoopAlive
    BY DEF PoolInv, Pool!WorkersBounded, Pool!LoopAlive, Pool!Running
  <1>4. ASSUME NEW i \in DOMAIN busy PROVE i \in 1..Len(busy) /\ busy[i].job \in Jobs
    <2> DEFINE R == [job : Jobs, seen : 0..MaxEdits]
    <2>1. busy \in Seq(R)
      BY <1>1 DEF Pool!TypeOK
    <2>2. i \in 1..Len(busy) /\ busy[i] \in R
      <3> HIDE DEF R
      <3>1. i \in 1..Len(busy)
        BY <2>1, LenProperties
      <3> QED
        BY <2>1, <3>1, ElementOfSeq
    <2> QED
      BY <2>2
  <1>5. Pool!OneWorkerPerJob
    <2> SUFFICES ASSUME NEW i \in DOMAIN busy, NEW k \in DOMAIN busy,
                        busy[i].job = busy[k].job, i # k
                 PROVE  raced[busy[i].job]
      BY DEF Pool!OneWorkerPerJob
    <2>1. i \in On(busy[i].job) /\ k \in On(busy[i].job)
      BY <1>4 DEF On
    <2> QED
      BY <1>2, <1>4, <2>1 DEF RowSound
  <1>6. Pool!ProcessingIsHeld
    BY <1>1, <1>2, HeldIs DEF Pool!ProcessingIsHeld, Pool!Running, RowSound
  <1>7. Pool!AttemptsBounded
    BY <1>2 DEF Pool!AttemptsBounded, Allowed, Tried
  <1>8. Pool!EditsEnriched
    BY <1>2 DEF Pool!EditsEnriched, RowSound
  <1> QED
    BY <1>3, <1>5, <1>6, <1>7, <1>8

\* (worker-pool.ts: polls, sleepers, wakers and workers that end, in any order)  Whatever
\* the number of rows, workers, edits and restarts, there are never more workers than
\* configured, and two are on one row only after it was edited under the first.
THEOREM WorkersInBounds ==
    ASSUME Pool!WorkerPoolAssumption
    PROVE  Pool!Spec => [](Pool!WorkersBounded /\ Pool!OneWorkerPerJob)
PROOF
  <1>1. Pool!Init => PoolInv
    BY PoolInit
  <1>2. PoolInv /\ [Pool!Next]_(Pool!vars) => PoolInv'
    BY PoolStep
  <1>3. PoolInv => Pool!WorkersBounded /\ Pool!OneWorkerPerJob
    BY PoolSafe
  <1> QED
    BY <1>1, <1>2, <1>3, PTL DEF Pool!Spec

\* (The one pollTimer field, and the rows a crash or a failed write leaves.)  A running pool
\* whose claims succeed always has its next poll, and each row that reads processing has a
\* worker: none is lost.
THEOREM NoRowLost ==
    ASSUME Pool!WorkerPoolAssumption
    PROVE  Pool!Spec => [](Pool!LoopAlive /\ Pool!ProcessingIsHeld)
PROOF
  <1>1. Pool!Init => PoolInv
    BY PoolInit
  <1>2. PoolInv /\ [Pool!Next]_(Pool!vars) => PoolInv'
    BY PoolStep
  <1>3. PoolInv => Pool!LoopAlive /\ Pool!ProcessingIsHeld
    BY PoolSafe
  <1> QED
    BY <1>1, <1>2, <1>3, PTL DEF Pool!Spec

\* (handleWorkerError, applyEditToTarget.)  A row is attempted max_retries times and once
\* more for each edit and restart, and a complete row is about the message as it reads now,
\* or was edited under a worker.
THEOREM AttemptsAndResults ==
    ASSUME Pool!WorkerPoolAssumption
    PROVE  Pool!Spec => [](Pool!AttemptsBounded /\ Pool!EditsEnriched)
PROOF
  <1>1. Pool!Init => PoolInv
    BY PoolInit
  <1>2. PoolInv /\ [Pool!Next]_(Pool!vars) => PoolInv'
    BY PoolStep
  <1>3. PoolInv => Pool!AttemptsBounded /\ Pool!EditsEnriched
    BY PoolSafe
  <1> QED
    BY <1>1, <1>2, <1>3, PTL DEF Pool!Spec


-----------------------------------------------------------------------------
(***************************************************************************)
(* SummaryJobs.                                                            *)
(***************************************************************************)
CONSTANTS SummaryRows, SummaryRetries, MaxSummaryRejects, MaxSummaryRestarts,
          MaxSummaryRetriedByHand, MaxRedos
VARIABLES summaryStatus, summaryAttempts, draft, summaries, worker, escalation,
          sticky, swept, summaryPhase, excused, summaryRejects, summaryCrashes,
          summaryRestarts, summaryByHand, redos

Summary == INSTANCE SummaryJobs WITH
    Jobs <- SummaryRows, MaxRetries <- SummaryRetries,
    MaxRejects <- MaxSummaryRejects, MaxRestarts <- MaxSummaryRestarts,
    MaxRetriedByHand <- MaxSummaryRetriedByHand,
    status <- summaryStatus, attempts <- summaryAttempts, at <- worker,
    phase <- summaryPhase, rejects <- summaryRejects, crashes <- summaryCrashes,
    restarts <- summaryRestarts, byHand <- summaryByHand

\* Stages of a worker that has yet to settle its job.
Unsettled == Summary!Stages \ {"idle", "telling"}

\* Stages only a rejected write leads to, and the number of rejections it takes.
Rejected == [failing_over |-> 1, escaped |-> 1, last_resort |-> 2]

\* What is true of a job: a worker that has yet to settle it finds it as claimed; a job
\* that no worker settles any more was given up by two rejected writes; each attempt is
\* the first, a retry, or owed to a crash or a rejection, and there is one left for a job
\* that waits; a summary is that of a complete job; and what a failed job drafted.
SummaryRow(j) ==
    /\ worker[j] # "idle" => summaryPhase # "down"
    /\ worker[j] \in Unsettled => summaryStatus[j] = "processing" /\ summaryAttempts[j] > 0
    /\ worker[j] \in DOMAIN Rejected => summaryRejects >= Rejected[worker[j]]
    /\ worker[j] \notin Unsettled /\ summaryStatus[j] = "processing" /\ summaryPhase # "down" =>
        summaryRejects >= 2
    /\ summaryAttempts[j] + (IF worker[j] \notin Unsettled
           /\ summaryStatus[j] \in {"pending", "processing"}
                             THEN 1 ELSE 0)
        <= SummaryRetries + 1 + summaryCrashes + summaryRejects
    /\ summaries[j] = (IF summaryStatus[j] = "complete" THEN 1 ELSE 0)
    /\ worker[j] \in {"failing", "deleting", "keeping", "spent"} => excused[j]
    /\ summaryStatus[j] = "failed" /\ draft[j] => excused[j] \/ summaryRejects > 0
    /\ j \in sticky => \/ summaryStatus[j] \in {"pending", "processing"}
                       \/ worker[j] = "telling" \/ summaryRejects >= 2

\* A process that is down has a restart left, which a crash is counted for beforehand.
SummaryProcess ==
    /\ summaryCrashes <= summaryRestarts + (IF summaryPhase = "down" THEN 1 ELSE 0)
    /\ summaryPhase = "down" => summaryRestarts < MaxSummaryRestarts

SummaryInv == Summary!TypeOK /\ SummaryProcess /\ \A j \in SummaryRows : SummaryRow(j)

-----------------------------------------------------------------------------
\* The stages of a worker, one by one.
LEMMA SummaryStages ==
    /\ DOMAIN Summary!AfterClosing =
        {"closed_summary", "closed_drained", "closed_draft", "closed_nothing", "closed_refused",
         "closed_withheld"}
    /\ Summary!AfterClosing["closed_summary"] = "inserting"
    /\ Summary!AfterClosing["closed_drained"] = "returning"
    /\ Summary!AfterClosing["closed_draft"] = "saving"
    /\ Summary!AfterClosing["closed_nothing"] = "ending"
    /\ Summary!AfterClosing["closed_refused"] = "spent"
    /\ Summary!AfterClosing["closed_withheld"] = "keeping"
    /\ Unsettled =
        {"ending", "spent", "deleting", "failing", "opening", "discarding", "inserting",
         "returning", "saving", "keeping", "closed_summary", "closed_drained", "closed_draft",
         "closed_nothing", "closed_refused", "closed_withheld", "claimed", "running",
         "failing_over", "escaped", "last_resort"}
    /\ Summary!Stages = Unsettled \cup {"idle", "telling"}
    /\ DOMAIN Rejected = {"failing_over", "escaped", "last_resort"}
    /\ Rejected["failing_over"] = 1 /\ Rejected["escaped"] = 1 /\ Rejected["last_resort"] = 2
PROOF
  <1>1. DOMAIN Summary!AfterClosing =
        {"closed_summary", "closed_drained", "closed_draft", "closed_nothing", "closed_refused",
         "closed_withheld"}
    BY DEF Summary!AfterClosing
  <1>2. Unsettled =
        {"ending", "spent", "deleting", "failing", "opening", "discarding", "inserting",
         "returning", "saving", "keeping", "closed_summary", "closed_drained", "closed_draft",
         "closed_nothing", "closed_refused", "closed_withheld", "claimed", "running",
         "failing_over", "escaped", "last_resort"}
    BY <1>1 DEF Unsettled, Summary!Stages, Summary!Guarded, Summary!Escaping
  <1>3. Summary!Stages = Unsettled \cup {"idle", "telling"}
    BY <1>1 DEF Unsettled, Summary!Stages, Summary!Guarded, Summary!Escaping
  <1> QED
    BY <1>1, <1>2, <1>3 DEF Summary!AfterClosing, Rejected

\* A step that leaves a job to itself, whatever it rejects or tells of another.
LEMMA SummaryAside ==
    ASSUME NEW k \in SummaryRows, SummaryRow(k),
           summaryAttempts[k] \in Nat, summaryRejects \in Nat, summaryCrashes \in Nat,
           SummaryRetries \in Nat,
           worker'[k] = worker[k], summaryStatus'[k] = summaryStatus[k],
           summaryAttempts'[k] = summaryAttempts[k], draft'[k] = draft[k],
           summaries'[k] = summaries[k], excused'[k] = excused[k],
           summaryCrashes' = summaryCrashes,
           summaryRejects' \in {summaryRejects, summaryRejects + 1},
           summaryPhase' = summaryPhase \/ (summaryPhase # "down" /\ summaryPhase' # "down"),
           k \in sticky' => k \in sticky \/ summaryStatus[k] \in {"pending", "processing"}
    PROVE  SummaryRow(k)'
PROOF
  <1>1. worker[k] \in DOMAIN Rejected => Rejected[worker[k]] \in Nat
    BY SummaryStages
  <1>2. /\ worker'[k] # "idle" => summaryPhase' # "down"
        /\ worker'[k] \in Unsettled => summaryStatus'[k] = "processing" /\ summaryAttempts'[k] > 0
        /\ worker'[k] \in DOMAIN Rejected => summaryRejects' >= Rejected[worker'[k]]
        /\ worker'[k] \notin Unsettled /\ summaryStatus'[k] = "processing"
               /\ summaryPhase' # "down" =>
            summaryRejects' >= 2
    BY <1>1 DEF SummaryRow
  <1>3. summaryAttempts'[k] + (IF worker'[k] \notin Unsettled
            /\ summaryStatus'[k] \in {"pending", "processing"}
                               THEN 1 ELSE 0)
        <= SummaryRetries + 1 + summaryCrashes' + summaryRejects'
    BY DEF SummaryRow
  <1>4. /\ summaries'[k] = (IF summaryStatus'[k] = "complete" THEN 1 ELSE 0)
        /\ worker'[k] \in {"failing", "deleting", "keeping", "spent"} => excused'[k]
        /\ summaryStatus'[k] = "failed" /\ draft'[k] => excused'[k] \/ summaryRejects' > 0
        /\ k \in sticky' => \/ summaryStatus'[k] \in {"pending", "processing"}
                            \/ worker'[k] = "telling" \/ summaryRejects' >= 2
    BY DEF SummaryRow
  <1> QED
    BY <1>2, <1>3, <1>4 DEF SummaryRow, Unsettled, Rejected

\* A step that concerns one job.
LEMMA SummaryAlone ==
    ASSUME Summary!SummaryJobsAssumption, SummaryInv, NEW j \in SummaryRows,
           Summary!TypeOK', SummaryRow(j)',
           \A k \in SummaryRows \ {j} :
               /\ worker'[k] = worker[k] /\ summaryStatus'[k] = summaryStatus[k]
               /\ summaryAttempts'[k] = summaryAttempts[k] /\ draft'[k] = draft[k]
               /\ summaries'[k] = summaries[k] /\ excused'[k] = excused[k]
               /\ k \in sticky' => k \in sticky,
           UNCHANGED <<summaryPhase, summaryCrashes, summaryRestarts>>,
           summaryRejects' \in {summaryRejects, summaryRejects + 1}
    PROVE  SummaryInv'
PROOF
  <1>1. /\ Summary!TypeOK /\ SummaryProcess /\ \A k \in SummaryRows : SummaryRow(k)
        /\ SummaryRetries \in Nat /\ summaryRejects \in Nat /\ summaryCrashes \in Nat
        /\ \A k \in SummaryRows : summaryAttempts[k] \in Nat
    BY DEF SummaryInv, Summary!TypeOK, Summary!SummaryJobsAssumption
  <1>2. ASSUME NEW k \in SummaryRows \ {j} PROVE SummaryRow(k)'
    BY <1>1, SummaryAside
  <1>3. SummaryProcess'
    BY <1>1 DEF SummaryProcess
  <1> QED
    BY <1>2, <1>3 DEF SummaryInv

\* From the claim to the end of the run.
LEMMA SummaryRuns ==
    ASSUME Summary!SummaryJobsAssumption, SummaryInv, NEW j \in SummaryRows,
           Summary!Enqueue(j) \/ Summary!Claim(j) \/ Summary!Resolve(j) \/ Summary!RunEnds(j)
               \/ Summary!RunJudged(j) \/ Summary!SessionWritten(j)
    PROVE  SummaryInv'
PROOF
  <1> USE SummaryStages DEF Summary!jobVars, Summary!priorityVars, Summary!processVars,
        Summary!boundVars,
          Summary!GoesTo, Summary!Becomes
  <1>1. /\ Summary!TypeOK /\ SummaryProcess /\ SummaryRow(j) /\ SummaryRetries \in Nat
        /\ summaryRejects \in Nat /\ summaryCrashes \in Nat /\ summaryAttempts[j] \in Nat
    BY DEF SummaryInv, Summary!TypeOK, Summary!SummaryJobsAssumption
  <1>2. CASE Summary!Enqueue(j)
    <2>1. Summary!TypeOK'
      BY <1>1, <1>2 DEF Summary!TypeOK, Summary!SummaryJobsAssumption, Summary!Enqueue, SummaryRow
    <2>2. SummaryRow(j)'
      BY <1>1, <1>2 DEF Summary!TypeOK, Summary!Enqueue, Summary!Running, Summary!Ended,
                        SummaryRow
    <2> QED
      BY <1>1, <1>2, <2>1, <2>2, SummaryAlone DEF Summary!TypeOK, Summary!Enqueue
  <1>3. CASE Summary!Claim(j)
    <2>1. Summary!TypeOK'
      BY <1>1, <1>3 DEF Summary!TypeOK, Summary!SummaryJobsAssumption, Summary!Claim, SummaryRow
    <2>2. SummaryRow(j)'
      BY <1>1, <1>3 DEF Summary!TypeOK, Summary!Claim, Summary!Running, Summary!Ended, SummaryRow
    <2> QED
      BY <1>1, <1>3, <2>1, <2>2, SummaryAlone DEF Summary!TypeOK, Summary!Claim
  <1>4. CASE Summary!Resolve(j)
    <2>1. Summary!TypeOK'
      <3>1. worker' \in [SummaryRows -> Summary!Stages]
        BY <1>1, <1>4 DEF Summary!TypeOK, Summary!Resolve
      <3>2. excused' \in [SummaryRows -> BOOLEAN]
        BY <1>1, <1>4 DEF Summary!TypeOK, Summary!Resolve
      <3> QED
        BY <1>1, <1>4, <3>1, <3>2 DEF Summary!TypeOK, Summary!Resolve
    <2>2. SummaryRow(j)'
      BY <1>1, <1>4 DEF Summary!TypeOK, Summary!Resolve, Summary!Running, Summary!Ended,
                        SummaryRow
    <2> QED
      BY <1>1, <1>4, <2>1, <2>2, SummaryAlone DEF Summary!TypeOK, Summary!Resolve
  <1>5. CASE Summary!RunEnds(j)
    <2>1. Summary!TypeOK'
      BY <1>1, <1>5 DEF Summary!TypeOK, Summary!SummaryJobsAssumption, Summary!RunEnds, SummaryRow
    <2>2. SummaryRow(j)'
      BY <1>1, <1>5 DEF Summary!TypeOK, Summary!RunEnds, Summary!Running, Summary!Ended,
                        SummaryRow
    <2> QED
      BY <1>1, <1>5, <2>1, <2>2, SummaryAlone DEF Summary!TypeOK, Summary!RunEnds
  <1>6. CASE Summary!RunJudged(j)
    <2>1. Summary!TypeOK'
      BY <1>1, <1>6 DEF Summary!TypeOK, Summary!SummaryJobsAssumption, Summary!RunJudged,
                        SummaryRow
    <2>2. SummaryRow(j)'
      BY <1>1, <1>6 DEF Summary!TypeOK, Summary!RunJudged, Summary!Running, Summary!Ended,
                        SummaryRow
    <2> QED
      BY <1>1, <1>6, <2>1, <2>2, SummaryAlone DEF Summary!TypeOK, Summary!RunJudged
  <1>7. CASE Summary!SessionWritten(j)
    <2>1. /\ worker[j] \in Unsettled
          /\ \E s \in Unsettled \ DOMAIN Rejected : worker' = [worker EXCEPT ![j] = s]
          /\ \E e \in BOOLEAN : excused' = [excused EXCEPT ![j] = e] /\ (excused[j] => e)
          /\ worker'[j] \in {"failing", "deleting", "keeping", "spent"} => excused'[j]
      <3>1. CASE worker[j] = "opening"
        BY <1>1, <1>7, <3>1 DEF Summary!SessionWritten, Summary!TypeOK
      <3>2. CASE worker[j] = "discarding"
        <4>1. excused[j] \in BOOLEAN /\ excused \in [SummaryRows -> BOOLEAN]
              /\ worker \in [SummaryRows -> Summary!Stages]
          BY <1>1 DEF Summary!TypeOK
        <4>2. CASE worker' = [worker EXCEPT ![j] = "opening"] /\ excused' = excused
          <5>1. excused' = [excused EXCEPT ![j] = excused[j]]
            BY <4>1, <4>2
          <5>2. worker'[j] = "opening"
            BY <4>1, <4>2
          <5> QED
            BY <3>2, <4>1, <4>2, <5>1, <5>2
        <4>3. CASE worker' = [worker EXCEPT ![j] = "failing"]
                       /\ excused' = [excused EXCEPT ![j] = TRUE]
          BY <3>2, <4>1, <4>3
        <4> QED
          BY <1>7, <3>2, <4>2, <4>3 DEF Summary!SessionWritten
      <3>3. CASE worker[j] \in DOMAIN Summary!AfterClosing
        <4>1. /\ worker' = [worker EXCEPT ![j] = Summary!AfterClosing[worker[j]]]
              /\ excused' = [excused EXCEPT ![j] =
                                @ \/ worker[j] \in {"closed_refused", "closed_withheld"}]
          BY <1>7, <3>3 DEF Summary!SessionWritten
        <4>2. /\ excused \in [SummaryRows -> BOOLEAN] /\ excused[j] \in BOOLEAN
              /\ worker \in [SummaryRows -> Summary!Stages]
          BY <1>1 DEF Summary!TypeOK
        <4>3. /\ worker[j] \in Unsettled
                     /\ Summary!AfterClosing[worker[j]] \in Unsettled \ DOMAIN Rejected
              /\ Summary!AfterClosing[worker[j]] \in {"failing", "deleting", "keeping", "spent"}
                    => worker[j] \in {"closed_refused", "closed_withheld"}
          BY <3>3
        <4>4. PICK e \in BOOLEAN :
                  e <=> (excused[j] \/ worker[j] \in {"closed_refused", "closed_withheld"})
          OBVIOUS
        <4>5. excused' = [excused EXCEPT ![j] = e]
          <5>1. (excused[j] \/ worker[j] \in {"closed_refused", "closed_withheld"}) = e
            BY <4>2, <4>4
          <5> QED
            BY <4>1, <5>1
        <4>6. worker'[j] = Summary!AfterClosing[worker[j]] /\ excused'[j] = e
          BY <4>1, <4>2, <4>5
        <4> QED
          BY <4>1, <4>3, <4>4, <4>5, <4>6
      <3> QED
        BY <1>7, <3>1, <3>2, <3>3 DEF Summary!SessionWritten
    <2>2. /\ UNCHANGED <<summaryStatus, summaryAttempts, draft, summaries, escalation, sticky,
                         summaryPhase, summaryCrashes, summaryRestarts, summaryByHand,
                         summaryRejects, redos>>
          /\ swept' \in SUBSET SummaryRows
      BY <1>1, <1>7 DEF Summary!SessionWritten, Summary!TypeOK
    <2>3. Summary!TypeOK'
      BY <1>1, <2>1, <2>2 DEF Summary!TypeOK
    <2>4. SummaryRow(j)'
      BY <1>1, <2>1, <2>2 DEF Summary!TypeOK, SummaryRow
    <2> QED
      BY <1>1, <2>1, <2>2, <2>3, <2>4, SummaryAlone DEF Summary!TypeOK
  <1> QED
    BY <1>2, <1>3, <1>4, <1>5, <1>6, <1>7

\* A write commits that settles a job or leads to one that does.
LEMMA SummaryEnds ==
    ASSUME Summary!SummaryJobsAssumption, SummaryInv, NEW j \in SummaryRows,
           Summary!InsertSummary(j) \/ Summary!ReturnToPending(j) \/ Summary!SaveDraft(j)
               \/ Summary!End(j) \/ Summary!GiveUp(j) \/ Summary!Terminalize(j)
                      \/ Summary!LastResort(j)
    PROVE  SummaryInv'
PROOF
  <1> USE SummaryStages DEF Summary!jobVars, Summary!priorityVars, Summary!processVars,
        Summary!boundVars,
          Summary!GoesTo, Summary!Becomes
  <1>1. /\ Summary!TypeOK /\ SummaryProcess /\ SummaryRow(j) /\ SummaryRetries \in Nat
        /\ summaryRejects \in Nat /\ summaryCrashes \in Nat /\ summaryAttempts[j] \in Nat
    BY DEF SummaryInv, Summary!TypeOK, Summary!SummaryJobsAssumption
  <1>2. CASE Summary!InsertSummary(j)
    <2>1. Summary!TypeOK'
      BY <1>1, <1>2 DEF Summary!TypeOK, Summary!SummaryJobsAssumption, Summary!InsertSummary,
                        SummaryRow
    <2>2. SummaryRow(j)'
      BY <1>1, <1>2 DEF Summary!TypeOK, Summary!InsertSummary, Summary!Running, Summary!Ended,
                        SummaryRow
    <2> QED
      BY <1>1, <1>2, <2>1, <2>2, SummaryAlone DEF Summary!TypeOK, Summary!InsertSummary
  <1>3. CASE Summary!ReturnToPending(j)
    <2>1. Summary!TypeOK'
      BY <1>1, <1>3 DEF Summary!TypeOK, Summary!SummaryJobsAssumption, Summary!ReturnToPending,
                        SummaryRow
    <2>2. SummaryRow(j)'
      BY <1>1, <1>3 DEF Summary!TypeOK, Summary!ReturnToPending, Summary!Running, Summary!Ended,
                        SummaryRow
    <2> QED
      BY <1>1, <1>3, <2>1, <2>2, SummaryAlone DEF Summary!TypeOK, Summary!ReturnToPending
  <1>4. CASE Summary!SaveDraft(j)
    <2>1. Summary!TypeOK'
      BY <1>1, <1>4 DEF Summary!TypeOK, Summary!SummaryJobsAssumption, Summary!SaveDraft,
                        SummaryRow
    <2>2. SummaryRow(j)'
      BY <1>1, <1>4 DEF Summary!TypeOK, Summary!SaveDraft, Summary!Running, Summary!Ended,
                        SummaryRow
    <2> QED
      BY <1>1, <1>4, <2>1, <2>2, SummaryAlone DEF Summary!TypeOK, Summary!SaveDraft
  <1>5. CASE Summary!End(j)
    <2>1. Summary!TypeOK'
      BY <1>1, <1>5 DEF Summary!TypeOK, Summary!SummaryJobsAssumption, Summary!End, SummaryRow
    <2>2. SummaryRow(j)'
      BY <1>1, <1>5 DEF Summary!TypeOK, Summary!End, Summary!Running, Summary!Ended, SummaryRow
    <2> QED
      BY <1>1, <1>5, <2>1, <2>2, SummaryAlone DEF Summary!TypeOK, Summary!End
  <1>6. CASE Summary!GiveUp(j)
    <2>1. Summary!TypeOK'
      BY <1>1, <1>6 DEF Summary!TypeOK, Summary!SummaryJobsAssumption, Summary!GiveUp, SummaryRow
    <2>2. SummaryRow(j)'
      BY <1>1, <1>6 DEF Summary!TypeOK, Summary!GiveUp, Summary!Running, Summary!Ended, SummaryRow
    <2> QED
      BY <1>1, <1>6, <2>1, <2>2, SummaryAlone DEF Summary!TypeOK, Summary!GiveUp
  <1>7. CASE Summary!Terminalize(j)
    <2>1. Summary!TypeOK'
      BY <1>1, <1>7 DEF Summary!TypeOK, Summary!SummaryJobsAssumption, Summary!Terminalize,
                        SummaryRow
    <2>2. SummaryRow(j)'
      BY <1>1, <1>7 DEF Summary!TypeOK, Summary!Terminalize, Summary!Running, Summary!Ended,
                        SummaryRow
    <2> QED
      BY <1>1, <1>7, <2>1, <2>2, SummaryAlone DEF Summary!TypeOK, Summary!Terminalize
  <1>8. CASE Summary!LastResort(j)
    <2>1. Summary!TypeOK'
      BY <1>1, <1>8 DEF Summary!TypeOK, Summary!SummaryJobsAssumption, Summary!LastResort,
                        SummaryRow
    <2>2. SummaryRow(j)'
      BY <1>1, <1>8 DEF Summary!TypeOK, Summary!LastResort, Summary!Running, Summary!Ended,
                        SummaryRow
    <2> QED
      BY <1>1, <1>8, <2>1, <2>2, SummaryAlone DEF Summary!TypeOK, Summary!LastResort
  <1> QED
    BY <1>2, <1>3, <1>4, <1>5, <1>6, <1>7, <1>8

\* A write rejects, the scheduler and the operator.
LEMMA SummaryOthers ==
    ASSUME Summary!SummaryJobsAssumption, SummaryInv, NEW j \in SummaryRows,
           Summary!WriteRejects(j) \/ Summary!Tell(j) \/ Summary!Escalate(j)
               \/ Summary!EscalateThen(j) \/ Summary!RetryByHand(j)
    PROVE  SummaryInv'
PROOF
  <1> USE SummaryStages DEF Summary!jobVars, Summary!priorityVars, Summary!processVars,
        Summary!boundVars,
          Summary!GoesTo, Summary!Becomes
  <1>1. /\ Summary!TypeOK /\ SummaryProcess /\ SummaryRow(j) /\ SummaryRetries \in Nat
        /\ summaryRejects \in Nat /\ summaryCrashes \in Nat /\ summaryAttempts[j] \in Nat
    BY DEF SummaryInv, Summary!TypeOK, Summary!SummaryJobsAssumption
  <1>2. CASE Summary!WriteRejects(j)
    <2>1. Summary!TypeOK'
      BY <1>1, <1>2 DEF Summary!TypeOK, Summary!SummaryJobsAssumption, Summary!WriteRejects,
                        SummaryRow
    <2>2. SummaryRow(j)'
      <3>1. /\ worker[j] \in Unsettled
            /\ summaryRejects' = summaryRejects + 1 /\ worker' = [worker EXCEPT ![j] = worker'[j]]
            /\ \/ worker'[j] \in {"escaped", "failing_over"}
               \/ worker'[j] = "last_resort" /\ summaryRejects >= 1
               \/ worker'[j] \in {"idle", "telling"} /\ summaryRejects >= 1
        BY <1>1, <1>2 DEF Summary!TypeOK, Summary!WriteRejects, Summary!Guarded,
                          Summary!Escaping, SummaryRow
      <3> QED
        BY <1>1, <1>2, <3>1 DEF Summary!TypeOK, Summary!WriteRejects, SummaryRow
    <2> QED
      BY <1>1, <1>2, <2>1, <2>2, SummaryAlone DEF Summary!TypeOK, Summary!WriteRejects
  <1>3. CASE Summary!Tell(j)
    <2>1. Summary!TypeOK'
      BY <1>1, <1>3 DEF Summary!TypeOK, Summary!SummaryJobsAssumption, Summary!Tell, SummaryRow
    <2>2. SummaryRow(j)'
      BY <1>1, <1>3 DEF Summary!TypeOK, Summary!Tell, Summary!Running, Summary!Ended, SummaryRow
    <2> QED
      BY <1>1, <1>3, <2>1, <2>2, SummaryAlone DEF Summary!TypeOK, Summary!Tell
  <1>4. CASE Summary!Escalate(j)
    <2>1. Summary!TypeOK'
      BY <1>1, <1>4 DEF Summary!TypeOK, Summary!SummaryJobsAssumption, Summary!Escalate,
                        SummaryRow
    <2>2. SummaryRow(j)'
      BY <1>1, <1>4 DEF Summary!TypeOK, Summary!Escalate, Summary!Running, Summary!Ended,
                        SummaryRow
    <2> QED
      BY <1>1, <1>4, <2>1, <2>2, SummaryAlone DEF Summary!TypeOK, Summary!Escalate
  <1>5. CASE Summary!EscalateThen(j)
    <2>1. Summary!TypeOK'
      BY <1>1, <1>5 DEF Summary!TypeOK, Summary!SummaryJobsAssumption, Summary!EscalateThen,
                        SummaryRow
    <2>2. SummaryRow(j)'
      BY <1>1, <1>5 DEF Summary!TypeOK, Summary!EscalateThen, Summary!Running, Summary!Ended,
                        SummaryRow
    <2> QED
      BY <1>1, <1>5, <2>1, <2>2, SummaryAlone DEF Summary!TypeOK, Summary!EscalateThen
  <1>6. CASE Summary!RetryByHand(j)
    <2>1. Summary!TypeOK'
      BY <1>1, <1>6 DEF Summary!TypeOK, Summary!SummaryJobsAssumption, Summary!RetryByHand,
                        SummaryRow
    <2>2. SummaryRow(j)'
      BY <1>1, <1>6 DEF Summary!TypeOK, Summary!RetryByHand, Summary!Running, Summary!Ended,
                        SummaryRow
    <2> QED
      BY <1>1, <1>6, <2>1, <2>2, SummaryAlone DEF Summary!TypeOK, Summary!RetryByHand
  <1> QED
    BY <1>2, <1>3, <1>4, <1>5, <1>6

\* A shutdown sets in, the process ends or starts again.
LEMMA SummaryProcesses ==
    ASSUME Summary!SummaryJobsAssumption, SummaryInv, Summary!Stop \/ Summary!Exit
               \/ Summary!Start
    PROVE  SummaryInv'
PROOF
  <1> USE SummaryStages DEF Summary!jobVars, Summary!priorityVars, Summary!processVars,
        Summary!boundVars
  <1>1. /\ Summary!TypeOK /\ SummaryProcess /\ \A j \in SummaryRows : SummaryRow(j)
        /\ SummaryRetries \in Nat /\ summaryRejects \in Nat /\ summaryCrashes \in Nat
        /\ summaryRestarts \in Nat /\ MaxSummaryRestarts \in Nat
        /\ \A j \in SummaryRows : summaryAttempts[j] \in Nat
    BY DEF SummaryInv, Summary!TypeOK, Summary!SummaryJobsAssumption
  <1>2. CASE Summary!Stop
    <2>1. Summary!TypeOK' /\ SummaryProcess'
      BY <1>1, <1>2 DEF Summary!TypeOK, SummaryProcess, Summary!Stop, Summary!Running
    <2>2. ASSUME NEW j \in SummaryRows PROVE SummaryRow(j)'
      BY <1>1, <1>2, SummaryAside DEF Summary!Stop, Summary!Running
    <2> QED
      BY <2>1, <2>2 DEF SummaryInv
  <1>3. CASE Summary!Exit
    <2>1. /\ summaryCrashes' = IF Summary!Busy = {} THEN summaryCrashes ELSE summaryCrashes + 1
          /\ summaryPhase # "down" /\ summaryPhase' = "down"
                 /\ summaryRestarts < MaxSummaryRestarts
          /\ worker' = [j \in SummaryRows |-> "idle"] /\ sticky' = {} /\ swept' = {}
          /\ escalation' = [j \in SummaryRows |-> "none"]
          /\ UNCHANGED <<summaryStatus, summaryAttempts, draft, summaries, excused,
                         summaryRestarts, summaryByHand, summaryRejects, redos>>
      BY <1>3 DEF Summary!Exit
    <2>2. summaryCrashes' \in {summaryCrashes, summaryCrashes + 1}
      BY <2>1
    <2>3. Summary!TypeOK' /\ SummaryProcess'
      BY <1>1, <2>1, <2>2 DEF Summary!TypeOK, SummaryProcess
    <2>4. ASSUME NEW j \in SummaryRows PROVE SummaryRow(j)'
      <3>1. worker[j] \in Unsettled => summaryCrashes' = summaryCrashes + 1
        BY <2>1 DEF Summary!Busy
      <3>2. worker'[j] = "idle" /\ j \notin sticky'
        BY <2>1
      <3>3. summaryAttempts[j] + 1 <= SummaryRetries + 1 + summaryCrashes' + summaryRejects
            \/ summaryStatus[j] \notin {"pending", "processing"}
        BY <1>1, <2>2, <3>1 DEF SummaryRow
      <3>4. summaryAttempts[j] <= SummaryRetries + 1 + summaryCrashes' + summaryRejects
        BY <1>1, <2>2 DEF SummaryRow
      <3> QED
        BY <1>1, <2>1, <3>2, <3>3, <3>4 DEF SummaryRow
    <2> QED
      BY <2>3, <2>4 DEF SummaryInv
  <1>4. CASE Summary!Start
    <2>1. Summary!TypeOK' /\ SummaryProcess'
      BY <1>1, <1>4 DEF Summary!TypeOK, SummaryProcess, Summary!Start
    <2>2. ASSUME NEW j \in SummaryRows PROVE SummaryRow(j)'
      BY <1>1, <1>4 DEF Summary!TypeOK, SummaryRow, Summary!Start
    <2> QED
      BY <2>1, <2>2 DEF SummaryInv
  <1> QED
    BY <1>2, <1>3, <1>4

LEMMA SummaryInit == ASSUME Summary!SummaryJobsAssumption, Summary!Init PROVE SummaryInv
BY SummaryStages DEF Summary!Init, Summary!SummaryJobsAssumption, SummaryInv, Summary!TypeOK,
   SummaryProcess, SummaryRow

LEMMA SummaryStep ==
    ASSUME Summary!SummaryJobsAssumption, SummaryInv, [Summary!Next]_(Summary!vars)
    PROVE  SummaryInv'
PROOF
  <1>1. ASSUME NEW j \in SummaryRows, Summary!Work(j) PROVE SummaryInv'
    BY <1>1, SummaryRuns, SummaryEnds, SummaryOthers DEF Summary!Work
  <1>2. CASE UNCHANGED Summary!vars
    BY <1>2 DEF Summary!vars, SummaryInv, Summary!TypeOK, SummaryProcess, SummaryRow
  <1> QED
    BY <1>1, <1>2, SummaryRuns, SummaryOthers, SummaryProcesses DEF Summary!Next

LEMMA SummarySafe ==
    ASSUME Summary!SummaryJobsAssumption, SummaryInv
    PROVE  /\ Summary!NotStranded /\ Summary!OneSummary /\ Summary!AttemptsBounded
           /\ Summary!DraftSalvaged /\ Summary!EscalationCleared
PROOF
  <1>1. /\ Summary!TypeOK /\ \A j \in SummaryRows : SummaryRow(j)
        /\ SummaryRetries \in Nat /\ summaryRejects \in Nat /\ summaryCrashes \in Nat
        /\ \A j \in SummaryRows : summaryAttempts[j] \in Nat
    BY DEF SummaryInv, Summary!TypeOK, Summary!SummaryJobsAssumption
  <1>2. Summary!NotStranded
    BY <1>1, SummaryStages DEF SummaryRow, Summary!NotStranded, Summary!Running
  <1>3. Summary!OneSummary /\ Summary!AttemptsBounded
    BY <1>1 DEF SummaryRow, Summary!OneSummary, Summary!AttemptsBounded
  <1>4. Summary!DraftSalvaged /\ Summary!EscalationCleared
    BY <1>1 DEF SummaryRow, Summary!TypeOK, Summary!DraftSalvaged, Summary!EscalationCleared
  <1> QED
    BY <1>2, <1>3, <1>4

\* (summarization/worker-pool.ts: rejected writes, drains, crashes, retries by hand.)  No
\* job is left in processing without a worker but by two rejected writes, it stores one
\* summary, and it is tried max_retries times and once more for each crash and rejection.
THEOREM JobsSettle ==
    ASSUME Summary!SummaryJobsAssumption
    PROVE  Summary!Spec =>
               [](Summary!NotStranded /\ Summary!OneSummary /\ Summary!AttemptsBounded)
PROOF
  <1>1. Summary!Init => SummaryInv
    BY SummaryInit
  <1>2. SummaryInv /\ [Summary!Next]_(Summary!vars) => SummaryInv'
    BY SummaryStep
  <1>3. SummaryInv => Summary!NotStranded /\ Summary!OneSummary /\ Summary!AttemptsBounded
    BY SummarySafe
  <1> QED
    BY <1>1, <1>2, <1>3, PTL DEF Summary!Spec

\* (truncationFallback, escalation.ts.)  No job fails that has a draft to show, and no sticky
\* escalation outlives its job, but by a rejected write.
THEOREM DraftsAndEscalations ==
    ASSUME Summary!SummaryJobsAssumption
    PROVE  Summary!Spec => [](Summary!DraftSalvaged /\ Summary!EscalationCleared)
PROOF
  <1>1. Summary!Init => SummaryInv
    BY SummaryInit
  <1>2. SummaryInv /\ [Summary!Next]_(Summary!vars) => SummaryInv'
    BY SummaryStep
  <1>3. SummaryInv => Summary!DraftSalvaged /\ Summary!EscalationCleared
    BY SummarySafe
  <1> QED
    BY <1>1, <1>2, <1>3, PTL DEF Summary!Spec

-----------------------------------------------------------------------------
(***************************************************************************)
(* BackfetchJob.                                                           *)
(***************************************************************************)
CONSTANTS FetchJobs, Stamp, Held, PageSize, Targets, SafetyCap, MaxFaults, MaxDrains, MaxOrders
VARIABLES rows, floor, fetchStatus, target, cursor, counted, loop, fetchAt, boundary, stored,
          fetchLeft, flags, outcome, fetchUp, fetchDraining, resumed, fetchFaults, drains,
          orders, own, heedless, forsaken

Backfetch == INSTANCE BackfetchJob WITH
    Jobs <- FetchJobs,
    status <- fetchStatus, at <- fetchAt, left <- fetchLeft, up <- fetchUp,
    draining <- fetchDraining, faults <- fetchFaults

\* The stages of a run after its first write.
Underway == {"reading", "page", "paged", "ending"}

\* What the table and a job's row hold: whatever is behind a saved cursor was seen, and the
\* count is short of what was stored by a page for each crash or rejected write at most.
FetchRow(j) ==
    /\ loop[j] # "none" => fetchStatus[j] \in Backfetch!Active
    /\ fetchStatus[j] = "absent" => counted[j] = 0
    /\ \A p \in 1..cursor[j] : Backfetch!Seen(p)
    /\ fetchStatus[j] = "completed" /\ target[j] = 0 => \A p \in 1..Len(Stamp) : Backfetch!Seen(p)
    /\ target[j] > 0 => counted[j] <= target[j]
    /\ own[j] \subseteq rows /\ counted[j] <= Cardinality(own[j])
    /\ Cardinality(own[j]) <= (IF loop[j] \in Underway THEN stored[j] ELSE counted[j])
                              + fetchFaults * PageSize
    /\ \A p \in own[j] : floor # 0 /\ Backfetch!Before(p, floor)

\* A run begins at its cursor, and between two writes of it goes no further than a page.
Pages(j) ==
    /\ loop[j] \in {"reading", "paged"} =>
        stored[j] = counted[j] /\ (fetchAt[j] = cursor[j] \/ (fetchAt[j] = Len(Stamp)
            /\ cursor[j] = 0))
    /\ loop[j] = "page" =>
        /\ cursor[j] <= fetchAt[j] /\ fetchAt[j] <= cursor[j] + PageSize
        /\ stored[j] + cursor[j] <= counted[j] + fetchAt[j]
        /\ heedless[j] + cursor[j] <= fetchAt[j]
    /\ loop[j] \in Underway =>
        /\ counted[j] <= stored[j] /\ stored[j] <= counted[j] + PageSize
        /\ stored[j] <= Cardinality(own[j])
    /\ loop[j] \in {"none", "starting", "reading"} \/ flags[j] = {} => heedless[j] = 0
    /\ heedless[j] <= PageSize

\* What a run may still store, what it has seen, and below what it stores.
Aims(j) ==
    /\ loop[j] \in Underway \ {"ending"} /\ target[j] > 0 =>
        fetchLeft[j] > 0 /\ stored[j] + fetchLeft[j] = target[j]
    /\ loop[j] \in Underway /\ target[j] > 0 => stored[j] <= target[j]
    /\ loop[j] \in Underway =>
        /\ \A p \in 1..fetchAt[j] : Backfetch!Seen(p)
        /\ boundary[j] \in rows
        /\ floor # 0 => ~Backfetch!Before(floor, boundary[j])
    /\ loop[j] = "ending" /\ outcome[j] = "completed" /\ target[j] = 0 => fetchAt[j] = Len(Stamp)

\* What is stored was reached from the newest end; and a room has one job that is not over.
RoomSound ==
    /\ 1 \in rows /\ (floor # 0 => floor \in rows)
    /\ \A q \in rows : \A p \in 1..q : Backfetch!Seen(p)
    /\ \A j, k \in FetchJobs :
        fetchStatus[j] \in Backfetch!Active /\ fetchStatus[k] \in Backfetch!Active => j = k

FetchInv ==
    /\ Backfetch!TypeOK /\ RoomSound
    /\ \A j \in FetchJobs : FetchRow(j) /\ Pages(j) /\ Aims(j)

-----------------------------------------------------------------------------
\* The least of two numbers.
LEMMA FetchMin ==
    ASSUME NEW a \in Nat, NEW b \in Nat
    PROVE  Backfetch!Min({a, b}) = IF a <= b THEN a ELSE b
PROOF
  <1> DEFINE m == IF a <= b THEN a ELSE b
  <1>1. m \in {a, b} /\ \A x \in {a, b} : m <= x
    OBVIOUS
  <1>2. \E x \in {a, b} : \A y \in {a, b} : x <= y
    BY <1>1
  <1>3. Backfetch!Min({a, b}) \in {a, b} /\ \A y \in {a, b} : Backfetch!Min({a, b}) <= y
    BY <1>2, Zenon DEF Backfetch!Min
  <1>4. Backfetch!Min({a, b}) <= m /\ m <= Backfetch!Min({a, b}) /\ Backfetch!Min({a, b}) \in Nat
    BY <1>1, <1>3
  <1> QED
    BY <1>4

\* The type invariant, variable by variable.
FetchTyped ==
    /\ rows \subseteq Backfetch!History /\ floor \in {0} \cup Backfetch!History
    /\ fetchStatus \in [FetchJobs -> Backfetch!Active \cup {"absent", "completed", "failed",
         "cancelled"}]
    /\ target \in [FetchJobs -> {0} \cup Targets]
    /\ cursor \in [FetchJobs -> {0} \cup Backfetch!History]
    /\ fetchAt \in [FetchJobs -> {0} \cup Backfetch!History]
    /\ counted \in [FetchJobs -> Nat] /\ stored \in [FetchJobs -> Nat]
    /\ fetchLeft \in [FetchJobs -> Nat]
    /\ loop \in [FetchJobs -> {"none", "starting", "reading", "page", "paged", "ending"}]
    /\ boundary \in [FetchJobs -> Backfetch!History]
    /\ flags \in [FetchJobs -> SUBSET {"paused", "cancelled"}]
    /\ outcome \in [FetchJobs -> {"completed", "failed", "paused", "cancelled"}]
    /\ fetchUp \in BOOLEAN /\ fetchDraining \in BOOLEAN /\ resumed \in BOOLEAN
    /\ fetchFaults \in 0..MaxFaults /\ drains \in 0..MaxDrains /\ orders \in 0..MaxOrders
    /\ own \in [FetchJobs -> SUBSET Backfetch!History] /\ heedless \in [FetchJobs -> Nat]
    /\ forsaken \in SUBSET FetchJobs

\* The two are one.
LEMMA FetchTypedIs == (Backfetch!TypeOK <=> FetchTyped) /\ (Backfetch!TypeOK' <=> FetchTyped')
PROOF
  BY Zenon DEF Backfetch!TypeOK, FetchTyped, Backfetch!Active, Backfetch!History

\* The types of a job's numbers.
LEMMA FetchTypes ==
    ASSUME Backfetch!TypeOK, Backfetch!BackfetchJobAssumption
    PROVE  /\ cursor \in [FetchJobs -> 0..Len(Stamp)] /\ fetchAt \in [FetchJobs -> 0..Len(Stamp)]
           /\ counted \in [FetchJobs -> Nat] /\ stored \in [FetchJobs -> Nat]
           /\ fetchLeft \in [FetchJobs -> Nat] /\ target \in [FetchJobs -> Nat]
           /\ Len(Stamp) \in Nat /\ PageSize \in Nat /\ PageSize > 0 /\ SafetyCap \in Nat
           /\ fetchFaults \in Nat /\ fetchFaults * PageSize \in Nat
           /\ rows \subseteq 1..Len(Stamp) /\ floor \in 0..Len(Stamp)
PROOF
  <1>1. /\ cursor \in [FetchJobs -> {0} \cup (1..Len(Stamp))]
        /\ fetchAt \in [FetchJobs -> {0} \cup (1..Len(Stamp))]
    BY Zenon DEF Backfetch!TypeOK, Backfetch!History
  <1>2. /\ counted \in [FetchJobs -> Nat] /\ stored \in [FetchJobs -> Nat]
        /\ fetchLeft \in [FetchJobs -> Nat]
    BY Zenon DEF Backfetch!TypeOK
  <1>3. Stamp \in Seq(Nat) /\ Targets \subseteq Nat /\ PageSize \in Nat \ {0} /\ SafetyCap \in Nat
        /\ MaxFaults \in Nat
    BY Zenon DEF Backfetch!BackfetchJobAssumption
  <1>4. Len(Stamp) \in Nat
    BY <1>3, LenProperties
  <1>5. {0} \cup (1..Len(Stamp)) = 0..Len(Stamp)
    BY <1>4
  <1>6. target \in [FetchJobs -> Nat] /\ fetchFaults \in Nat /\ PageSize \in Nat /\ PageSize > 0
    <2>1. target \in [FetchJobs -> {0} \cup Targets] /\ fetchFaults \in 0..MaxFaults
      BY Zenon DEF Backfetch!TypeOK
    <2>2. target \in [FetchJobs -> Nat]
      <3>1. {0} \cup Targets \subseteq Nat
        BY <1>3
      <3> QED
        BY <2>1, <3>1
    <2> QED
      BY <1>3, <2>1, <2>2
  <1>7. fetchFaults * PageSize \in Nat
    BY <1>6
  <1>8. rows \subseteq 1..Len(Stamp) /\ floor \in 0..Len(Stamp)
    BY <1>5 DEF Backfetch!TypeOK, Backfetch!History
  <1> QED
    BY <1>1, <1>2, <1>3, <1>4, <1>5, <1>6, <1>7, <1>8

\* What a run for a number of rows may still store.
LEMMA FetchAllowance ==
    ASSUME Backfetch!TypeOK, Backfetch!BackfetchJobAssumption, NEW j \in FetchJobs,
           target[j] > 0 => counted[j] <= target[j]
    PROVE  Backfetch!Allowance(j) = IF target[j] > 0 THEN target[j] - counted[j] ELSE SafetyCap
PROOF
  <1>1. target[j] \in Nat /\ counted[j] \in Nat
    BY FetchTypes
  <1>2. Backfetch!Min({target[j],
          counted[j]}) = IF target[j] <= counted[j] THEN target[j] ELSE counted[j]
    BY <1>1, FetchMin
  <1> QED
    BY <1>1, <1>2 DEF Backfetch!Allowance

\* A page ends within PageSize of its cursor and within the history.
LEMMA FetchPageEnd ==
    ASSUME Backfetch!TypeOK, Backfetch!BackfetchJobAssumption, NEW j \in FetchJobs
    PROVE  /\ cursor[j] \in Nat /\ PageSize \in Nat /\ Len(Stamp) \in Nat
           /\ Backfetch!PageEnd(j) \in Nat
           /\ Backfetch!PageEnd(j) <= cursor[j] + PageSize /\ Backfetch!PageEnd(j) <= Len(Stamp)
PROOF
  <1>1. cursor[j] \in Nat /\ PageSize \in Nat /\ Len(Stamp) \in Nat
    BY FetchTypes
  <1>2. cursor[j] + PageSize \in Nat
    BY <1>1
  <1>3. Backfetch!Min({cursor[j] + PageSize, Len(Stamp)})
            = IF cursor[j] + PageSize <= Len(Stamp) THEN cursor[j] + PageSize ELSE Len(Stamp)
    BY <1>1, <1>2, FetchMin
  <1> QED
    BY <1>1, <1>2, <1>3 DEF Backfetch!PageEnd

\* The stamps are numbers, and no two positions share one.
LEMMA Stamps ==
    ASSUME Backfetch!BackfetchJobAssumption
    PROVE  /\ Len(Stamp) \in Nat /\ \A p \in 1..Len(Stamp) : Stamp[p] \in Nat
           /\ \A p, q \in 1..Len(Stamp) : Stamp[p] = Stamp[q] => p = q
PROOF
  <1>1. Stamp \in Seq(Nat)
    BY DEF Backfetch!BackfetchJobAssumption
  <1>2. Len(Stamp) \in Nat /\ \A p \in 1..Len(Stamp) : Stamp[p] \in Nat
    BY <1>1, LenProperties, ElementOfSeq
  <1> QED
    BY <1>2 DEF Backfetch!BackfetchJobAssumption, Backfetch!History

\* A set of numbers has a least one.
LEMMA LeastOf ==
    ASSUME NEW S \in SUBSET Nat, S # {}
    PROVE  \E x \in S : \A y \in S : ~(y < x)
PROOF
  <1>1. PICK x \in S : \A y \in S : ~(<<y, x>> \in OpToRel(<, Nat))
    BY NatLessThanWellFounded, WFMin, Zenon
  <1> QED
    BY <1>1 DEF OpToRel

\* The oldest position stored is there.
LEMMA OldestIs ==
    ASSUME Backfetch!BackfetchJobAssumption, rows \in SUBSET (1..Len(Stamp)), rows # {}
    PROVE  Backfetch!Oldest \in rows /\ \A q \in rows : ~Backfetch!Before(q, Backfetch!Oldest)
PROOF
  <1> DEFINE S == {Stamp[q] : q \in rows}
  <1>1. S \in SUBSET Nat /\ S # {}
    <2>1. \A q \in rows : Stamp[q] \in Nat
      BY Stamps
    <2> QED
      BY <2>1
  <1>2. \E x \in S : \A y \in S : ~(y < x)
    BY <1>1, LeastOf
  <1>3. \E p \in rows : \A q \in rows : ~Backfetch!Before(q, p)
    BY <1>2 DEF Backfetch!Before
  <1> QED
    BY <1>3, Zenon DEF Backfetch!Oldest

\* What a job has stored is a finite set.
LEMMA OwnFinite ==
    ASSUME Backfetch!BackfetchJobAssumption, NEW k, own[k] \in SUBSET (1..Len(Stamp))
    PROVE  IsFiniteSet(own[k]) /\ Cardinality(own[k]) \in Nat
PROOF
  <1>1. IsFiniteSet(1..Len(Stamp))
    BY Stamps, FS_Interval
  <1>2. IsFiniteSet(own[k])
    BY <1>1, FS_Subset
  <1> QED
    BY <1>2, FS_CardinalityType

\* The instance's cardinality is that of the library.
LEMMA FetchCardinality == \A S : Backfetch!Cardinality(S) = Cardinality(S)
PROOF
  BY Zenon DEF Backfetch!Cardinality, Cardinality, Backfetch!IsFiniteSet, IsFiniteSet

\* What was seen stays seen.
LEMMA SeenStays ==
    ASSUME rows \subseteq rows', NEW p, Backfetch!Seen(p)
    PROVE  Backfetch!Seen(p)'
PROOF
  BY DEF Backfetch!Seen, Backfetch!Before

\* A step that leaves a job to itself: another's run stores a row, or it is launched.
LEMMA FetchAside ==
    ASSUME NEW k \in FetchJobs, FetchRow(k), Pages(k), Aims(k),
           rows \subseteq rows', floor # 0 => floor' = floor, fetchFaults' = fetchFaults,
           fetchStatus'[k] = fetchStatus[k], target'[k] = target[k], cursor'[k] = cursor[k],
           counted'[k] = counted[k], fetchAt'[k] = fetchAt[k], boundary'[k] = boundary[k],
           stored'[k] = stored[k], fetchLeft'[k] = fetchLeft[k], flags'[k] = flags[k],
           outcome'[k] = outcome[k], own'[k] = own[k], heedless'[k] = heedless[k],
           \/ loop'[k] = loop[k] /\ (loop[k] = "none" \/ floor' = floor)
           \/ loop[k] = "none" /\ loop'[k] = "starting" /\ fetchStatus[k] \in Backfetch!Active
    PROVE  FetchRow(k)' /\ Pages(k)' /\ Aims(k)'
PROOF
  <1>1. /\ loop[k] \in Underway <=> loop'[k] \in Underway
        /\ loop[k] \in Underway => floor' = floor /\ loop'[k] = loop[k]
        /\ loop'[k] \in {"reading", "page", "paged", "ending"} => loop'[k] = loop[k]
    BY DEF Underway
  <1>2. \A p \in 1..cursor'[k] : Backfetch!Seen(p)'
    BY SeenStays DEF FetchRow
  <1>3. fetchStatus'[k] = "completed" /\ target'[k] = 0 =>
            \A p \in 1..Len(Stamp) : Backfetch!Seen(p)'
    BY SeenStays DEF FetchRow
  <1>4. Cardinality(own'[k]) <= (IF loop'[k] \in Underway THEN stored'[k] ELSE counted'[k])
                                + fetchFaults' * PageSize
    BY <1>1 DEF FetchRow
  <1>5. /\ loop'[k] # "none" => fetchStatus'[k] \in Backfetch!Active
        /\ fetchStatus'[k] = "absent" => counted'[k] = 0
        /\ target'[k] > 0 => counted'[k] <= target'[k]
        /\ own'[k] \subseteq rows' /\ counted'[k] <= Cardinality(own'[k])
        /\ \A p \in own'[k] : floor' # 0 /\ Backfetch!Before(p, floor')
    BY DEF FetchRow
  <1>6. FetchRow(k)'
    BY <1>2, <1>3, <1>4, <1>5 DEF FetchRow, Backfetch!Active, Underway, Backfetch!Before,
                                  Backfetch!Seen
  <1>7. Pages(k)'
    BY <1>1 DEF Pages, Underway
  <1>8. loop'[k] \in Underway => \A p \in 1..fetchAt'[k] : Backfetch!Seen(p)'
    BY <1>1, SeenStays DEF Aims
  <1>9. Aims(k)'
    BY <1>1, <1>8 DEF Aims, Underway, Backfetch!Before, Backfetch!Seen
  <1> QED
    BY <1>6, <1>7, <1>9

\* A step that concerns one job.
LEMMA FetchAlone ==
    ASSUME FetchInv, NEW j \in FetchJobs,
           Backfetch!TypeOK', RoomSound', FetchRow(j)', Pages(j)', Aims(j)',
           \A k \in FetchJobs \ {j} :
               /\ fetchStatus'[k] = fetchStatus[k] /\ target'[k] = target[k]
               /\ cursor'[k] = cursor[k] /\ counted'[k] = counted[k] /\ loop'[k] = loop[k]
               /\ fetchAt'[k] = fetchAt[k] /\ boundary'[k] = boundary[k]
               /\ stored'[k] = stored[k] /\ fetchLeft'[k] = fetchLeft[k]
               /\ flags'[k] = flags[k] /\ outcome'[k] = outcome[k]
               /\ own'[k] = own[k] /\ heedless'[k] = heedless[k],
           fetchFaults' = fetchFaults, rows \subseteq rows', floor # 0 => floor' = floor,
           loop[j] # "none" \/ floor' = floor
    PROVE  FetchInv'
PROOF
  <1>1. ASSUME NEW k \in FetchJobs \ {j} PROVE FetchRow(k)' /\ Pages(k)' /\ Aims(k)'
    <2>1. loop[k] = "none" \/ floor' = floor
      BY DEF FetchInv, RoomSound, FetchRow
    <2>2. FetchRow(k) /\ Pages(k) /\ Aims(k)
      BY DEF FetchInv
    <2> QED
      BY <2>1, <2>2, FetchAside
  <1> QED
    BY <1>1 DEF FetchInv

\* A step that stores nothing and makes no second job active leaves the room as it was.
LEMMA RoomAside ==
    ASSUME RoomSound, UNCHANGED <<rows, floor>>,
           \A k \in FetchJobs : fetchStatus'[k] \in Backfetch!Active =>
                                    fetchStatus[k] \in Backfetch!Active
    PROVE  RoomSound'
PROOF
  <1>1. \A q \in rows' : \A p \in 1..q : Backfetch!Seen(p)'
    BY SeenStays DEF RoomSound
  <1> QED
    BY <1>1 DEF RoomSound, Backfetch!Seen, Backfetch!Before, Backfetch!Active

\* A run: its start, its reads and its writes between pages.
LEMMA FetchRuns ==
    ASSUME Backfetch!BackfetchJobAssumption, FetchInv, NEW j \in FetchJobs,
           \/ Backfetch!Begin(j) \/ Backfetch!Read(j) \/ Backfetch!PageDone(j)
           \/ Backfetch!Check(j) \/ Backfetch!Finish(j)
    PROVE  FetchInv'
PROOF
  <1> USE DEF Backfetch!tableVars, Backfetch!processVars, Backfetch!historyVars, Backfetch!Ends
  <1>1. /\ Backfetch!TypeOK /\ RoomSound /\ FetchRow(j) /\ Pages(j) /\ Aims(j)
    BY DEF FetchInv
  <1>2. /\ fetchAt[j] \in Nat /\ cursor[j] \in Nat /\ counted[j] \in Nat /\ stored[j] \in Nat
        /\ fetchLeft[j] \in Nat /\ heedless[j] \in Nat /\ target[j] \in Nat /\ PageSize \in Nat
        /\ SafetyCap \in Nat /\ PageSize > 0 /\ Len(Stamp) \in Nat /\ fetchFaults \in Nat
        /\ fetchFaults * PageSize \in Nat /\ Cardinality(own[j]) \in Nat
    <2>1. own[j] \in SUBSET (1..Len(Stamp))
      BY <1>1 DEF Backfetch!TypeOK, Backfetch!History
    <2>2. Cardinality(own[j]) \in Nat
      BY <2>1, OwnFinite
    <2>3. heedless[j] \in Nat
      BY <1>1 DEF Backfetch!TypeOK
    <2> QED
      BY <1>1, <2>2, <2>3, FetchTypes
  <1>3. /\ FetchTyped /\ cursor[j] \in {0} \cup Backfetch!History /\ 1 \in Backfetch!History
        /\ fetchStatus[j] \in Backfetch!Active \cup {"absent", "completed", "failed", "cancelled"}
    BY <1>1, FetchTypedIs DEF FetchTyped, RoomSound
  <1>4. CASE Backfetch!Begin(j)
    <2>1. Backfetch!Allowance(j) = IF target[j] > 0 THEN target[j] - counted[j] ELSE SafetyCap
      BY <1>1, FetchAllowance DEF FetchRow
    <2>2. /\ Backfetch!Oldest \in rows /\ Backfetch!Oldest \in Backfetch!History
          /\ \A q \in rows : ~Backfetch!Before(q, Backfetch!Oldest)
      <3>1. rows \in SUBSET (1..Len(Stamp)) /\ rows # {}
        BY <1>1 DEF Backfetch!TypeOK, Backfetch!History, RoomSound
      <3> QED
        BY <3>1, OldestIs DEF Backfetch!History
    <2>3. /\ Backfetch!Allowance(j) \in Nat /\ counted[j] \in Nat
          /\ target[j] > 0 => counted[j] <= target[j]
      BY <1>1, <1>2, <2>1 DEF FetchRow
    <2> HIDE DEF Backfetch!Allowance, Backfetch!Oldest, Backfetch!History
    <2>4. UNCHANGED <<rows, floor, target, cursor, counted, fetchFaults, own>>
      BY <1>4 DEF Backfetch!Begin
    <2>5. CASE fetchStatus' = [fetchStatus EXCEPT ![j] = "failed"] /\ Backfetch!Forgotten({j})
      <3>1. FetchTyped'
        BY <1>3, <1>4, <2>5 DEF Backfetch!Begin, Backfetch!Forgotten, FetchTyped
      <3>2. loop'[j] = "none" /\ heedless'[j] = 0 /\ fetchStatus'[j] = "failed"
        BY <1>3, <2>5 DEF Backfetch!Forgotten, FetchTyped
      <3>3. loop[j] = "starting"
        BY <1>4 DEF Backfetch!Begin
      <3>4. RoomSound'
        BY <1>1, <1>3, <2>4, <2>5, RoomAside DEF FetchTyped, Backfetch!Active
      <3>5. FetchRow(j)'
        BY <1>1, <2>4, <3>2, <3>3, SeenStays DEF FetchRow, Underway, Backfetch!Before
      <3>6. Pages(j)' /\ Aims(j)'
        BY <1>2, <3>2 DEF Pages, Aims, Underway
      <3> QED
        BY <1>1, <1>3, <2>4, <2>5, <3>1, <3>4, <3>5, <3>6, FetchTypedIs, FetchAlone
           DEF Backfetch!Forgotten, FetchTyped
    <2>6. CASE /\ fetchStatus' = [fetchStatus EXCEPT ![j] = "running"]
               /\ stored' = [stored EXCEPT ![j] = counted[j]]
               /\ fetchLeft' = [fetchLeft EXCEPT ![j] = Backfetch!Allowance(j)]
               /\ fetchAt' = [fetchAt EXCEPT ![j] = cursor[j]]
               /\ boundary' = [boundary EXCEPT ![j] = Backfetch!Oldest]
               /\ IF target[j] > 0 /\ Backfetch!Allowance(j) = 0
                  THEN Backfetch!Ends(j, "completed")
                  ELSE loop' = [loop EXCEPT ![j] = "reading"] /\ UNCHANGED outcome
               /\ UNCHANGED <<flags, heedless>>
      <3>1. FetchTyped'
        BY <1>3, <1>4, <2>2, <2>3, <2>6 DEF Backfetch!Begin, FetchTyped, Backfetch!Active
      <3>2. /\ fetchStatus'[j] = "running" /\ stored'[j] = counted[j] /\ fetchAt'[j] = cursor[j]
            /\ fetchLeft'[j] = Backfetch!Allowance(j) /\ boundary'[j] = Backfetch!Oldest
            /\ heedless'[j] = heedless[j] /\ loop[j] = "starting"
            /\ \/ loop'[j] = "ending" /\ target[j] > 0
               \/ loop'[j] = "reading" /\ ~(target[j] > 0 /\ Backfetch!Allowance(j) = 0)
        BY <1>3, <1>4, <2>6 DEF FetchTyped, Backfetch!Begin
      <3>3. RoomSound'
        BY <1>1, <1>3, <1>4, <2>4, <2>6, RoomAside
           DEF FetchTyped, FetchRow, Backfetch!Active, Backfetch!Begin
      <3>4. \A p : Backfetch!Seen(p) => Backfetch!Seen(p)'
        BY <2>4, SeenStays
      <3>5. FetchRow(j)'
        BY <1>1, <2>4, <3>2, <3>4 DEF FetchRow, Underway, Backfetch!Before, Backfetch!Active
      <3>6. Pages(j)'
        BY <1>1, <1>2, <2>4, <3>2 DEF Pages, Underway, FetchRow
      <3>7. \A p \in 1..fetchAt'[j] : Backfetch!Seen(p)'
        BY <1>1, <3>2, <3>4 DEF FetchRow
      <3>8. boundary'[j] \in rows' /\ (floor' # 0 => ~Backfetch!Before(floor, boundary'[j]))
        BY <1>1, <2>2, <2>4, <3>2 DEF RoomSound
      <3>9. Aims(j)'
        BY <1>1, <1>2, <2>1, <2>3, <2>4, <3>2, <3>7, <3>8 DEF Aims, Underway, Backfetch!Before
      <3> QED
        BY <1>1, <1>3, <2>4, <2>6, <3>1, <3>3, <3>5, <3>6, <3>9, FetchTypedIs, FetchAlone
           DEF FetchTyped
    <2> QED
      BY <1>4, <2>5, <2>6 DEF Backfetch!Begin
  <1>5. CASE Backfetch!Read(j)
    <2>1. FetchTyped'
      BY <1>2, <1>3, <1>5 DEF Backfetch!Read, Backfetch!Forgotten, FetchTyped, Backfetch!Active,
                              Backfetch!History
    <2>2. RoomSound'
      BY <1>1, <1>3, <1>5, RoomAside DEF Backfetch!Read, FetchTyped, FetchRow, Backfetch!Active
    <2>3. \A p : Backfetch!Seen(p) => Backfetch!Seen(p)'
      BY <1>5, SeenStays DEF Backfetch!Read
    <2>4. FetchRow(j)'
      BY <1>1, <1>2, <1>3, <1>5, <2>3 DEF Backfetch!Read, Backfetch!Forgotten, FetchTyped,
                                          FetchRow, Pages, Aims, Underway, Backfetch!Before,
                                            Backfetch!Active
    <2>5. Pages(j)'
      BY <1>1, <1>2, <1>3, <1>5, SMTT(30) DEF Backfetch!Read, Backfetch!Forgotten, FetchTyped,
                                              FetchRow, Pages, Underway
    <2>6. Aims(j)'
      BY <1>1, <1>2, <1>3, <1>5, <2>3 DEF Backfetch!Read, Backfetch!Forgotten, FetchTyped,
                                          FetchRow, Aims, Pages, Underway, Backfetch!Before
    <2> QED
      BY <1>1, <1>3, <1>5, <2>1, <2>2, <2>4, <2>5, <2>6, FetchTypedIs, FetchAlone, SMTT(30)
         DEF Backfetch!Read, Backfetch!Forgotten, FetchTyped
  <1>6. CASE Backfetch!PageDone(j)
    <2>1. FetchTyped'
      BY <1>2, <1>3, <1>6 DEF Backfetch!PageDone, Backfetch!Forgotten, FetchTyped,
                              Backfetch!Active, Backfetch!History
    <2>2. RoomSound'
      BY <1>1, <1>3, <1>6, RoomAside DEF Backfetch!PageDone, FetchTyped, FetchRow,
                                         Backfetch!Active
    <2>3. \A p : Backfetch!Seen(p) => Backfetch!Seen(p)'
      BY <1>6, SeenStays DEF Backfetch!PageDone
    <2>4. /\ loop[j] = "page" /\ loop'[j] = "paged" /\ counted'[j] = stored[j]
          /\ \/ cursor'[j] = fetchAt[j]
             \/ fetchAt[j] = Len(Stamp) /\ cursor'[j] = 0
          /\ fetchStatus'[j] = fetchStatus[j] /\ target'[j] = target[j] /\ stored'[j] = stored[j]
          /\ fetchAt'[j] = fetchAt[j] /\ flags'[j] = flags[j] /\ heedless'[j] = heedless[j]
          /\ UNCHANGED <<rows, floor, own, fetchFaults>>
      BY <1>3, <1>6 DEF Backfetch!PageDone, FetchTyped
    <2>5. FetchRow(j)' /\ Pages(j)'
      <3>1. \A p \in 1..cursor'[j] : Backfetch!Seen(p)'
        BY <1>1, <1>2, <2>3, <2>4 DEF Aims, Underway
      <3>2. /\ target[j] > 0 => stored[j] <= target[j]
            /\ stored[j] <= Cardinality(own[j]) /\ fetchStatus[j] \in Backfetch!Active
            /\ Cardinality(own[j]) <= stored[j] + fetchFaults * PageSize
            /\ stored[j] + cursor[j] <= counted[j] + fetchAt[j]
            /\ heedless[j] <= PageSize /\ (flags[j] = {} => heedless[j] = 0)
        BY <1>1, <2>4 DEF FetchRow, Pages, Aims, Underway
      <3>3. FetchRow(j)'
        BY <1>1, <2>4, <3>1, <3>2 DEF FetchRow, Underway, Backfetch!Active, Backfetch!Before
      <3>4. Pages(j)'
        <4>1. /\ stored'[j] = counted'[j]
              /\ fetchAt'[j] = cursor'[j] \/ (fetchAt'[j] = Len(Stamp) /\ cursor'[j] = 0)
          BY <2>4
        <4>2. /\ counted'[j] <= stored'[j] /\ stored'[j] <= counted'[j] + PageSize
              /\ stored'[j] <= Cardinality(own'[j])
          BY <1>2, <2>4, <3>2, SMTT(30)
        <4>3. heedless'[j] <= PageSize /\ (flags'[j] = {} => heedless'[j] = 0)
          BY <2>4, <3>2
        <4> QED
          BY <2>4, <4>1, <4>2, <4>3 DEF Pages
      <3> QED
        BY <3>3, <3>4
    <2>6. Aims(j)'
      BY <1>1, <1>2, <1>3, <1>6, <2>3 DEF Backfetch!PageDone, Backfetch!Forgotten, FetchTyped,
                                          FetchRow, Aims, Pages, Underway, Backfetch!Before
    <2> QED
      BY <1>1, <1>3, <1>6, <2>1, <2>2, <2>5, <2>6, FetchTypedIs, FetchAlone, SMTT(30)
         DEF Backfetch!PageDone, Backfetch!Forgotten, FetchTyped
  <1>7. CASE Backfetch!Check(j)
    <2>1. FetchTyped'
      BY <1>2, <1>3, <1>7 DEF Backfetch!Check, Backfetch!Forgotten, FetchTyped, Backfetch!Active,
                              Backfetch!History
    <2>2. RoomSound'
      BY <1>1, <1>3, <1>7, RoomAside DEF Backfetch!Check, FetchTyped, FetchRow, Backfetch!Active
    <2>3. \A p : Backfetch!Seen(p) => Backfetch!Seen(p)'
      BY <1>7, SeenStays DEF Backfetch!Check
    <2>4. FetchRow(j)'
      BY <1>1, <1>2, <1>3, <1>7, <2>3 DEF Backfetch!Check, Backfetch!Forgotten, FetchTyped,
                                          FetchRow, Pages, Aims, Underway, Backfetch!Before,
                                            Backfetch!Active
    <2>5. Pages(j)'
      <3>1. /\ loop[j] = "paged" /\ loop'[j] \in {"ending", "reading"}
            /\ loop'[j] = "reading" => flags[j] = {}
            /\ counted'[j] = counted[j] /\ cursor'[j] = cursor[j] /\ stored'[j] = stored[j]
            /\ fetchAt'[j] = fetchAt[j] /\ flags'[j] = flags[j] /\ heedless'[j] = heedless[j]
            /\ own' = own
        BY <1>3, <1>7 DEF Backfetch!Check, Backfetch!Told, FetchTyped
      <3> QED
        BY <1>1, <1>2, <3>1 DEF Pages, Underway
    <2>6. Aims(j)'
      BY <1>1, <1>2, <1>3, <1>7, <2>3 DEF Backfetch!Check, Backfetch!Forgotten, FetchTyped,
                                          FetchRow, Aims, Pages, Underway, Backfetch!Before
    <2> QED
      BY <1>1, <1>3, <1>7, <2>1, <2>2, <2>4, <2>5, <2>6, FetchTypedIs, FetchAlone
         DEF Backfetch!Check, Backfetch!Forgotten, FetchTyped
  <1>8. CASE Backfetch!Finish(j)
    <2>1. FetchTyped'
      BY <1>2, <1>3, <1>8 DEF Backfetch!Finish, Backfetch!Forgotten, FetchTyped,
                              Backfetch!Active, Backfetch!History
    <2>2. RoomSound'
      BY <1>1, <1>3, <1>8, RoomAside DEF Backfetch!Finish, FetchTyped, FetchRow, Backfetch!Active
    <2>3. \A p : Backfetch!Seen(p) => Backfetch!Seen(p)'
      BY <1>8, SeenStays DEF Backfetch!Finish
    <2>4. FetchRow(j)'
      BY <1>1, <1>2, <1>3, <1>8, <2>3 DEF Backfetch!Finish, Backfetch!Forgotten, FetchTyped,
                                          FetchRow, Pages, Aims, Underway, Backfetch!Before,
                                            Backfetch!Active
    <2>5. Pages(j)'
      BY <1>1, <1>2, <1>3, <1>8 DEF Backfetch!Finish, Backfetch!Forgotten, FetchTyped, FetchRow,
                                    Pages, Underway
    <2>6. Aims(j)'
      BY <1>1, <1>2, <1>3, <1>8, <2>3 DEF Backfetch!Finish, Backfetch!Forgotten, FetchTyped,
                                          FetchRow, Aims, Pages, Underway, Backfetch!Before
    <2> QED
      BY <1>1, <1>3, <1>8, <2>1, <2>2, <2>4, <2>5, <2>6, FetchTypedIs, FetchAlone
         DEF Backfetch!Finish, Backfetch!Forgotten, FetchTyped
  <1> QED
    BY <1>4, <1>5, <1>6, <1>7, <1>8

\* A run looks at a message: it stores one that sorts below its boundary and is not there,
\* and has seen the message in either case.
LEMMA FetchLooks ==
    ASSUME Backfetch!BackfetchJobAssumption, FetchInv, NEW j \in FetchJobs, Backfetch!LookAt(j)
    PROVE  FetchInv'
PROOF
  <1>1. /\ FetchTyped /\ RoomSound /\ FetchRow(j) /\ Pages(j) /\ Aims(j)
    BY FetchTypedIs DEF FetchInv
  <1>2. /\ cursor[j] \in Nat /\ counted[j] \in Nat /\ fetchAt[j] \in Nat /\ stored[j] \in Nat
        /\ fetchLeft[j] \in Nat /\ heedless[j] \in Nat /\ target[j] \in Nat
        /\ PageSize \in Nat /\ Len(Stamp) \in Nat
    <2>1. Backfetch!TypeOK
      BY <1>1, FetchTypedIs
    <2>2. heedless[j] \in Nat
      BY <1>1 DEF FetchTyped
    <2> QED
      BY <2>1, <2>2, FetchTypes
  <1>3. /\ boundary[j] \in 1..Len(Stamp) /\ floor \in 0..Len(Stamp)
               /\ rows \subseteq 1..Len(Stamp)
        /\ own[j] \in SUBSET (1..Len(Stamp)) /\ own[j] \subseteq rows
    <2>1. boundary[j] \in 1..Len(Stamp) /\ own[j] \in SUBSET (1..Len(Stamp))
      BY <1>1 DEF FetchTyped, Backfetch!History
    <2>2. Backfetch!TypeOK /\ own[j] \subseteq rows
      BY <1>1, FetchTypedIs DEF FetchRow
    <2> QED
      BY <2>1, <2>2, FetchTypes
  <1>4. PICK slack \in Nat : slack = fetchFaults * PageSize
    BY <1>1, FetchTypedIs, FetchTypes
  <1>5. PICK p \in Nat : p = fetchAt[j] + 1
    BY <1>2
  <1> DEFINE new == Backfetch!Before(p, boundary[j]) /\ p \notin rows
  <1>6. p \in 1..Len(Stamp) /\ p <= cursor[j] + PageSize /\ loop[j] = "page"
    <2>1. PICK e \in Nat : e = Backfetch!PageEnd(j) /\ e <= cursor[j] + PageSize
              /\ e <= Len(Stamp)
      BY <1>1, FetchPageEnd, FetchTypedIs
    <2>2. fetchAt[j] < e /\ loop[j] = "page"
      BY <2>1 DEF Backfetch!LookAt
    <2> QED
      BY <1>2, <1>5, <2>1, <2>2, SMTT(30)
  <1>7. /\ boundary[j] \in rows /\ floor' \in rows /\ floor' # 0
        /\ ~Backfetch!Before(floor', boundary[j]) /\ (floor # 0 => floor' = floor)
    <2>1. floor' = IF floor = 0 THEN boundary[j] ELSE floor
      BY DEF Backfetch!LookAt, Backfetch!Pinned
    <2>2. boundary[j] \in rows /\ (floor # 0 => ~Backfetch!Before(floor, boundary[j]))
      BY <1>1, <1>6 DEF Aims, Underway
    <2>3. floor # 0 => floor \in rows
      BY <1>1 DEF RoomSound
    <2>4. Stamp[boundary[j]] \in Nat
      BY <1>2, <1>3, Stamps
    <2> QED
      BY <1>2, <1>3, <2>1, <2>2, <2>3, <2>4 DEF Backfetch!Before
  <1>8. IF new
        THEN /\ rows' = rows \cup {p} /\ stored'[j] = stored[j] + 1
             /\ fetchLeft'[j] = (IF fetchLeft[j] = 0 THEN 0 ELSE fetchLeft[j] - 1)
             /\ own' = [own EXCEPT ![j] = @ \cup {p}]
             /\ own'[j] = own[j] \cup {p}
        ELSE rows' = rows /\ stored' = stored /\ fetchLeft' = fetchLeft /\ own' = own
    BY <1>1, <1>5 DEF Backfetch!LookAt, FetchTyped
  <1>9. /\ fetchAt'[j] = p /\ boundary'[j] = boundary[j] /\ flags'[j] = flags[j]
        /\ heedless'[j] = (IF flags[j] = {} THEN heedless[j] ELSE heedless[j] + 1)
        /\ UNCHANGED <<fetchStatus, target, cursor, counted, flags, boundary, fetchFaults>>
    BY <1>1, <1>5 DEF Backfetch!LookAt, FetchTyped, Backfetch!processVars
  <1>10. IF new /\ fetchLeft[j] = 1
        THEN loop'[j] = "ending"
            /\ outcome'[j] = (IF target[j] > 0 THEN "completed" ELSE "paused")
        ELSE loop'[j] = "page" /\ outcome' = outcome
    BY <1>1, <1>5, <1>6 DEF Backfetch!LookAt, FetchTyped, Backfetch!Ends
  <1>11. \A q : Backfetch!Seen(q) => Backfetch!Seen(q)'
    BY <1>8, SeenStays
  <1>12. Backfetch!Seen(p)'
    <2>1. CASE p \in rows'
      BY <2>1 DEF Backfetch!Seen
    <2>2. CASE p \notin rows'
      <3>1. ~Backfetch!Before(p, boundary[j]) /\ p \notin rows
        BY <1>8, <2>2
      <3>2. Stamp[p] \in Nat /\ Stamp[boundary[j]] \in Nat /\ boundary[j] # p
            /\ (Stamp[p] = Stamp[boundary[j]] => p = boundary[j])
        BY <1>2, <1>3, <1>6, <1>7, <3>1, Stamps
      <3>3. Backfetch!Before(boundary[j], p)
        BY <3>1, <3>2 DEF Backfetch!Before
      <3>4. CASE boundary[j] < p
        <4>1. Backfetch!Seen(p)
          BY <1>7, <3>3, <3>4 DEF Backfetch!Seen
        <4> QED
          BY <1>11, <4>1
      <3>5. CASE p < boundary[j]
        <4>1. p \in 1..boundary[j]
          BY <1>2, <1>3, <1>6, <3>5
        <4>2. Backfetch!Seen(p)
          BY <1>1, <1>7, <4>1 DEF RoomSound
        <4> QED
          BY <1>11, <4>2
      <3> QED
        BY <1>2, <1>3, <1>6, <3>2, <3>4, <3>5
    <2> QED
      BY <2>1, <2>2
  <1>13. \A q \in 1..p : Backfetch!Seen(q)'
    <2>1. \A q \in 1..fetchAt[j] : Backfetch!Seen(q)
      BY <1>1, <1>6 DEF Aims, Underway
    <2>2. ASSUME NEW q \in 1..p PROVE q = p \/ q \in 1..fetchAt[j]
      BY <1>2, <1>5
    <2> QED
      BY <1>11, <1>12, <2>1, <2>2
  <1>14. /\ own'[j] \subseteq rows' /\ stored'[j] <= Cardinality(own'[j])
         /\ Cardinality(own'[j]) <= stored'[j] + slack
         /\ stored'[j] \in Nat /\ stored[j] <= stored'[j] /\ stored'[j] <= stored[j] + 1
         /\ counted[j] <= Cardinality(own'[j])
    <2>1. PICK n \in Nat : n = Cardinality(own[j])
      BY <1>3, OwnFinite
    <2>2. stored[j] <= n /\ n <= stored[j] + slack /\ counted[j] <= n
      BY <1>1, <1>4, <1>6, <2>1 DEF FetchRow, Pages, Underway
    <2>3. CASE new
      <3>1. Cardinality(own'[j]) = n + 1
        BY <1>3, <1>8, <2>1, <2>3, OwnFinite, FS_AddElement
      <3>2. own'[j] \subseteq rows' /\ stored'[j] = stored[j] + 1
        BY <1>3, <1>8, <2>3
      <3> QED
        BY <1>2, <2>2, <3>1, <3>2, SMTT(30)
    <2>4. CASE ~new
      <3>1. own'[j] \subseteq rows' /\ stored'[j] = stored[j] /\ own'[j] = own[j]
        BY <1>3, <1>8, <2>4
      <3> QED
        BY <1>2, <2>1, <2>2, <3>1
    <2> QED
      BY <2>3, <2>4
  <1>15. \A q \in own'[j] : Backfetch!Before(q, floor')
    <2>1. \A q \in own[j] : Backfetch!Before(q, floor')
      BY <1>1, <1>7 DEF FetchRow
    <2>2. CASE new
      <3>1. Stamp[p] \in Nat /\ Stamp[boundary[j]] \in Nat /\ Stamp[floor'] \in Nat
        BY <1>2, <1>3, <1>6, <1>7, Stamps
      <3>2. Backfetch!Before(p, floor')
        BY <1>7, <2>2, <3>1 DEF Backfetch!Before
      <3> QED
        BY <1>8, <2>1, <2>2, <3>2
    <2>3. CASE ~new
      BY <1>8, <2>1, <2>3
    <2> QED
      BY <2>2, <2>3
  <1>16. stored' \in [FetchJobs -> Nat] /\ fetchLeft' \in [FetchJobs -> Nat]
            /\ rows' \subseteq Backfetch!History
                   /\ own' \in [FetchJobs -> SUBSET Backfetch!History]
    <2>1. CASE new
      <3>1. /\ stored' = [stored EXCEPT ![j] = stored[j] + 1]
            /\ fetchLeft' = [fetchLeft EXCEPT ![j] = IF fetchLeft[j] = 0 THEN 0 ELSE fetchLeft[j] - 1]
            /\ own' = [own EXCEPT ![j] = own[j] \cup {p}] /\ rows' = rows \cup {p}
        BY <1>5, <2>1 DEF Backfetch!LookAt
      <3>2. (IF fetchLeft[j] = 0 THEN 0 ELSE fetchLeft[j] - 1) \in Nat /\ stored[j] + 1 \in Nat
        BY <1>2
      <3>3. p \in Backfetch!History
        BY <1>6 DEF Backfetch!History
      <3> QED
        BY <1>1, <3>1, <3>2, <3>3 DEF FetchTyped
    <2>2. CASE ~new
      BY <1>1, <1>8, <2>2 DEF FetchTyped
    <2> QED
      BY <2>1, <2>2
  <1> HIDE DEF new
  <1>17. FetchTyped'
    <2>1. /\ floor' \in {0} \cup Backfetch!History /\ p \in {0} \cup Backfetch!History
          /\ heedless[j] + 1 \in Nat
      BY <1>2, <1>3, <1>6, <1>7, <1>16, SMTT(30) DEF Backfetch!History
    <2>2. fetchAt' = [fetchAt EXCEPT ![j] = p]
      BY <1>5 DEF Backfetch!LookAt
    <2>3. heedless' \in [FetchJobs -> Nat]
              /\ fetchAt' \in [FetchJobs -> {0} \cup Backfetch!History]
      BY <1>1, <2>1, <2>2 DEF Backfetch!LookAt, FetchTyped
    <2>4. /\ loop' \in [FetchJobs -> {"none", "starting", "reading", "page", "paged", "ending"}]
          /\ outcome' \in [FetchJobs -> {"completed", "failed", "paused", "cancelled"}]
      BY <1>1 DEF Backfetch!LookAt, FetchTyped, Backfetch!Ends
    <2>5. UNCHANGED <<fetchStatus, target, cursor, counted, boundary, flags, fetchUp,
                      fetchDraining,
                      resumed, fetchFaults, drains, orders, forsaken>>
      BY DEF Backfetch!LookAt, Backfetch!processVars
    <2> QED
      BY <1>1, <1>16, <2>1, <2>3, <2>4, <2>5 DEF FetchTyped
  <1>18. RoomSound'
    <2>1. ASSUME NEW q \in rows', NEW r \in 1..q PROVE Backfetch!Seen(r)'
      <3>1. CASE q \in rows
        <4>1. Backfetch!Seen(r)
          BY <1>1, <3>1 DEF RoomSound
        <4> QED
          BY <1>11, <4>1
      <3>2. CASE q = p
        BY <1>13, <3>2
      <3> QED
        BY <1>8, <3>1, <3>2
    <2>2. 1 \in rows' /\ floor' \in rows'
      BY <1>1, <1>7, <1>8 DEF RoomSound
    <2> QED
      BY <1>1, <1>9, <2>1, <2>2 DEF RoomSound, Backfetch!Active
  <1>19. FetchRow(j)'
    <2>1. \A q \in 1..cursor'[j] : Backfetch!Seen(q)'
      BY <1>1, <1>9, <1>11 DEF FetchRow
    <2>2. fetchStatus'[j] = "completed" /\ target'[j] = 0 =>
              \A q \in 1..Len(Stamp) : Backfetch!Seen(q)'
      BY <1>1, <1>9, <1>11 DEF FetchRow
    <2>3. fetchStatus[j] \in Backfetch!Active /\ fetchFaults' * PageSize = slack
      BY <1>1, <1>4, <1>6, <1>9 DEF FetchRow
    <2>4. target[j] > 0 => counted[j] <= target[j]
      BY <1>1 DEF FetchRow
    <2> QED
      BY <1>7, <1>9, <1>10, <1>14, <1>15, <2>1, <2>2, <2>3, <2>4
         DEF FetchRow, Underway, Backfetch!Active, Backfetch!Before, Backfetch!Seen
  <1>20. Pages(j)'
    <2>1. /\ cursor[j] <= fetchAt[j] /\ stored[j] + cursor[j] <= counted[j] + fetchAt[j]
          /\ heedless[j] + cursor[j] <= fetchAt[j] /\ counted[j] <= stored[j]
          /\ flags[j] = {} => heedless[j] = 0
      BY <1>1, <1>6 DEF Pages, Underway
    <2>2. /\ cursor[j] <= p /\ stored'[j] + cursor[j] <= counted[j] + p
          /\ heedless'[j] + cursor[j] <= p /\ counted[j] <= stored'[j]
          /\ stored'[j] <= counted[j] + PageSize /\ heedless'[j] <= PageSize
      <3>1. /\ stored'[j] \in Nat /\ stored[j] <= stored'[j] /\ stored'[j] <= stored[j] + 1
            /\ heedless'[j] \in Nat /\ heedless'[j] <= heedless[j] + 1
        <4>1. heedless'[j] \in Nat /\ heedless'[j] <= heedless[j] + 1
          <5>1. CASE flags[j] = {}
            BY <1>2, <1>9, <5>1
          <5>2. CASE flags[j] # {}
            BY <1>2, <1>9, <5>2
          <5> QED
            BY <5>1, <5>2
        <4> QED
          BY <1>14, <4>1
      <3>2. p = fetchAt[j] + 1 /\ fetchAt[j] + 1 <= cursor[j] + PageSize
        BY <1>5, <1>6
      <3>3. PICK a \in Nat, c \in Nat, n \in Nat, s \in Nat, h \in Nat, z \in Nat, t \in Nat,
              g \in Nat :
                /\ a = fetchAt[j] /\ c = cursor[j] /\ n = counted[j] /\ s = stored[j]
                /\ h = heedless[j] /\ z = PageSize /\ t = stored'[j] /\ g = heedless'[j]
        BY <1>2, <3>1
      <3>4. /\ c <= a /\ s + c <= n + a /\ h + c <= a /\ n <= s /\ a + 1 <= c + z
            /\ s <= t /\ t <= s + 1 /\ g <= h + 1
        BY <2>1, <3>1, <3>2, <3>3
      <3>5. /\ c <= a + 1 /\ t + c <= n + a + 1 /\ g + c <= a + 1 /\ n <= t
            /\ t <= n + z /\ g <= z
        BY <3>3, <3>4
      <3>6. n + a + 1 = n + (a + 1)
        BY <3>3
      <3> QED
        BY <3>2, <3>3, <3>5, <3>6
    <2> QED
      BY <1>6, <1>9, <1>10, <1>14, <2>1, <2>2 DEF Pages, Underway
  <1>21. Aims(j)'
    <2>1. target[j] > 0 => fetchLeft[j] > 0 /\ stored[j] + fetchLeft[j] = target[j]
      BY <1>1, <1>6 DEF Aims, Underway
    <2>2. /\ target[j] > 0 /\ loop'[j] # "ending" =>
              fetchLeft'[j] > 0 /\ stored'[j] + fetchLeft'[j] = target[j]
          /\ target[j] > 0 => stored'[j] <= target[j]
      <3>1. CASE new
        <4>1. /\ stored'[j] = stored[j] + 1
              /\ fetchLeft[j] > 0 => fetchLeft'[j] = fetchLeft[j] - 1
              /\ loop'[j] # "ending" => fetchLeft[j] # 1
          BY <1>2, <1>8, <1>10, <3>1
        <4>2. CASE target[j] > 0
          <5>1. /\ fetchLeft[j] > 0 /\ stored[j] + fetchLeft[j] = target[j]
                /\ fetchLeft'[j] = fetchLeft[j] - 1
            BY <2>1, <4>1, <4>2
          <5>2. stored'[j] + fetchLeft'[j] = target[j] /\ stored'[j] <= target[j]
            BY <1>2, <4>1, <5>1, SMTT(30)
          <5>3. loop'[j] # "ending" => fetchLeft'[j] > 0
            BY <1>2, <4>1, <5>1
          <5> QED
            BY <5>2, <5>3
        <4> QED
          BY <4>2
      <3>2. CASE ~new
        BY <1>2, <1>8, <1>10, <2>1, <3>2
      <3> QED
        BY <3>1, <3>2
    <2> QED
      BY <1>7, <1>8, <1>9, <1>10, <1>13, <2>2 DEF Aims, Underway, Backfetch!Before
  <1> QED
    <2>1. rows \subseteq rows' /\ fetchFaults' = fetchFaults
      BY <1>8, <1>9
    <2>2. ASSUME NEW k \in FetchJobs \ {j}
          PROVE  /\ loop'[k] = loop[k] /\ fetchAt'[k] = fetchAt[k] /\ outcome'[k] = outcome[k]
                 /\ stored'[k] = stored[k] /\ fetchLeft'[k] = fetchLeft[k]
                 /\ own'[k] = own[k] /\ heedless'[k] = heedless[k]
      BY <1>1 DEF Backfetch!LookAt, FetchTyped, Backfetch!Ends
    <2> QED
      BY <1>6, <1>7, <1>9, <1>17, <1>18, <1>19, <1>20, <1>21, <2>1, <2>2, FetchTypedIs, FetchAlone

\* A page more may be stored that is not counted.
LEMMA FetchUncounted ==
    ASSUME Backfetch!BackfetchJobAssumption, FetchInv, NEW k \in FetchJobs
    PROVE  /\ Cardinality(own[k]) <= counted[k] + (fetchFaults + 1) * PageSize
           /\ Cardinality(own[k]) <= (IF loop[k] \in Underway THEN stored[k] ELSE counted[k])
                                     + (fetchFaults + 1) * PageSize
PROOF
  <1>1. FetchTyped /\ FetchRow(k) /\ Pages(k)
    BY FetchTypedIs DEF FetchInv
  <1>2. PICK n \in Nat, c \in Nat, s \in Nat, z \in Nat, x \in Nat :
            n = Cardinality(own[k]) /\ c = counted[k] /\ s = stored[k]
            /\ z = PageSize /\ x = fetchFaults
    <2>1. own[k] \in SUBSET (1..Len(Stamp))
      BY <1>1 DEF FetchTyped, Backfetch!History
    <2> QED
      BY <1>1, <2>1, OwnFinite, FetchTypedIs, FetchTypes
  <1>3. /\ n <= (IF loop[k] \in Underway THEN s ELSE c) + x * z
        /\ loop[k] \in Underway => s <= c + z
    BY <1>1, <1>2 DEF FetchRow, Pages
  <1>4. x * z \in Nat /\ (x + 1) * z = x * z + z
    BY <1>2
  <1> QED
    BY <1>2, <1>3, <1>4

\* A write of a run rejects: no other job has one, and none has stored anything as long as
\* the floor is not set.
LEMMA FetchRejects ==
    ASSUME Backfetch!BackfetchJobAssumption, FetchInv, NEW j \in FetchJobs,
           Backfetch!WriteRejects(j)
    PROVE  FetchInv'
PROOF
  <1>1. /\ FetchTyped /\ RoomSound
        /\ \A k \in FetchJobs : FetchRow(k) /\ Pages(k) /\ Aims(k)
    BY FetchTypedIs DEF FetchInv
  <1>2. /\ UNCHANGED <<rows, fetchStatus, target, cursor, counted, own, fetchUp, fetchDraining,
                       resumed, drains, orders>>
        /\ fetchFaults' = fetchFaults + 1 /\ loop[j] # "none"
    BY DEF Backfetch!WriteRejects
  <1>3. MaxFaults \in Nat /\ 1 \in Backfetch!History /\ fetchFaults' \in 0..MaxFaults
    <2>1. MaxFaults \in Nat /\ 1 \in Backfetch!History
      BY <1>1 DEF Backfetch!BackfetchJobAssumption, FetchTyped, RoomSound
    <2>2. fetchFaults \in 0..MaxFaults /\ fetchFaults < MaxFaults
      BY <1>1 DEF FetchTyped, Backfetch!WriteRejects
    <2> QED
      BY <1>2, <2>1, <2>2
  <1>4. /\ \/ floor' = floor
           \/ loop[j] = "page" /\ floor = 0 /\ floor' = boundary[j]
        /\ floor # 0 => floor' = floor
    BY DEF Backfetch!WriteRejects, Backfetch!Pinned
  <1>5. floor' \in {0} \cup Backfetch!History /\ (floor' # 0 => floor' \in rows)
    BY <1>1, <1>4 DEF FetchTyped, RoomSound, Aims, Underway
  <1>6. RoomSound'
    <2>1. \A q \in rows' : \A p \in 1..q : Backfetch!Seen(p)'
      BY <1>1, <1>2, SeenStays DEF RoomSound
    <2> QED
      BY <1>1, <1>2, <1>5, <2>1 DEF RoomSound, Backfetch!Active
  <1>7. \A k \in FetchJobs \ {j} : loop[k] = "none"
    BY <1>1, <1>2 DEF RoomSound, FetchRow
  <1>8. ASSUME NEW k \in FetchJobs
        PROVE  /\ \A p \in 1..cursor'[k] : Backfetch!Seen(p)'
               /\ fetchStatus'[k] = "completed" /\ target'[k] = 0 =>
                    \A p \in 1..Len(Stamp) : Backfetch!Seen(p)'
               /\ \A p \in own'[k] : floor' # 0 /\ Backfetch!Before(p, floor')
               /\ Cardinality(own'[k]) <= counted'[k] + fetchFaults' * PageSize
               /\ Cardinality(own'[k])
                    <= (IF loop[k] \in Underway THEN stored[k] ELSE counted[k])
                       + fetchFaults' * PageSize
    <2>1. \A p \in 1..cursor'[k] : Backfetch!Seen(p)'
      BY <1>1, <1>2, SeenStays DEF FetchRow
    <2>2. fetchStatus'[k] = "completed" /\ target'[k] = 0 =>
              \A p \in 1..Len(Stamp) : Backfetch!Seen(p)'
      BY <1>1, <1>2, SeenStays DEF FetchRow
    <2>3. \A p \in own'[k] : floor' # 0 /\ Backfetch!Before(p, floor')
      BY <1>1, <1>2, <1>4 DEF FetchRow
    <2> QED
      BY <1>2, <2>1, <2>2, <2>3, FetchUncounted
  <1>9. CASE /\ loop[j] \in {"starting", "ending"} /\ Backfetch!Forgotten({j})
             /\ forsaken' = forsaken \cup {j} /\ floor' = floor
    <2>1. FetchTyped'
      BY <1>1, <1>2, <1>3, <1>9 DEF Backfetch!Forgotten, FetchTyped, Backfetch!Active
    <2>2. /\ loop'[j] = "none" /\ heedless'[j] = 0
          /\ \A k \in FetchJobs \ {j} : loop'[k] = loop[k] /\ heedless'[k] = heedless[k]
                                       /\ flags'[k] = flags[k]
      BY <1>9 DEF Backfetch!Forgotten
    <2>3. ASSUME NEW k \in FetchJobs PROVE FetchRow(k)' /\ Pages(k)' /\ Aims(k)'
      <3>1. loop'[k] = "none"
        BY <1>7, <2>2
      <3>2. FetchRow(k)'
        BY <1>1, <1>2, <1>8, <3>1 DEF FetchRow, Underway, Backfetch!Before, Backfetch!Seen
      <3>3. heedless'[k] = 0 /\ PageSize \in Nat
        BY <1>1, <1>7, <2>2, FetchTypedIs, FetchTypes DEF Pages
      <3> QED
        BY <3>1, <3>2, <3>3 DEF Pages, Aims, Underway
    <2> QED
      BY <1>6, <2>1, <2>3, FetchTypedIs DEF FetchInv
  <1>10. CASE /\ loop[j] = "page" /\ Backfetch!Ends(j, "failed")
              /\ UNCHANGED <<fetchAt, boundary, stored, fetchLeft, flags, heedless, forsaken>>
    <2>1. FetchTyped'
      BY <1>1, <1>2, <1>3, <1>5, <1>10 DEF Backfetch!Ends, FetchTyped, Backfetch!Active
    <2>2. /\ loop'[j] = "ending" /\ outcome'[j] = "failed"
          /\ \A k \in FetchJobs \ {j} : loop'[k] = "none"
      BY <1>1, <1>7, <1>10 DEF Backfetch!Ends, FetchTyped
    <2>3. ASSUME NEW k \in FetchJobs PROVE FetchRow(k)'
      <3>1. /\ loop'[k] # "none" => loop[k] # "none"
            /\ loop'[k] \in Underway <=> loop[k] \in Underway
        BY <1>7, <1>10, <2>2 DEF Underway
      <3> QED
        BY <1>1, <1>2, <1>8, <1>10, <3>1 DEF FetchRow, Backfetch!Before, Backfetch!Seen,
                                             Backfetch!Active
    <2>4. Pages(j)'
      BY <1>1, <1>2, <1>10, <2>2 DEF Pages, Underway
    <2>5. Aims(j)'
      <3>1. \A p \in 1..fetchAt'[j] : Backfetch!Seen(p)'
        BY <1>1, <1>2, <1>10, SeenStays DEF Aims, Underway
      <3>2. boundary'[j] \in rows' /\ (floor' # 0 => ~Backfetch!Before(floor', boundary'[j]))
        <4>1. boundary[j] \in rows /\ (floor # 0 => ~Backfetch!Before(floor, boundary[j]))
          BY <1>1, <1>10 DEF Aims, Underway
        <4>2. Stamp[boundary[j]] \in Nat
          BY <1>1, Stamps DEF FetchTyped, Backfetch!History
        <4> QED
          BY <1>2, <1>4, <1>10, <4>1, <4>2 DEF Backfetch!Before
      <3> QED
        BY <1>1, <1>2, <1>10, <2>2, <3>1, <3>2 DEF Aims, Underway, Backfetch!Before
    <2>6. ASSUME NEW k \in FetchJobs \ {j} PROVE Pages(k)' /\ Aims(k)'
      BY <1>1, <1>7, <1>10, <2>2 DEF Pages, Aims, Underway
    <2> QED
      BY <1>6, <2>1, <2>3, <2>4, <2>5, <2>6, FetchTypedIs DEF FetchInv
  <1> QED
    BY <1>9, <1>10 DEF Backfetch!WriteRejects

\* The operator's orders; a job is started only in a room that has none.
LEMMA FetchOrders ==
    ASSUME Backfetch!BackfetchJobAssumption, FetchInv, NEW j \in FetchJobs,
           \/ Backfetch!Start(j) \/ Backfetch!Pause(j) \/ Backfetch!Cancel(j)
                  \/ Backfetch!Resume(j)
    PROVE  FetchInv'
PROOF
  <1> USE DEF Backfetch!tableVars, Backfetch!processVars, Backfetch!historyVars
  <1>1. FetchTyped /\ RoomSound /\ FetchRow(j) /\ Pages(j) /\ Aims(j)
    BY FetchTypedIs DEF FetchInv
  <1>2. CASE Backfetch!Start(j)
    <2>1. /\ UNCHANGED <<rows, floor, cursor, counted, fetchAt, boundary, stored, fetchLeft,
               flags,
                         outcome, own, heedless, fetchUp, fetchDraining, resumed, fetchFaults,
                         drains, orders>>
          /\ forsaken' = forsaken \ {j}
          /\ fetchStatus[j] = "absent"
                 /\ \A k \in FetchJobs : fetchStatus[k] \notin Backfetch!Active
          /\ fetchStatus' = [fetchStatus EXCEPT ![j] = "queued"]
          /\ loop' = [k \in FetchJobs |-> IF k \in {j} THEN "starting" ELSE loop[k]]
      BY <1>2 DEF Backfetch!Start, Backfetch!Launch, Backfetch!Occupied
    <2>2. PICK t \in Targets : target' = [target EXCEPT ![j] = t]
      BY <1>2 DEF Backfetch!Start
    <2>3. FetchTyped'
      BY <1>1, <2>1, <2>2 DEF FetchTyped, Backfetch!Active
    <2>4. /\ fetchStatus'[j] = "queued" /\ loop'[j] = "starting" /\ loop[j] = "none"
          /\ counted[j] = 0 /\ target'[j] = t /\ t \in Nat
      <3>1. target'[j] = t /\ t \in Nat
        BY <1>1, <2>2 DEF FetchTyped, Backfetch!BackfetchJobAssumption
      <3> QED
        BY <1>1, <2>1, <3>1 DEF FetchTyped, FetchRow
    <2>5. RoomSound'
      <3>1. \A q \in rows' : \A p \in 1..q : Backfetch!Seen(p)'
        BY <1>1, <2>1, SeenStays DEF RoomSound
      <3>2. \A k \in FetchJobs : fetchStatus'[k] \in Backfetch!Active => k = j
        BY <1>1, <2>1 DEF FetchTyped
      <3> QED
        BY <1>1, <2>1, <3>1, <3>2 DEF RoomSound, Backfetch!Active
    <2>6. FetchRow(j)'
      <3>1. \A p \in 1..cursor'[j] : Backfetch!Seen(p)'
        BY <1>1, <2>1, SeenStays DEF FetchRow
      <3>2. Cardinality(own'[j]) <= counted'[j] + fetchFaults' * PageSize
        BY <1>1, <2>1, <2>4 DEF FetchRow, Underway
      <3> QED
        BY <1>1, <2>1, <2>4, <3>1, <3>2 DEF FetchRow, Underway, Backfetch!Active, Backfetch!Before
    <2>7. Pages(j)' /\ Aims(j)'
      BY <1>1, <2>1, <2>4 DEF Pages, Aims, Underway
    <2> QED
      BY <1>1, <2>1, <2>2, <2>3, <2>5, <2>6, <2>7, FetchTypedIs, FetchAlone DEF FetchTyped
  <1>3. ASSUME NEW s \in {"paused", "cancelled"}, NEW writable \in SUBSET Backfetch!Active,
               Backfetch!Order(j, s, writable)
        PROVE  FetchInv'
    <2>1. /\ UNCHANGED <<rows, floor, target, cursor, counted, loop, fetchAt, boundary, stored,
                         fetchLeft, outcome, own, heedless, fetchUp, fetchDraining, resumed,
                         fetchFaults, drains, forsaken>>
          /\ orders < MaxOrders /\ orders' = orders + 1
      BY <1>3 DEF Backfetch!Order, Backfetch!Ordered
    <2>2. MaxOrders \in Nat
      BY DEF Backfetch!BackfetchJobAssumption
    <2>3. CASE loop[j] # "none" /\ flags' = [flags EXCEPT ![j] = @ \cup {s}]
                   /\ UNCHANGED fetchStatus
      <3>1. FetchTyped'
        BY <1>1, <2>1, <2>2, <2>3 DEF FetchTyped, Backfetch!Active
      <3>2. RoomSound'
        BY <1>1, <2>1, <2>3, RoomAside
      <3>3. FetchRow(j)'
        BY <1>1, <2>1, <2>3, SeenStays
           DEF FetchRow, Underway, Backfetch!Before, Backfetch!Seen, Backfetch!Active
      <3>4. flags'[j] # {}
        BY <1>1, <2>3 DEF FetchTyped
      <3>5. Pages(j)'
        BY <1>1, <2>1, <2>3, <3>4 DEF Pages, Underway
      <3>6. Aims(j)'
        BY <1>1, <2>1, <2>3 DEF Aims, Underway, Backfetch!Before, Backfetch!Seen
      <3> QED
        BY <1>1, <2>1, <2>3, <3>1, <3>2, <3>3, <3>5, <3>6, FetchTypedIs, FetchAlone DEF FetchTyped
    <2>4. CASE /\ loop[j] = "none" /\ fetchStatus[j] \in writable
               /\ fetchStatus' = [fetchStatus EXCEPT ![j] = s] /\ UNCHANGED flags
      <3>1. FetchTyped'
        BY <1>1, <2>1, <2>2, <2>4 DEF FetchTyped, Backfetch!Active
      <3>2. RoomSound'
        BY <1>1, <2>1, <2>4, RoomAside DEF FetchTyped, Backfetch!Active
      <3>3. FetchRow(j)'
        BY <1>1, <2>1, <2>4 DEF FetchTyped, FetchRow, Underway, Backfetch!Before, Backfetch!Seen
      <3>4. Pages(j)' /\ Aims(j)'
        BY <1>1, <2>1, <2>4 DEF Pages, Aims, Underway
      <3> QED
        BY <1>1, <2>1, <2>4, <3>1, <3>2, <3>3, <3>4, FetchTypedIs, FetchAlone DEF FetchTyped
    <2> QED
      BY <1>3, <2>3, <2>4 DEF Backfetch!Order
  <1>4. CASE Backfetch!Pause(j)
    <2>1. Backfetch!Order(j, "paused", {"queued", "running"})
      BY <1>4 DEF Backfetch!Pause
    <2> QED
      BY <1>3, <2>1 DEF Backfetch!Active
  <1>5. CASE Backfetch!Cancel(j)
    <2>1. Backfetch!Order(j, "cancelled", Backfetch!Active)
      BY <1>5 DEF Backfetch!Cancel
    <2> QED
      BY <1>3, <2>1
  <1>6. CASE Backfetch!Resume(j)
    <2>1. /\ UNCHANGED <<rows, floor, fetchStatus, target, cursor, counted, fetchAt, boundary,
                         stored, fetchLeft, flags, outcome, own, heedless, fetchUp, fetchDraining,
                         resumed, fetchFaults, drains>>
          /\ forsaken' = forsaken \ {j}
          /\ fetchStatus[j] = "paused" /\ loop[j] = "none"
          /\ loop' = [k \in FetchJobs |-> IF k \in {j} THEN "starting" ELSE loop[k]]
          /\ orders < MaxOrders /\ orders' = orders + 1
      BY <1>6 DEF Backfetch!Resume, Backfetch!Launch, Backfetch!Ordered
    <2>2. MaxOrders \in Nat
      BY DEF Backfetch!BackfetchJobAssumption
    <2>3. FetchTyped'
      BY <1>1, <2>1, <2>2 DEF FetchTyped, Backfetch!Active
    <2>4. RoomSound'
      BY <1>1, <2>1, RoomAside
    <2>5. FetchRow(j)' /\ Pages(j)' /\ Aims(j)'
      BY <1>1, <2>1, FetchAside DEF Backfetch!Active
    <2> QED
      BY <1>1, <2>1, <2>3, <2>4, <2>5, FetchTypedIs, FetchAlone DEF FetchTyped
  <1> QED
    BY <1>2, <1>4, <1>5, <1>6

\* The process is stopped, dies, starts and launches what it finds.
LEMMA FetchProcess ==
    ASSUME Backfetch!BackfetchJobAssumption, FetchInv,
           \/ Backfetch!ResumeAll \/ Backfetch!Drain \/ Backfetch!Exit \/ Backfetch!Crash
           \/ Backfetch!Restart \/ UNCHANGED Backfetch!vars
    PROVE  FetchInv'
PROOF
  <1> USE DEF Backfetch!tableVars, Backfetch!runVars, Backfetch!processVars, Backfetch!historyVars
  <1>1. FetchTyped /\ RoomSound /\ \A j \in FetchJobs : FetchRow(j) /\ Pages(j) /\ Aims(j)
    BY FetchTypedIs DEF FetchInv
  <1>2. CASE Backfetch!Crash
    <2>1. /\ UNCHANGED <<rows, floor, fetchStatus, target, cursor, counted, own>>
          /\ fetchFaults' = fetchFaults + 1 /\ Backfetch!Forgotten(FetchJobs)
      BY <1>2 DEF Backfetch!Crash
    <2>2. FetchTyped'
      <3>1. MaxFaults \in Nat /\ Len(Stamp) \in Nat /\ 1 \in Backfetch!History
        BY <1>1, Stamps DEF Backfetch!BackfetchJobAssumption, FetchTyped, RoomSound
      <3>2. /\ fetchFaults' \in 0..MaxFaults /\ fetchUp' \in BOOLEAN /\ forsaken' = {}
            /\ UNCHANGED <<fetchDraining, resumed, drains, orders>>
        <4>1. fetchFaults \in 0..MaxFaults /\ fetchFaults < MaxFaults
                  /\ fetchFaults' = fetchFaults + 1
          BY <1>1, <1>2 DEF FetchTyped, Backfetch!Crash
        <4>2. fetchFaults' \in 0..MaxFaults
          BY <3>1, <4>1
        <4> QED
          BY <1>2, <4>2, Zenon DEF Backfetch!Crash, Backfetch!Down
      <3>3. /\ fetchAt' \in [FetchJobs -> {0} \cup Backfetch!History]
            /\ stored' \in [FetchJobs -> Nat] /\ fetchLeft' \in [FetchJobs -> Nat]
            /\ loop' \in [FetchJobs -> {"none", "starting", "reading", "page", "paged", "ending"}]
            /\ boundary' \in [FetchJobs -> Backfetch!History]
            /\ flags' \in [FetchJobs -> SUBSET {"paused", "cancelled"}]
            /\ outcome' \in [FetchJobs -> {"completed", "failed", "paused", "cancelled"}]
            /\ heedless' \in [FetchJobs -> Nat]
        BY <2>1, <3>1 DEF Backfetch!Forgotten
      <3> QED
        BY <1>1, <2>1, <3>2, <3>3 DEF FetchTyped, Backfetch!Active
    <2>3. RoomSound'
      BY <1>1, <2>1, RoomAside
    <2>4. ASSUME NEW j \in FetchJobs PROVE FetchRow(j)' /\ Pages(j)' /\ Aims(j)'
      <3>1. loop'[j] = "none" /\ heedless'[j] = 0
        BY <2>1 DEF Backfetch!Forgotten
      <3>2. Cardinality(own[j]) <= counted[j] + (fetchFaults + 1) * PageSize
        BY FetchUncounted
      <3>3. \A p \in 1..cursor'[j] : Backfetch!Seen(p)'
        BY <1>1, <2>1, SeenStays DEF FetchRow
      <3>4. FetchRow(j)'
        BY <1>1, <2>1, <3>1, <3>2, <3>3 DEF FetchRow, Underway, Backfetch!Before, Backfetch!Seen
      <3> QED
        BY <3>1, <3>4, FetchTypedIs, <1>1, FetchTypes DEF Pages, Aims, Underway
    <2> QED
      BY <2>2, <2>3, <2>4, FetchTypedIs DEF FetchInv
  <1>3. CASE \/ Backfetch!ResumeAll \/ Backfetch!Drain \/ Backfetch!Exit
             \/ Backfetch!Restart \/ UNCHANGED Backfetch!vars
    <2>1. /\ UNCHANGED <<rows, floor, fetchStatus, target, cursor, counted, fetchAt, boundary,
                         stored, fetchLeft, flags, outcome, own, heedless, fetchFaults, orders>>
          /\ \/ loop' = loop
             \/ \E J \in SUBSET {k \in FetchJobs : fetchStatus[k] \in Backfetch!Active
                    /\ loop[k] = "none"} :
                    loop' = [k \in FetchJobs |-> IF k \in J THEN "starting" ELSE loop[k]]
      <3>1. CASE Backfetch!ResumeAll
        <4>1. PICK J \in SUBSET {k \in FetchJobs : fetchStatus[k] \in Backfetch!Active
                  /\ loop[k] = "none"} :
                  Backfetch!Launch(J)
          BY <3>1 DEF Backfetch!ResumeAll, Backfetch!Resumable, Backfetch!Active
        <4> QED
          BY <3>1, <4>1 DEF Backfetch!ResumeAll, Backfetch!Launch
      <3>2. CASE Backfetch!Drain \/ Backfetch!Exit \/ Backfetch!Restart
                     \/ UNCHANGED Backfetch!vars
        BY <3>2 DEF Backfetch!Drain, Backfetch!Exit, Backfetch!Down, Backfetch!Restart,
                    Backfetch!vars
      <3> QED
        BY <1>3, <3>1, <3>2
    <2>2. /\ fetchUp' \in BOOLEAN /\ fetchDraining' \in BOOLEAN /\ resumed' \in BOOLEAN
          /\ drains' \in 0..MaxDrains /\ forsaken' \in SUBSET FetchJobs
      <3>1. MaxDrains \in Nat /\ drains \in 0..MaxDrains
            /\ fetchUp \in BOOLEAN /\ fetchDraining \in BOOLEAN /\ resumed \in BOOLEAN
            /\ forsaken \in SUBSET FetchJobs
        BY <1>1 DEF Backfetch!BackfetchJobAssumption, FetchTyped
      <3>2. drains' \in 0..MaxDrains
        BY <1>3, <3>1 DEF Backfetch!ResumeAll, Backfetch!Drain, Backfetch!Exit, Backfetch!Down,
           Backfetch!Restart, Backfetch!vars
      <3>3. fetchUp' \in BOOLEAN /\ fetchDraining' \in BOOLEAN /\ resumed' \in BOOLEAN
        BY <1>3, <3>1, Zenon DEF Backfetch!ResumeAll, Backfetch!Drain, Backfetch!Exit,
           Backfetch!Down, Backfetch!Restart, Backfetch!vars
      <3>4. \/ \E J \in SUBSET FetchJobs : forsaken' = forsaken \ J
            \/ forsaken' = {} \/ forsaken' = forsaken
        BY <1>3 DEF Backfetch!ResumeAll, Backfetch!Launch, Backfetch!Resumable, Backfetch!Drain,
           Backfetch!Exit, Backfetch!Down, Backfetch!Restart,
           Backfetch!vars
      <3>5. forsaken' \in SUBSET FetchJobs
        BY <3>1, <3>4
      <3> QED
        BY <3>2, <3>3, <3>5
    <2>3. FetchTyped'
      BY <1>1, <2>1, <2>2 DEF FetchTyped, Backfetch!Active
    <2>4. RoomSound'
      BY <1>1, <2>1, RoomAside
    <2>5. ASSUME NEW k \in FetchJobs PROVE FetchRow(k)' /\ Pages(k)' /\ Aims(k)'
      <3>1. \/ loop'[k] = loop[k]
            \/ loop[k] = "none" /\ loop'[k] = "starting" /\ fetchStatus[k] \in Backfetch!Active
        BY <2>1
      <3> QED
        BY <1>1, <2>1, <3>1, FetchAside
    <2> QED
      BY <2>3, <2>4, <2>5, FetchTypedIs DEF FetchInv
  <1> QED
    BY <1>2, <1>3

\* The invariant holds at first.
LEMMA FetchInit ==
    ASSUME Backfetch!BackfetchJobAssumption, Backfetch!Init
    PROVE  FetchInv
PROOF
  <1>1. /\ Held \in 1..Len(Stamp) /\ Len(Stamp) \in Nat /\ PageSize \in Nat
        /\ MaxFaults \in Nat /\ MaxDrains \in Nat /\ MaxOrders \in Nat
    BY Stamps DEF Backfetch!BackfetchJobAssumption, Backfetch!History
  <1>2. FetchTyped
    <2>1. /\ rows \subseteq Backfetch!History /\ 1 \in Backfetch!History
          /\ fetchFaults \in 0..MaxFaults /\ drains \in 0..MaxDrains /\ orders \in 0..MaxOrders
      BY <1>1 DEF Backfetch!Init, Backfetch!History
    <2> HIDE DEF Backfetch!History
    <2> QED
      BY <2>1 DEF Backfetch!Init, FetchTyped
  <1>3. RoomSound
    BY <1>1 DEF Backfetch!Init, RoomSound, Backfetch!Seen, Backfetch!Active
  <1>4. ASSUME NEW j \in FetchJobs PROVE FetchRow(j) /\ Pages(j) /\ Aims(j)
    <2>1. Cardinality({}) = 0
      BY FS_EmptySet
    <2> QED
      BY <1>1, <2>1 DEF Backfetch!Init, FetchRow, Pages, Aims, Underway
  <1> QED
    BY <1>2, <1>3, <1>4, FetchTypedIs DEF FetchInv

\* Every step keeps the invariant.
LEMMA FetchStep ==
    ASSUME Backfetch!BackfetchJobAssumption, FetchInv, [Backfetch!Next]_Backfetch!vars
    PROVE  FetchInv'
PROOF
  BY FetchRuns, FetchLooks, FetchRejects, FetchOrders, FetchProcess
     DEF Backfetch!Next, Backfetch!Runs

\* The invariant implies the properties.
LEMMA FetchSafe ==
    ASSUME Backfetch!BackfetchJobAssumption, FetchInv
    PROVE  /\ Backfetch!OneRunPerRoom /\ Backfetch!NothingSkipped /\ Backfetch!CountKept
           /\ Backfetch!BelowFloor /\ Backfetch!StopsWithinAPage
PROOF
  <1>1. FetchTyped /\ RoomSound /\ \A j \in FetchJobs : FetchRow(j) /\ Pages(j) /\ Aims(j)
    BY FetchTypedIs DEF FetchInv
  <1>2. Backfetch!OneRunPerRoom
    <2> DEFINE R == {j \in FetchJobs : loop[j] # "none"}
    <2>1. \A j, k \in R : j = k
      BY <1>1 DEF RoomSound, FetchRow
    <2>2. R = {} \/ \E j \in R : R = {j}
      BY <2>1
    <2>3. Cardinality(R) <= 1
      <3>1. CASE R = {}
        BY <3>1, FS_EmptySet
      <3>2. CASE \E j \in R : R = {j}
        <4>1. PICK j : R = {j}
          BY <3>2
        <4>2. Cardinality({j}) = 1
          BY FS_Singleton
        <4> QED
          BY <4>1, <4>2
      <3> QED
        BY <2>2, <3>1, <3>2
    <2> QED
      BY <2>3, FetchCardinality, Zenon DEF Backfetch!OneRunPerRoom
  <1>3. Backfetch!NothingSkipped
    BY <1>1 DEF FetchRow, Backfetch!NothingSkipped, Backfetch!History
  <1>4. Backfetch!CountKept
    <2>1. ASSUME NEW j \in FetchJobs, target[j] > 0
          PROVE  Cardinality(own[j]) <= target[j] + fetchFaults * PageSize
      <3>1. PICK n \in Nat, c \in Nat, s \in Nat, t \in Nat, x \in Nat :
                n = Cardinality(own[j]) /\ c = counted[j] /\ s = stored[j]
                /\ t = target[j] /\ x = fetchFaults * PageSize
        <4>1. own[j] \in SUBSET (1..Len(Stamp))
          BY <1>1 DEF FetchTyped, Backfetch!History
        <4> QED
          BY <1>1, <4>1, OwnFinite, FetchTypedIs, FetchTypes
      <3>2. n <= (IF loop[j] \in Underway THEN s ELSE c) + x /\ c <= t
        BY <1>1, <2>1, <3>1 DEF FetchRow
      <3>3. loop[j] \in Underway => s <= t
        BY <1>1, <2>1, <3>1 DEF Aims
      <3> QED
        BY <3>1, <3>2, <3>3
    <2>2. ASSUME NEW j \in FetchJobs PROVE counted[j] <= Cardinality(own[j])
      BY <1>1 DEF FetchRow
    <2> QED
      BY <2>1, <2>2, FetchCardinality, Zenon DEF Backfetch!CountKept
  <1>5. Backfetch!BelowFloor /\ Backfetch!StopsWithinAPage
    BY <1>1 DEF FetchRow, Pages, Backfetch!BelowFloor, Backfetch!StopsWithinAPage
  <1> QED
    BY <1>2, <1>3, <1>4, <1>5

\* (insertBackfetchJobIfNoActive, runJob.)  One run at a time works on a room and leaves
\* nothing out behind its cursor; and what it has stored is counted, but for
\* a page a crash or a rejected write.
THEOREM DescentLeavesNoHole ==
    ASSUME Backfetch!BackfetchJobAssumption
    PROVE  Backfetch!Spec =>
            [](Backfetch!OneRunPerRoom /\ Backfetch!NothingSkipped /\ Backfetch!CountKept)
PROOF
  <1>1. Backfetch!Init => FetchInv
    BY FetchInit
  <1>2. FetchInv /\ [Backfetch!Next]_(Backfetch!vars) => FetchInv'
    BY FetchStep
  <1>3. FetchInv => Backfetch!OneRunPerRoom /\ Backfetch!NothingSkipped /\ Backfetch!CountKept
    BY FetchSafe
  <1> QED
    BY <1>1, <1>2, <1>3, PTL DEF Backfetch!Spec

\* (setContextFloorIfUnset, onPage.)  Nothing a job has stored is rendered, and a job that is
\* told to stop does so within a page.
THEOREM DescentStaysBelow ==
    ASSUME Backfetch!BackfetchJobAssumption
    PROVE  Backfetch!Spec => [](Backfetch!BelowFloor /\ Backfetch!StopsWithinAPage)
PROOF
  <1>1. Backfetch!Init => FetchInv
    BY FetchInit
  <1>2. FetchInv /\ [Backfetch!Next]_(Backfetch!vars) => FetchInv'
    BY FetchStep
  <1>3. FetchInv => Backfetch!BelowFloor /\ Backfetch!StopsWithinAPage
    BY FetchSafe
  <1> QED
    BY <1>1, <1>2, <1>3, PTL DEF Backfetch!Spec


-----------------------------------------------------------------------------
(***************************************************************************)
(* DiaryJobs.  The invariant has three parts: one about the process, one   *)
(* about the file and its FIFO, and one about each job.                    *)
(***************************************************************************)
CONSTANTS DiaryRows, Diarists, MaxDiaryRetries, MaxDiaryRejects, MaxDiaryRestarts, MaxDiaryByHand,
          MaxDiaryRedos, MaxFileEdits, MaxDirect
VARIABLES diaryStatus, diaryAttempts, diarist, diarySwept, diaryPhase, exists, file, op,
          tail, snap, written, blank, unwritten, tornFile, bypassed, diaryRejects,
          diaryCrashes, diaryRestarts, diaryByHand, diaryRedos

Diary == INSTANCE DiaryJobs WITH
    Jobs <- DiaryRows, WorkerCount <- Diarists, MaxRetries <- MaxDiaryRetries,
    MaxRejects <- MaxDiaryRejects, MaxRestarts <- MaxDiaryRestarts,
    MaxRetriedByHand <- MaxDiaryByHand, MaxRedos <- MaxDiaryRedos, MaxEdits <- MaxFileEdits,
    status <- diaryStatus, attempts <- diaryAttempts, at <- diarist, swept <- diarySwept,
    phase <- diaryPhase, torn <- tornFile, rejects <- diaryRejects, crashes <- diaryCrashes,
    restarts <- diaryRestarts, byHand <- diaryByHand, redos <- diaryRedos

\* A process that is down has a restart left, which a crash is counted for beforehand.
Restarts ==
    /\ diaryCrashes <= diaryRestarts + (IF diaryPhase = "down" THEN 1 ELSE 0)
    /\ diaryPhase = "down" => diaryRestarts < MaxDiaryRestarts

\* Each writer takes its own steps, and what comes after the stat is done at the head of the
\* FIFO.  The file is there once anyone writes, and is created while nobody has.
Turns ==
    /\ op["direct"] \in {"none", "replace", "fill"} /\ op["editor"] # "append"
    /\ \A j \in DiaryRows : op[j] \in {"none", "stat", "create", "append"}
    /\ \A i \in 1..Len(tail) : tail[i] # "direct"
    /\ \A w \in Diary!Writers \ {"direct"} :
        op[w] \in {"create", "append", "replace", "fill"} => tail # <<>> /\ Head(tail) = w
    /\ \A w \in Diary!Writers : op[w] = "create" => ~exists
    /\ \A w \in Diary!Writers : op[w] \in {"append", "read", "replace", "fill"} => exists
    /\ ~exists => written = Diary!Nothing
    /\ diaryPhase = "down" => \A w \in Diary!Writers : op[w] = "none"

\* Unless an edit was cut off or overlapped, one of the two edits at most is under way, it
\* read all that was written, and the file has all of it but while it is truncated.
Texts ==
    tornFile \/ bypassed \/
        /\ ~(Diary!Mid("editor") /\ Diary!Mid("direct"))
        /\ \A w \in Diary!Writers : Diary!Mid(w) => snap[w] = written
        /\ (\E w \in Diary!Writers : op[w] = "fill") \/ file = written

\* Mishaps that may have a job run once more.
Mishaps == diaryCrashes + diaryRejects

\* A job with a worker is being processed; what was written for it, how often it was tried
\* and who settles its status.
JobSound(j) ==
    /\ diarist[j] # "idle" =>
           diaryStatus[j] = "processing" /\ diaryAttempts[j] > 0 /\ diaryPhase # "down"
    /\ diarist[j] = "finishing" \/ diaryStatus[j] = "done" => written[j] > 0 \/ j \in blank
    /\ diarist[j] = "closed_empty" => j \in blank
    /\ op[j] # "none" => diarist[j] = "appending"
    /\ written[j] <= 1 + Mishaps + diaryByHand
    /\ diarist[j] # "finishing" /\ diaryStatus[j] # "done" => written[j] <= Mishaps + diaryByHand
    /\ diaryAttempts[j] <= MaxDiaryRetries + 1 + Mishaps
    /\ diarist[j] = "idle" /\ diaryStatus[j] \in {"pending", "processing"} =>
           diaryAttempts[j] <= MaxDiaryRetries + Mishaps
    /\ diarist[j] = "idle" /\ diaryStatus[j] = "processing" /\ diaryPhase # "down" =>
           j \in unwritten

DiaryInv == Diary!TypeOK /\ Restarts /\ Turns /\ Texts /\ \A j \in DiaryRows : JobSound(j)

-----------------------------------------------------------------------------
\* The stages of a worker, one by one.
LEMMA StagesAre ==
    /\ DOMAIN Diary!AfterClosing = {"closed_entry", "closed_empty", "closed_drained",
         "closed_bad", "closed_refused"}
    /\ Diary!AfterClosing["closed_entry"] = "appending"
           /\ Diary!AfterClosing["closed_empty"] = "finishing"
    /\ Diary!AfterClosing["closed_drained"] = "returning"
           /\ Diary!AfterClosing["closed_bad"] = "ending"
    /\ Diary!AfterClosing["closed_refused"] = "spent"
    /\ Diary!Escaping = {"skipping", "excluding", "opening", "discarding", "failing",
         "returning", "finishing",
                   "closed_entry", "closed_empty", "closed_drained", "closed_bad",
                     "closed_refused"}
    /\ Diary!Guarded = {"ending", "spent", "escaped"}
    /\ Diary!Stages = {"skipping", "excluding", "opening", "discarding", "failing", "returning",
         "finishing",
                 "closed_entry", "closed_empty", "closed_drained", "closed_bad", "closed_refused",
                 "ending", "spent", "escaped", "idle", "claimed", "running", "appending"}
PROOF
  <1>1. DOMAIN Diary!AfterClosing = {"closed_entry", "closed_empty", "closed_drained",
          "closed_bad", "closed_refused"}
    BY DEF Diary!AfterClosing
  <1>2. /\ Diary!AfterClosing["closed_entry"] = "appending"
               /\ Diary!AfterClosing["closed_empty"] = "finishing"
        /\ Diary!AfterClosing["closed_drained"] = "returning"
               /\ Diary!AfterClosing["closed_bad"] = "ending"
        /\ Diary!AfterClosing["closed_refused"] = "spent"
    BY DEF Diary!AfterClosing
  <1>3. Diary!Escaping = {"skipping", "excluding", "opening", "discarding", "failing",
          "returning", "finishing",
                    "closed_entry", "closed_empty", "closed_drained", "closed_bad",
                      "closed_refused"}
    BY <1>1 DEF Diary!Escaping
  <1>4. Diary!Guarded = {"ending", "spent", "escaped"}
    BY DEF Diary!Guarded
  <1>5. Diary!Stages = {"skipping", "excluding", "opening", "discarding", "failing",
          "returning", "finishing",
                  "closed_entry", "closed_empty", "closed_drained", "closed_bad",
                    "closed_refused",
                  "ending", "spent", "escaped", "idle", "claimed", "running", "appending"}
    BY <1>3, <1>4 DEF Diary!Stages
  <1> QED
    BY <1>1, <1>2, <1>3, <1>4, <1>5

\* A step that leaves the file and its FIFO alone, in a process that goes on.
LEMMA FileSame ==
    ASSUME Turns, Texts, UNCHANGED Diary!fileVars, diaryPhase' = "down" => diaryPhase = "down"
    PROVE  Turns' /\ Texts'
PROOF
  <1>1. UNCHANGED <<exists, file, op, tail, snap, written, tornFile, bypassed>>
    BY DEF Diary!fileVars
  <1>2. Turns'
    BY <1>1 DEF Turns
  <1>3. Texts'
    BY <1>1 DEF Texts, Diary!Mid
  <1> QED
    BY <1>2, <1>3

\* Sums of natural numbers.
LEMMA Sums ==
    ASSUME NEW m \in Nat, NEW n \in Nat
    PROVE  /\ m + n \in Nat
           /\ \A k \in Nat : (m <= k => m + n <= k + n) /\ (k = m + 1 => k + n = m + n + 1)
PROOF
  <1> QED
    OBVIOUS

\* The numbers the invariant compares.
LEMMA Numbers ==
    ASSUME Diary!DiaryJobsAssumption, Diary!TypeOK
    PROVE  /\ MaxDiaryRetries \in Nat /\ diaryCrashes \in Nat /\ diaryRejects \in Nat
                  /\ diaryByHand \in Nat /\ diaryRedos \in Nat
           /\ diaryRestarts \in Nat /\ Mishaps \in Nat
           /\ \A j \in DiaryRows : written[j] \in Nat /\ diaryAttempts[j] \in Nat
PROOF
  <1>1. /\ MaxDiaryRetries \in Nat
        /\ MaxDiaryRejects \in Nat /\ MaxDiaryRestarts \in Nat /\ MaxDiaryByHand \in Nat
               /\ MaxDiaryRedos \in Nat
    BY DEF Diary!DiaryJobsAssumption
  <1>2. /\ diaryRejects \in 0..MaxDiaryRejects /\ diaryRedos \in 0..MaxDiaryRedos
        /\ diaryCrashes \in 0..MaxDiaryRestarts /\ diaryRestarts \in 0..MaxDiaryRestarts
        /\ diaryByHand \in 0..MaxDiaryByHand
    BY DEF Diary!TypeOK
  <1>3. \A j \in DiaryRows : written[j] \in Nat /\ diaryAttempts[j] \in Nat
    BY DEF Diary!TypeOK, Diary!Writers
  <1> QED
    BY <1>1, <1>2, <1>3 DEF Mishaps

\* A job that a step leaves alone, whatever mishap befell another.
LEMMA JobSame ==
    ASSUME Diary!DiaryJobsAssumption, Diary!TypeOK, Diary!TypeOK', NEW j \in DiaryRows,
             JobSound(j),
           diaryStatus'[j] = diaryStatus[j], diaryAttempts'[j] = diaryAttempts[j],
             diarist'[j] = diarist[j],
           op'[j] # "none" => op[j] # "none", written'[j] = written[j],
           (j \in blank') <=> (j \in blank), (j \in unwritten) => (j \in unwritten'),
           (diaryPhase' = "down") <=> (diaryPhase = "down"),
           Mishaps <= Mishaps', diaryByHand <= diaryByHand'
    PROVE  JobSound(j)'
PROOF
  <1>1. /\ written[j] \in Nat /\ diaryAttempts[j] \in Nat /\ MaxDiaryRetries \in Nat
        /\ Mishaps \in Nat /\ diaryByHand \in Nat
    BY Numbers
  <1>2. Mishaps' \in Nat /\ diaryByHand' \in Nat
    <2>1. MaxDiaryRejects \in Nat /\ MaxDiaryRestarts \in Nat /\ MaxDiaryByHand \in Nat
      BY DEF Diary!DiaryJobsAssumption
    <2>2. diaryRejects' \in 0..MaxDiaryRejects /\ diaryCrashes' \in 0..MaxDiaryRestarts
              /\ diaryByHand' \in 0..MaxDiaryByHand
      BY DEF Diary!TypeOK
    <2>3. diaryRejects' \in Nat /\ diaryCrashes' \in Nat /\ diaryByHand' \in Nat
      BY <2>1, <2>2
    <2>4. diaryCrashes' + diaryRejects' \in Nat
      BY <2>3, Sums
    <2> QED
      BY <2>3, <2>4 DEF Mishaps
  <1> QED
    BY <1>1, <1>2 DEF JobSound

\* A step of one worker that leaves the file alone, in a process that goes on.
LEMMA JobStep ==
    ASSUME Diary!DiaryJobsAssumption, DiaryInv, Diary!TypeOK', NEW j \in DiaryRows, JobSound(j)',
           \A k \in DiaryRows \ {j} : diaryStatus'[k] = diaryStatus[k]
                                          /\ diaryAttempts'[k] = diaryAttempts[k]
                                                 /\ diarist'[k] = diarist[k],
           \A k \in DiaryRows \ {j} : (k \in blank') <=> (k \in blank),
           unwritten \subseteq unwritten',
           UNCHANGED <<Diary!fileVars, diaryPhase, diaryCrashes, diaryRestarts>>,
           diaryRejects <= diaryRejects', diaryByHand <= diaryByHand'
    PROVE  DiaryInv'
PROOF
  <1>1. Diary!TypeOK /\ Restarts /\ Turns /\ Texts /\ \A k \in DiaryRows : JobSound(k)
    BY DEF DiaryInv
  <1>2. UNCHANGED <<exists, file, op, tail, snap, written, tornFile, bypassed>>
    BY DEF Diary!fileVars
  <1>3. Turns' /\ Texts'
    BY <1>1, FileSame
  <1>4. Restarts'
    BY <1>1 DEF Restarts
  <1>5. diaryCrashes \in Nat /\ diaryRejects \in Nat /\ diaryRejects' \in Nat
    BY <1>1, Numbers DEF Diary!TypeOK, Diary!DiaryJobsAssumption
  <1>6. Mishaps <= Mishaps'
    BY <1>5 DEF Mishaps
  <1>7. ASSUME NEW k \in DiaryRows, k # j PROVE JobSound(k)'
    BY <1>1, <1>2, <1>6, <1>7, JobSame
  <1> QED
    BY <1>1, <1>3, <1>4, <1>7 DEF DiaryInv

\* The types of a step of one worker that leaves the file alone.
LEMMA JobTypes ==
    ASSUME Diary!TypeOK, NEW j \in DiaryRows, NEW s \in {"pending",
             "processing"} \cup Diary!Ended, NEW n \in Nat, NEW w \in Diary!Stages,
           diaryStatus' = [diaryStatus EXCEPT ![j] = s] \/ UNCHANGED diaryStatus,
           diaryAttempts' = [diaryAttempts EXCEPT ![j] = n] \/ UNCHANGED diaryAttempts,
           diarist' = [diarist EXCEPT ![j] = w] \/ UNCHANGED diarist,
           diarySwept' \in SUBSET DiaryRows, blank' \in SUBSET DiaryRows,
             unwritten' \in SUBSET DiaryRows,
           diaryRejects' \in 0..MaxDiaryRejects, diaryRedos' \in 0..MaxDiaryRedos,
             diaryByHand' \in 0..MaxDiaryByHand,
           UNCHANGED <<Diary!fileVars, diaryPhase, diaryCrashes, diaryRestarts>>
    PROVE  /\ Diary!TypeOK'
           /\ \A k \in DiaryRows \ {j} : diaryStatus'[k] = diaryStatus[k]
                                             /\ diaryAttempts'[k] = diaryAttempts[k]
                                                    /\ diarist'[k] = diarist[k]
PROOF
  <1>1. UNCHANGED <<exists, file, op, tail, snap, written, tornFile, bypassed>>
    BY DEF Diary!fileVars
  <1>2. /\ diaryStatus \in [DiaryRows -> {"pending", "processing"} \cup Diary!Ended]
               /\ diaryAttempts \in [DiaryRows -> Nat]
        /\ diarist \in [DiaryRows -> Diary!Stages]
    BY DEF Diary!TypeOK
  <1>3. /\ diaryStatus' \in [DiaryRows -> {"pending", "processing"} \cup Diary!Ended]
               /\ diaryAttempts' \in [DiaryRows -> Nat]
        /\ diarist' \in [DiaryRows -> Diary!Stages]
    BY <1>2
  <1>4. Diary!TypeOK'
    BY <1>1, <1>3 DEF Diary!TypeOK
  <1>5. \A k \in DiaryRows \ {j} : diaryStatus'[k] = diaryStatus[k]
                                       /\ diaryAttempts'[k] = diaryAttempts[k]
                                              /\ diarist'[k] = diarist[k]
    BY <1>2
  <1> QED
    BY <1>4, <1>5

LEMMA ClaimInv ==
    ASSUME Diary!DiaryJobsAssumption, DiaryInv, NEW j \in DiaryRows, Diary!Claim(j)
    PROVE  DiaryInv'
PROOF
  <1>1. /\ Diary!TypeOK /\ JobSound(j) /\ Diary!Running /\ diaryStatus[j] = "pending"
               /\ diarist[j] = "idle"
        /\ diaryStatus' = [diaryStatus EXCEPT ![j] = "processing"]
        /\ diaryAttempts' = [diaryAttempts EXCEPT ![j] = @ + 1]
        /\ diarist' = [diarist EXCEPT ![j] = "claimed"]
        /\ UNCHANGED <<unwritten, blank, Diary!fileVars, Diary!processVars, Diary!boundVars,
             diaryRejects, diaryRedos>>
    BY DEF DiaryInv, Diary!Claim, Diary!Becomes, Diary!GoesTo
  <1>2. UNCHANGED <<unwritten, blank, diarySwept, diaryPhase, diaryCrashes, diaryRestarts,
                    diaryByHand, diaryRejects, diaryRedos, op, written>>
    BY <1>1 DEF Diary!fileVars, Diary!processVars, Diary!boundVars
  <1>3. diaryAttempts[j] \in Nat /\ Mishaps \in Nat /\ MaxDiaryRetries \in Nat
            /\ diaryByHand \in Nat
    BY <1>1, Numbers
  <1>4. diaryStatus'[j] = "processing" /\ diaryAttempts'[j] = diaryAttempts[j] + 1
            /\ diarist'[j] = "claimed"
    BY <1>1 DEF Diary!TypeOK
  <1>5. "claimed" \in Diary!Stages
    BY StagesAre
  <1>6. diaryAttempts' = [diaryAttempts EXCEPT ![j] = diaryAttempts[j] + 1]
            /\ diaryAttempts[j] + 1 \in Nat
    BY <1>1, <1>3
  <1>7. /\ Diary!TypeOK'
        /\ \A k \in DiaryRows \ {j} : diaryStatus'[k] = diaryStatus[k]
                                          /\ diaryAttempts'[k] = diaryAttempts[k]
                                                 /\ diarist'[k] = diarist[k]
    BY <1>1, <1>2, <1>5, <1>6, JobTypes, ZenonT(60) DEF Diary!TypeOK
  <1>8. Mishaps' = Mishaps
    BY <1>2 DEF Mishaps
  <1>9. JobSound(j)'
    BY <1>1, <1>2, <1>3, <1>4, <1>8 DEF JobSound, Diary!Running
  <1> QED
    BY <1>1, <1>2, <1>7, <1>9, JobStep, Numbers

\* A worker that goes from one stage to another before its entry is written.
LEMMA StageInv ==
    ASSUME Diary!DiaryJobsAssumption, DiaryInv, NEW j \in DiaryRows, NEW s \in Diary!Stages,
           diarist[j] \notin {"idle", "appending", "finishing"},
           s \notin {"idle", "finishing", "closed_empty"},
           diarist' = [diarist EXCEPT ![j] = s],
           blank' = blank \/ blank' = blank \ {j},
           diarySwept' \in SUBSET DiaryRows, diaryRejects' \in 0..MaxDiaryRejects,
             diaryRejects <= diaryRejects', diaryRedos' \in 0..MaxDiaryRedos,
           UNCHANGED <<diaryStatus, diaryAttempts, unwritten, Diary!fileVars, diaryPhase,
                       Diary!boundVars>>
    PROVE  DiaryInv'
PROOF
  <1>1. Diary!TypeOK /\ JobSound(j)
    BY DEF DiaryInv
  <1>2. UNCHANGED <<diaryCrashes, diaryRestarts, diaryByHand, op, written>>
    BY DEF Diary!fileVars, Diary!boundVars
  <1>3. diaryAttempts[j] \in Nat /\ Mishaps \in Nat /\ MaxDiaryRetries \in Nat
            /\ diaryByHand \in Nat /\ diaryCrashes \in Nat
        /\ diaryRejects \in Nat
    BY <1>1, Numbers
  <1>4. diarist'[j] = s /\ written[j] \in Nat
    BY <1>1, Numbers DEF Diary!TypeOK
  <1>5. "pending" \in {"pending", "processing"} \cup Diary!Ended /\ 0 \in Nat
    OBVIOUS
  <1>6. /\ Diary!TypeOK'
        /\ \A k \in DiaryRows \ {j} : diaryStatus'[k] = diaryStatus[k]
                                          /\ diaryAttempts'[k] = diaryAttempts[k]
                                                 /\ diarist'[k] = diarist[k]
    BY <1>1, <1>2, <1>5, JobTypes DEF Diary!TypeOK
  <1>7. diaryRejects' \in Nat
    BY DEF Diary!DiaryJobsAssumption
  <1>8. Mishaps <= Mishaps' /\ Mishaps' \in Nat
    <2>1. diaryRejects + diaryCrashes <= diaryRejects' + diaryCrashes
              /\ diaryRejects' + diaryCrashes \in Nat
      BY <1>3, <1>7, Sums
    <2>2. diaryRejects + diaryCrashes = diaryCrashes + diaryRejects
              /\ diaryRejects' + diaryCrashes = diaryCrashes + diaryRejects'
      BY <1>3, <1>7
    <2>3. Mishaps = diaryCrashes + diaryRejects /\ Mishaps' = diaryCrashes + diaryRejects'
      BY <1>2, Zenon DEF Mishaps
    <2> QED
      BY <2>1, <2>2, <2>3, Zenon
  <1>9. JobSound(j)'
    <2>1. /\ diaryStatus[j] = "processing" /\ diaryAttempts[j] > 0 /\ diaryPhase # "down"
                 /\ op[j] = "none"
          /\ written[j] <= Mishaps + diaryByHand
                 /\ diaryAttempts[j] <= MaxDiaryRetries + 1 + Mishaps
      BY <1>1 DEF JobSound
    <2>2. written[j] <= Mishaps' + diaryByHand
              /\ diaryAttempts[j] <= MaxDiaryRetries + 1 + Mishaps'
      BY <1>3, <1>4, <1>8, <2>1
    <2>3. written[j] <= 1 + Mishaps' + diaryByHand
      BY <1>3, <1>4, <1>8, <2>2
    <2> QED
      BY <1>2, <1>4, <2>1, <2>2, <2>3 DEF JobSound
  <1> QED
    BY <1>1, <1>2, <1>3, <1>6, <1>9, JobStep

LEMMA ResolveInv ==
    ASSUME Diary!DiaryJobsAssumption, DiaryInv, NEW j \in DiaryRows, Diary!Resolve(j)
    PROVE  DiaryInv'
PROOF
  <1>1. PICK s \in {"skipping", "excluding", "opening"} : diarist' = [diarist EXCEPT ![j] = s]
    BY DEF Diary!Resolve, Diary!GoesTo
  <1>2. /\ Diary!TypeOK /\ diarist[j] = "claimed" /\ s \in Diary!Stages
        /\ UNCHANGED <<diaryStatus, diaryAttempts, unwritten, blank, Diary!fileVars,
             Diary!processVars, Diary!boundVars, diaryRejects, diaryRedos>>
    BY StagesAre DEF DiaryInv, Diary!Resolve
  <1>3. UNCHANGED <<diarySwept, diaryPhase>>
    BY <1>2 DEF Diary!processVars
  <1>4. diaryRejects \in Nat
    BY <1>2, Numbers
  <1>5. diarySwept' \in SUBSET DiaryRows /\ diaryRejects' \in 0..MaxDiaryRejects
            /\ diaryRejects <= diaryRejects' /\ diaryRedos' \in 0..MaxDiaryRedos
    BY <1>2, <1>3, <1>4 DEF Diary!TypeOK
  <1>6. s \notin {"idle", "finishing", "closed_empty"}
            /\ diarist[j] \notin {"idle", "appending", "finishing"}
    BY <1>2
  <1> QED
    BY <1>1, <1>2, <1>3, <1>5, <1>6, StageInv

LEMMA RunJudgedInv ==
    ASSUME Diary!DiaryJobsAssumption, DiaryInv, NEW j \in DiaryRows, Diary!RunJudged(j)
    PROVE  DiaryInv'
PROOF
  <1>1. /\ Diary!TypeOK /\ diarist[j] = "running"
               /\ diarist' = [diarist EXCEPT ![j] = "discarding"]
        /\ diaryRedos < MaxDiaryRedos /\ diaryRedos' = diaryRedos + 1
        /\ UNCHANGED <<diaryStatus, diaryAttempts, unwritten, blank, Diary!fileVars,
             Diary!processVars, Diary!boundVars, diaryRejects>>
    BY DEF DiaryInv, Diary!RunJudged, Diary!GoesTo
  <1>2. UNCHANGED <<diarySwept, diaryPhase>>
    BY <1>1 DEF Diary!processVars
  <1>3. diaryRejects \in Nat /\ diaryRedos \in Nat /\ MaxDiaryRedos \in Nat
    BY <1>1, Numbers DEF Diary!DiaryJobsAssumption
  <1>4. diaryRedos' \in 0..MaxDiaryRedos
    BY <1>1, <1>3
  <1>5. "discarding" \in Diary!Stages
    BY StagesAre
  <1>6. diarySwept' \in SUBSET DiaryRows /\ diaryRejects' \in 0..MaxDiaryRejects
            /\ diaryRejects <= diaryRejects'
    BY <1>1, <1>2, <1>3 DEF Diary!TypeOK
  <1> QED
    BY <1>1, <1>2, <1>4, <1>5, <1>6, StageInv

\* A worker that had nothing to record.
LEMMA BlankInv ==
    ASSUME Diary!DiaryJobsAssumption, DiaryInv, NEW j \in DiaryRows, NEW s \in {"closed_empty",
             "finishing"},
           diarist[j] \in {"running", "closed_empty"}, diarist' = [diarist EXCEPT ![j] = s],
           blank' = blank \cup {j}, diarySwept' \in SUBSET DiaryRows,
           UNCHANGED <<diaryStatus, diaryAttempts, unwritten, Diary!fileVars, diaryPhase,
                       Diary!boundVars, diaryRejects, diaryRedos>>
    PROVE  DiaryInv'
PROOF
  <1>1. Diary!TypeOK /\ JobSound(j)
    BY DEF DiaryInv
  <1>2. UNCHANGED <<diaryCrashes, diaryRestarts, diaryByHand, op, written>>
    BY DEF Diary!fileVars, Diary!boundVars
  <1>3. diaryAttempts[j] \in Nat /\ Mishaps \in Nat /\ MaxDiaryRetries \in Nat
            /\ diaryByHand \in Nat /\ diaryRejects \in Nat
    BY <1>1, Numbers
  <1>4. diarist'[j] = s /\ s \in Diary!Stages
    BY <1>1, StagesAre DEF Diary!TypeOK
  <1>5. "pending" \in {"pending", "processing"} \cup Diary!Ended /\ 0 \in Nat
    OBVIOUS
  <1>6. /\ Diary!TypeOK'
        /\ \A k \in DiaryRows \ {j} : diaryStatus'[k] = diaryStatus[k]
                                          /\ diaryAttempts'[k] = diaryAttempts[k]
                                                 /\ diarist'[k] = diarist[k]
    BY <1>1, <1>2, <1>4, <1>5, JobTypes DEF Diary!TypeOK
  <1>7. Mishaps' = Mishaps
    BY <1>2 DEF Mishaps
  <1>8. JobSound(j)'
    BY <1>1, <1>2, <1>3, <1>4, <1>7 DEF JobSound
  <1> QED
    BY <1>1, <1>2, <1>3, <1>6, <1>8, JobStep

LEMMA RunEndsInv ==
    ASSUME Diary!DiaryJobsAssumption, DiaryInv, NEW j \in DiaryRows, Diary!RunEnds(j)
    PROVE  DiaryInv'
PROOF
  <1>1. PICK s \in DOMAIN Diary!AfterClosing :
          /\ diarist' = [diarist EXCEPT ![j] = s]
          /\ blank' = IF s = "closed_empty" THEN blank \cup {j} ELSE blank \ {j}
    BY DEF Diary!RunEnds, Diary!GoesTo
  <1>2. /\ Diary!TypeOK /\ diarist[j] = "running"
        /\ UNCHANGED <<diaryStatus, diaryAttempts, unwritten, Diary!fileVars, Diary!processVars,
             Diary!boundVars, diaryRejects, diaryRedos>>
    BY DEF DiaryInv, Diary!RunEnds
  <1>3. UNCHANGED <<diarySwept, diaryPhase>>
    BY <1>2 DEF Diary!processVars
  <1>4. s \in Diary!Stages /\ s \notin {"idle", "finishing"} /\ diaryRejects \in Nat
    BY <1>2, StagesAre, Numbers
  <1>5. /\ diarySwept' \in SUBSET DiaryRows /\ diaryRejects' \in 0..MaxDiaryRejects
               /\ diaryRejects <= diaryRejects'
        /\ diaryRedos' \in 0..MaxDiaryRedos
    BY <1>2, <1>3, <1>4 DEF Diary!TypeOK
  <1>6. CASE s = "closed_empty"
    BY <1>1, <1>2, <1>3, <1>5, <1>6, BlankInv
  <1>7. CASE s # "closed_empty"
    BY <1>1, <1>2, <1>3, <1>4, <1>5, <1>7, StageInv
  <1> QED
    BY <1>6, <1>7

\* A writer takes its place at the end of the FIFO.
LEMMA EnqueueTurns ==
    ASSUME Diary!TypeOK, Turns, Texts, NEW w \in Diary!Writers, w # "direct", op[w] = "none",
             diaryPhase # "down",
           op' = [op EXCEPT ![w] = "stat"], tail' = Append(tail, w),
           UNCHANGED <<diaryPhase, exists, file, snap, written, tornFile, bypassed>>
    PROVE  /\ Turns' /\ Texts'
           /\ op' \in [Diary!Writers -> {"none", "stat", "create", "append", "read", "replace",
                "fill"}]
           /\ tail' \in Seq(Diary!Writers)
PROOF
  <1>1. /\ op \in [Diary!Writers -> {"none", "stat", "create", "append", "read", "replace",
             "fill"}]
        /\ tail \in Seq(Diary!Writers)
    BY DEF Diary!TypeOK
  <1>2. /\ op' \in [Diary!Writers -> {"none", "stat", "create", "append", "read", "replace",
             "fill"}]
        /\ tail' \in Seq(Diary!Writers)
        /\ op'[w] = "stat" /\ \A v \in Diary!Writers : v # w => op'[v] = op[v]
    BY <1>1
  <1>3. /\ \A i \in 1..Len(tail') : tail'[i] = w \/ (i \in 1..Len(tail) /\ tail'[i] = tail[i])
        /\ tail' # <<>>
        /\ tail # <<>> => Head(tail') = Head(tail)
    BY <1>1
  <1>4. \A j \in DiaryRows : j \in Diary!Writers
    BY DEF Diary!Writers
  <1>5. "direct" \in Diary!Writers /\ "editor" \in Diary!Writers
    BY DEF Diary!Writers
  <1>6. Turns'
    BY <1>2, <1>3, <1>4, <1>5 DEF Turns
  <1>7. \A v \in {"editor", "direct"} : Diary!Mid(v)' <=> Diary!Mid(v)
    BY <1>2, <1>5 DEF Diary!Mid
  <1>8. \A v \in Diary!Writers : (Diary!Mid(v)' <=> Diary!Mid(v)) /\ (op'[v] = "fill" <=>
                                      op[v] = "fill")
    BY <1>2 DEF Diary!Mid
  <1>9. Texts'
    BY <1>7, <1>8 DEF Texts
  <1> QED
    BY <1>2, <1>6, <1>9

LEMMA SessionWrittenInv ==
    ASSUME Diary!DiaryJobsAssumption, DiaryInv, NEW j \in DiaryRows, Diary!SessionWritten(j)
    PROVE  DiaryInv'
PROOF
  <1>1. /\ Diary!TypeOK /\ Restarts /\ Turns /\ Texts /\ \A k \in DiaryRows : JobSound(k)
        /\ UNCHANGED <<diaryStatus, diaryAttempts, unwritten, blank, diaryPhase,
             Diary!boundVars, diaryRejects, diaryRedos>>
        /\ diarySwept' = IF diarist[j] = "discarding" THEN diarySwept \ {j} ELSE diarySwept
    BY DEF DiaryInv, Diary!SessionWritten
  <1>2. /\ diarySwept' \in SUBSET DiaryRows /\ diaryRejects' \in 0..MaxDiaryRejects
               /\ diaryRejects <= diaryRejects'
        /\ diaryRedos' \in 0..MaxDiaryRedos
    BY <1>1, Numbers DEF Diary!TypeOK
  <1>3. UNCHANGED <<diaryCrashes, diaryRestarts, diaryByHand>>
    BY <1>1 DEF Diary!boundVars
  <1>4. CASE diarist[j] = "opening" /\ Diary!GoesTo(j, "running") /\ UNCHANGED Diary!fileVars
    <2>1. "running" \in Diary!Stages
      BY StagesAre
    <2> QED
      BY <1>1, <1>2, <1>4, <2>1, StageInv DEF Diary!GoesTo
  <1>5. CASE diarist[j] = "discarding"
                 /\ (\E s \in {"opening", "failing"} : Diary!GoesTo(j, s))
                         /\ UNCHANGED Diary!fileVars
    <2>1. PICK s \in {"opening", "failing"} : diarist' = [diarist EXCEPT ![j] = s]
      BY <1>5 DEF Diary!GoesTo
    <2>2. s \in Diary!Stages
      BY StagesAre
    <2> QED
      BY <1>1, <1>2, <1>5, <2>1, <2>2, StageInv
  <1>6. CASE diarist[j] \in DOMAIN Diary!AfterClosing /\ diarist[j] # "closed_entry"
                 /\ Diary!GoesTo(j, Diary!AfterClosing[diarist[j]])
             /\ UNCHANGED Diary!fileVars
    <2>1. CASE diarist[j] = "closed_empty"
      <3>1. diarist' = [diarist EXCEPT ![j] = "finishing"]
        BY <1>6, <2>1, StagesAre DEF Diary!GoesTo
      <3>2. blank' = blank \cup {j}
        BY <1>1, <2>1 DEF JobSound
      <3> QED
        BY <1>1, <1>2, <1>6, <2>1, <3>1, <3>2, BlankInv
    <2>2. CASE diarist[j] # "closed_empty"
      <3> DEFINE s == Diary!AfterClosing[diarist[j]]
      <3>1. s \in {"returning", "ending", "spent"} /\ s \in Diary!Stages
        BY <1>6, <2>2, StagesAre
      <3>2. diarist' = [diarist EXCEPT ![j] = s]
        BY <1>6 DEF Diary!GoesTo
      <3>3. diarist[j] \notin {"idle", "appending", "finishing"}
        BY <1>6, StagesAre
      <3> HIDE DEF s
      <3> QED
        BY <1>1, <1>2, <1>6, <3>1, <3>2, <3>3, StageInv
    <2> QED
      BY <2>1, <2>2
  <1>7. CASE diarist[j] = "closed_entry"
                 /\ Diary!GoesTo(j, Diary!AfterClosing["closed_entry"]) /\ Diary!Append_Enqueue(j)
    <2>1. /\ diarist' = [diarist EXCEPT ![j] = "appending"] /\ "appending" \in Diary!Stages
          /\ op' = [op EXCEPT ![j] = "stat"] /\ tail' = Append(tail, j)
          /\ UNCHANGED <<exists, file, snap, written, tornFile, bypassed>>
      BY <1>7, StagesAre DEF Diary!GoesTo, Diary!Append_Enqueue, Diary!Proceeds
    <2>2. j \in Diary!Writers /\ j # "direct" /\ op[j] = "none" /\ diaryPhase # "down"
      BY <1>1, <1>7 DEF JobSound, Diary!Writers, Diary!DiaryJobsAssumption
    <2>3. /\ Turns' /\ Texts'
          /\ op' \in [Diary!Writers -> {"none", "stat", "create", "append", "read", "replace",
               "fill"}]
          /\ tail' \in Seq(Diary!Writers)
      BY <1>1, <2>1, <2>2, EnqueueTurns
    <2>4. Diary!TypeOK'
      <3>1. diarist' \in [DiaryRows -> Diary!Stages]
        BY <1>1, <2>1 DEF Diary!TypeOK
      <3> QED
        BY <1>1, <1>2, <1>3, <2>1, <2>3, <3>1 DEF Diary!TypeOK
    <2>5. Restarts'
      BY <1>1, <1>3 DEF Restarts
    <2>6. Mishaps' = Mishaps /\ Mishaps \in Nat /\ diaryByHand \in Nat
      BY <1>1, <1>3, Numbers DEF Mishaps
    <2>7. ASSUME NEW k \in DiaryRows, k # j PROVE JobSound(k)'
      <3>1. diarist'[k] = diarist[k] /\ op'[k] = op[k]
        BY <1>1, <2>1, <2>7 DEF Diary!TypeOK, Diary!Writers
      <3> QED
        BY <1>1, <1>3, <2>1, <2>4, <2>6, <3>1, JobSame
    <2>8. JobSound(j)'
      <3>1. diarist'[j] = "appending"
        BY <1>1, <2>1 DEF Diary!TypeOK
      <3> QED
        BY <1>1, <1>3, <1>7, <2>1, <2>6, <3>1 DEF JobSound
    <2> QED
      BY <2>3, <2>4, <2>5, <2>7, <2>8 DEF DiaryInv
  <1> QED
    BY <1>4, <1>5, <1>6, <1>7, StagesAre DEF Diary!SessionWritten

\* A worker lets go of its job, its status written.
LEMMA SettledInv ==
    ASSUME Diary!DiaryJobsAssumption, DiaryInv, NEW j \in DiaryRows, diarist[j] \notin {"idle",
             "appending"},
           NEW s \in {"pending"} \cup Diary!Ended, NEW n \in Nat,
           diaryStatus' = [diaryStatus EXCEPT ![j] = s],
             diaryAttempts' = [diaryAttempts EXCEPT ![j] = n],
           diarist' = [diarist EXCEPT ![j] = "idle"],
           n <= diaryAttempts[j], s = "pending" => n <= MaxDiaryRetries + Mishaps,
           s = "done" <=> diarist[j] = "finishing",
           UNCHANGED <<unwritten, blank, Diary!fileVars, Diary!processVars, Diary!boundVars,
                       diaryRejects, diaryRedos>>
    PROVE  DiaryInv'
PROOF
  <1>1. Diary!TypeOK /\ JobSound(j)
    BY DEF DiaryInv
  <1>2. UNCHANGED <<diaryCrashes, diaryRestarts, diaryByHand, op, written, diarySwept,
                    diaryPhase>>
    BY DEF Diary!fileVars, Diary!boundVars, Diary!processVars
  <1>3. /\ diaryAttempts[j] \in Nat /\ Mishaps \in Nat /\ MaxDiaryRetries \in Nat
               /\ diaryByHand \in Nat /\ diaryRejects \in Nat
        /\ written[j] \in Nat
    BY <1>1, Numbers
  <1>4. diarist'[j] = "idle" /\ diaryStatus'[j] = s /\ diaryAttempts'[j] = n /\ s # "processing"
    BY <1>1 DEF Diary!TypeOK, Diary!Ended
  <1>5. "idle" \in Diary!Stages
    BY StagesAre
  <1>6. /\ Diary!TypeOK'
        /\ \A k \in DiaryRows \ {j} : diaryStatus'[k] = diaryStatus[k]
                                          /\ diaryAttempts'[k] = diaryAttempts[k]
                                                 /\ diarist'[k] = diarist[k]
    BY <1>1, <1>2, <1>5, JobTypes DEF Diary!TypeOK
  <1>7. Mishaps' = Mishaps
    BY <1>2 DEF Mishaps
  <1>8. JobSound(j)'
    <2>1. op[j] = "none"
      BY <1>1 DEF JobSound
    <2>2. diaryAttempts[j] <= MaxDiaryRetries + 1 + Mishaps /\ diaryStatus[j] = "processing"
      BY <1>1 DEF JobSound
    <2> QED
      BY <1>1, <1>2, <1>3, <1>4, <1>7, <2>1, <2>2 DEF JobSound
  <1> QED
    BY <1>1, <1>2, <1>3, <1>6, <1>8, JobStep

LEMMA StatusWrittenInv ==
    ASSUME Diary!DiaryJobsAssumption, DiaryInv, NEW j \in DiaryRows, Diary!StatusWritten(j)
    PROVE  DiaryInv'
PROOF
  <1>1. /\ Diary!TypeOK /\ JobSound(j)
        /\ diaryAttempts' = [diaryAttempts EXCEPT ![j] = IF diarist[j] = "returning" THEN @ - 1 ELSE @]
        /\ diarist' = [diarist EXCEPT ![j] = "idle"]
        /\ UNCHANGED <<unwritten, blank, Diary!fileVars, Diary!processVars, Diary!boundVars,
             diaryRejects, diaryRedos>>
    BY DEF DiaryInv, Diary!StatusWritten, Diary!GoesTo
  <1>2. /\ diaryAttempts[j] \in Nat /\ Mishaps \in Nat /\ MaxDiaryRetries \in Nat
    BY <1>1, Numbers
  <1> DEFINE n == IF diarist[j] = "returning" THEN diaryAttempts[j] - 1 ELSE diaryAttempts[j]
  <1>3. PICK s \in {"pending"} \cup Diary!Ended :
          /\ diaryStatus' = [diaryStatus EXCEPT ![j] = s]
          /\ s = "pending" => diarist[j] = "returning" \/ diaryAttempts[j] <= MaxDiaryRetries
          /\ s = "done" <=> diarist[j] = "finishing"
          /\ diarist[j] \notin {"idle", "appending"}
    <2>1. CASE diarist[j] = "escaped" /\ diaryStatus[j] # "processing"
      BY <1>1, <2>1 DEF JobSound
    <2>2. CASE diarist[j] = "skipping" /\ Diary!Becomes(j, "skipped")
      BY <2>2 DEF Diary!Becomes, Diary!Ended
    <2>3. CASE diarist[j] = "excluding" /\ Diary!Becomes(j, "excluded")
      BY <2>3 DEF Diary!Becomes, Diary!Ended
    <2>4. CASE diarist[j] = "finishing" /\ Diary!Becomes(j, "done")
      BY <2>4 DEF Diary!Becomes, Diary!Ended
    <2>5. CASE diarist[j] \in {"failing", "spent"} /\ Diary!Becomes(j, "failed")
      BY <2>5 DEF Diary!Becomes, Diary!Ended
    <2>6. CASE diarist[j] = "returning" /\ Diary!Becomes(j, "pending")
      <3>1. diaryStatus' = [diaryStatus EXCEPT ![j] = "pending"] /\ "pending" # "done"
        BY <2>6 DEF Diary!Becomes
      <3>2. diarist[j] # "finishing" /\ diarist[j] \notin {"idle", "appending"}
        BY <2>6
      <3> QED
        BY <2>6, <3>1, <3>2
    <2>7. CASE diarist[j] \in {"ending", "escaped"}
                   /\ Diary!Becomes(j, IF Diary!Retriable(j) THEN "pending" ELSE "failed")
      <3> DEFINE s == IF diaryAttempts[j] <= MaxDiaryRetries THEN "pending" ELSE "failed"
      <3>1. diaryStatus' = [diaryStatus EXCEPT ![j] = s]
        BY <2>7 DEF Diary!Becomes, Diary!Retriable
      <3>2. s \in {"pending"} \cup Diary!Ended /\ s # "done" /\ (s = "pending" =>
                diaryAttempts[j] <= MaxDiaryRetries)
        BY DEF Diary!Ended
      <3>3. diarist[j] # "finishing" /\ diarist[j] \notin {"idle", "appending"}
        BY <2>7
      <3> HIDE DEF s
      <3> QED
        BY <3>1, <3>2, <3>3
    <2> QED
      BY <2>1, <2>2, <2>3, <2>4, <2>5, <2>6, <2>7 DEF Diary!StatusWritten
  <1>4. diaryAttempts[j] > 0 /\ diaryAttempts[j] <= MaxDiaryRetries + 1 + Mishaps
    BY <1>1, <1>3 DEF JobSound
  <1>5. n \in Nat /\ n <= diaryAttempts[j] /\ (s = "pending" => n <= MaxDiaryRetries + Mishaps)
    BY <1>2, <1>3, <1>4
  <1>6. diaryAttempts' = [diaryAttempts EXCEPT ![j] = n]
    BY <1>1
  <1> HIDE DEF n
  <1> QED
    BY <1>1, <1>3, <1>5, <1>6, SettledInv

LEMMA WriteRejectsInv ==
    ASSUME Diary!DiaryJobsAssumption, DiaryInv, NEW j \in DiaryRows, Diary!WriteRejects(j)
    PROVE  DiaryInv'
PROOF
  <1>1. /\ Diary!TypeOK /\ JobSound(j) /\ diaryRejects < MaxDiaryRejects
               /\ diaryRejects' = diaryRejects + 1
        /\ UNCHANGED <<diaryStatus, diaryAttempts, blank, Diary!fileVars, Diary!processVars,
             Diary!boundVars, diaryRedos>>
    BY DEF DiaryInv, Diary!WriteRejects
  <1>2. UNCHANGED <<diaryCrashes, diaryRestarts, diaryByHand, op, written, diarySwept,
                    diaryPhase>>
    BY <1>1 DEF Diary!fileVars, Diary!boundVars, Diary!processVars
  <1>3. /\ diaryAttempts[j] \in Nat /\ Mishaps \in Nat /\ MaxDiaryRetries \in Nat
               /\ diaryByHand \in Nat /\ diaryRejects \in Nat
        /\ written[j] \in Nat /\ diaryCrashes \in Nat /\ MaxDiaryRejects \in Nat
    BY <1>1, Numbers DEF Diary!DiaryJobsAssumption
  <1>4. diaryRejects' \in 0..MaxDiaryRejects /\ diaryRejects <= diaryRejects'
    BY <1>1, <1>3
  <1>5. Mishaps' = Mishaps + 1
    BY <1>1, <1>2, <1>3 DEF Mishaps
  <1>6. PICK s \in {"idle", "escaped"} :
          /\ diarist' = [diarist EXCEPT ![j] = s] /\ diarist[j] \notin {"idle", "appending"}
          /\ unwritten' \in SUBSET DiaryRows /\ unwritten \subseteq unwritten'
          /\ s = "idle" => j \in unwritten'
          /\ s = "idle" => diarist[j] # "finishing"
    BY <1>1, StagesAre DEF Diary!WriteRejects, Diary!GoesTo, Diary!TypeOK
  <1>7. s \in Diary!Stages /\ diarist'[j] = s
    BY <1>1, <1>6, StagesAre DEF Diary!TypeOK
  <1>8. "pending" \in {"pending", "processing"} \cup Diary!Ended
    OBVIOUS
  <1>9. /\ Diary!TypeOK'
        /\ \A k \in DiaryRows \ {j} : diaryStatus'[k] = diaryStatus[k]
                                          /\ diaryAttempts'[k] = diaryAttempts[k]
                                                 /\ diarist'[k] = diarist[k]
    BY <1>1, <1>2, <1>3, <1>4, <1>6, <1>7, <1>8, JobTypes DEF Diary!TypeOK
  <1>10. JobSound(j)'
    BY <1>1, <1>2, <1>3, <1>5, <1>6, <1>7 DEF JobSound
  <1> QED
    BY <1>1, <1>2, <1>3, <1>4, <1>6, <1>9, <1>10, JobStep

LEMMA RetryByHandInv ==
    ASSUME Diary!DiaryJobsAssumption, DiaryInv, NEW j \in DiaryRows, Diary!RetryByHand(j)
    PROVE  DiaryInv'
PROOF
  <1>1. /\ Diary!TypeOK /\ JobSound(j) /\ diaryPhase # "down"
               /\ diaryStatus[j] \in {"failed", "skipped"}
        /\ diaryByHand < MaxDiaryByHand /\ diaryByHand' = diaryByHand + 1
        /\ diaryStatus' = [diaryStatus EXCEPT ![j] = "pending"]
        /\ diaryAttempts' = [diaryAttempts EXCEPT ![j] = 0]
        /\ UNCHANGED <<diarist, unwritten, blank, Diary!fileVars, Diary!processVars,
             diaryCrashes, diaryRestarts, diaryRejects, diaryRedos>>
    BY DEF DiaryInv, Diary!RetryByHand, Diary!Becomes
  <1>2. UNCHANGED <<op, written, diarySwept, diaryPhase>>
    BY <1>1 DEF Diary!fileVars, Diary!processVars
  <1>3. /\ diaryAttempts[j] \in Nat /\ Mishaps \in Nat /\ MaxDiaryRetries \in Nat
               /\ diaryByHand \in Nat /\ diaryRejects \in Nat
        /\ written[j] \in Nat /\ MaxDiaryByHand \in Nat
    BY <1>1, Numbers DEF Diary!DiaryJobsAssumption
  <1>4. diaryByHand' \in 0..MaxDiaryByHand /\ diaryByHand <= diaryByHand'
    BY <1>1, <1>3
  <1>5. Mishaps' = Mishaps
    BY <1>1 DEF Mishaps
  <1>6. "idle" \in Diary!Stages /\ 0 \in Nat
    BY StagesAre
  <1>7. /\ Diary!TypeOK'
        /\ \A k \in DiaryRows \ {j} : diaryStatus'[k] = diaryStatus[k]
                                          /\ diaryAttempts'[k] = diaryAttempts[k]
                                                 /\ diarist'[k] = diarist[k]
    BY <1>1, <1>2, <1>4, <1>6, JobTypes DEF Diary!TypeOK
  <1>8. diaryStatus'[j] = "pending" /\ diaryAttempts'[j] = 0
    BY <1>1 DEF Diary!TypeOK
  <1>9. JobSound(j)'
    BY <1>1, <1>2, <1>3, <1>5, <1>8 DEF JobSound
  <1> QED
    BY <1>1, <1>2, <1>3, <1>4, <1>7, <1>9, JobStep

-----------------------------------------------------------------------------
\* The writer whose turn it is, and what nobody else does meanwhile.
LEMMA AtHead ==
    ASSUME Diary!TypeOK, Turns, NEW w \in Diary!Writers, Diary!MayRun(w)
    PROVE  /\ w # "direct" /\ tail # <<>> /\ tail \in Seq(Diary!Writers)
                  /\ Tail(tail) \in Seq(Diary!Writers)
           /\ \A i \in 1..Len(Tail(tail)) : Tail(tail)[i] # "direct"
           /\ \A v \in Diary!Writers : v # w /\ v # "direct" => op[v] \in {"none", "stat", "read"}
PROOF
  <1>1. tail \in Seq(Diary!Writers) /\ tail # <<>> /\ Head(tail) = w
    BY DEF Diary!TypeOK, Diary!MayRun
  <1>2. /\ Tail(tail) \in Seq(Diary!Writers)
        /\ \A i \in 1..Len(Tail(tail)) : i + 1 \in 1..Len(tail) /\ Tail(tail)[i] = tail[i + 1]
        /\ Head(tail) = tail[1] /\ 1 \in 1..Len(tail)
    BY <1>1
  <1>3. \A i \in 1..Len(tail) : tail[i] # "direct"
    BY DEF Turns
  <1>4. \A v \in Diary!Writers : v # w /\ v # "direct" => op[v] \in {"none", "stat", "read"}
    BY <1>1 DEF Turns, Diary!TypeOK
  <1> QED
    BY <1>1, <1>2, <1>3, <1>4

\* Only the two edits are ever between a read and the end of a write.
LEMMA MidEdits ==
    ASSUME Diary!DiaryJobsAssumption, Turns, NEW w \in Diary!Writers, op[w] \in {"replace",
             "fill"}
    PROVE  w \in {"editor", "direct"}
PROOF
  <1> QED
    BY DEF Turns, Diary!Writers

\* The step of the writer at the head keeps the turns.
LEMMA HeadStep ==
    ASSUME Diary!DiaryJobsAssumption, Diary!TypeOK, Turns, NEW w \in Diary!Writers,
             Diary!MayRun(w), op[w] # "none",
           NEW o \in {"none", "stat", "create", "append", "read", "replace", "fill"},
           op' = [op EXCEPT ![w] = o],
           \A i \in 1..Len(tail') : tail'[i] # "direct",
           o \in {"create", "append", "replace", "fill"} => UNCHANGED tail,
           w \in DiaryRows => o \in {"none", "stat", "create", "append"}, w = "editor" =>
               o # "append",
           o = "create" => ~exists', o \in {"append", "read", "replace", "fill"} => exists',
           exists => exists', ~exists' => written' = Diary!Nothing, UNCHANGED diaryPhase
    PROVE  Turns'
               /\ op' \in [Diary!Writers -> {"none", "stat", "create", "append", "read",
                    "replace", "fill"}]
PROOF
  <1>1. op \in [Diary!Writers -> {"none", "stat", "create", "append", "read", "replace", "fill"}]
    BY DEF Diary!TypeOK
  <1>2. op'[w] = o /\ \A v \in Diary!Writers : v # w => op'[v] = op[v]
    BY <1>1
  <1>3. /\ w # "direct" /\ \A v \in Diary!Writers : v # w /\ v # "direct" =>
               op[v] \in {"none", "stat", "read"}
        /\ tail # <<>> /\ Head(tail) = w
    BY AtHead DEF Diary!MayRun
  <1>4. "direct" \in Diary!Writers /\ "editor" \in Diary!Writers
            /\ \A j \in DiaryRows : j \in Diary!Writers
    BY DEF Diary!Writers
  <1>5. diaryPhase' # "down"
    BY DEF Turns
  <1>6. op'["direct"] = op["direct"] /\ op["direct"] \in {"none", "replace", "fill"}
    BY <1>2, <1>3, <1>4 DEF Turns
  <1>7. \A v \in Diary!Writers \ {"direct"} :
          op'[v] \in {"create", "append", "replace", "fill"} => tail' # <<>> /\ Head(tail') = v
    BY <1>2, <1>3
  <1>8. \A v \in Diary!Writers : op'[v] = "create" => ~exists'
    BY <1>2, <1>3, <1>6
  <1>9. \A v \in Diary!Writers : op'[v] \in {"append", "read", "replace", "fill"} => exists'
    BY <1>2 DEF Turns
  <1>10. op'["editor"] # "append"
             /\ \A j \in DiaryRows : op'[j] \in {"none", "stat", "create", "append"}
    BY <1>2, <1>4 DEF Turns
  <1>11. Turns'
    BY <1>5, <1>6, <1>7, <1>8, <1>9, <1>10 DEF Turns
  <1> QED
    BY <1>1, <1>11

\* So does a step of the edit that goes around the FIFO.
LEMMA DirectStep ==
    ASSUME Diary!DiaryJobsAssumption, Diary!TypeOK, Turns, NEW o \in {"none", "replace", "fill"},
           op' = [op EXCEPT !["direct"] = o], o # "none" => diaryPhase # "down",
           exists, UNCHANGED <<tail, exists, diaryPhase>>
    PROVE  Turns'
               /\ op' \in [Diary!Writers -> {"none", "stat", "create", "append", "read",
                    "replace", "fill"}]
PROOF
  <1>1. op \in [Diary!Writers -> {"none", "stat", "create", "append", "read", "replace", "fill"}]
    BY DEF Diary!TypeOK
  <1>2. "direct" \in Diary!Writers /\ "editor" \in Diary!Writers
            /\ \A j \in DiaryRows : j \in Diary!Writers /\ j # "direct"
    BY DEF Diary!Writers, Diary!DiaryJobsAssumption
  <1>3. op'["direct"] = o /\ \A v \in Diary!Writers : v # "direct" => op'[v] = op[v]
    BY <1>1, <1>2
  <1>4. \A v \in Diary!Writers : op'[v] # "create" \/ v # "direct"
    BY <1>3
  <1>5. \A v \in Diary!Writers : op'[v] = "create" => ~exists'
    BY <1>3, <1>4 DEF Turns
  <1>6. Turns'
    BY <1>2, <1>3, <1>5 DEF Turns
  <1> QED
    BY <1>1, <1>6

\* A step of the file that no job takes part in.
LEMMA FileStepInv ==
    ASSUME Diary!DiaryJobsAssumption, DiaryInv, Diary!TypeOK', Turns', Texts',
           UNCHANGED <<Diary!jobVars, blank, diaryPhase, Diary!boundVars, diaryRejects>>,
           \A j \in DiaryRows : (op'[j] # "none" => op[j] # "none") /\ written'[j] = written[j]
    PROVE  DiaryInv'
PROOF
  <1>1. Diary!TypeOK /\ Restarts /\ \A j \in DiaryRows : JobSound(j)
    BY DEF DiaryInv
  <1>2. UNCHANGED <<diaryStatus, diaryAttempts, diarist, unwritten, blank, diaryPhase,
                    diaryCrashes, diaryRestarts, diaryByHand, diaryRejects>>
    BY DEF Diary!jobVars, Diary!boundVars
  <1>3. Restarts'
    BY <1>1, <1>2 DEF Restarts
  <1>4. Mishaps' = Mishaps /\ Mishaps \in Nat /\ diaryByHand \in Nat
    BY <1>1, <1>2, Numbers DEF Mishaps
  <1>5. ASSUME NEW j \in DiaryRows PROVE JobSound(j)'
    BY <1>1, <1>2, <1>4, JobSame
  <1> QED
    BY <1>3, <1>5 DEF DiaryInv

\* Nothing is missing from the file while the head of the FIFO is not an edit under way
\* and overlaps none.
LEMMA NoneMissing ==
    ASSUME Diary!DiaryJobsAssumption, Diary!TypeOK, Turns, Texts, NEW w \in Diary!Writers,
             Diary!MayRun(w), ~Diary!Mid(w), ~Diary!Overlaps(w),
           ~tornFile, ~bypassed
    PROVE  file = written /\ \A v \in Diary!Writers : ~Diary!Mid(v)
PROOF
  <1>1. w # "direct" /\ \A v \in Diary!Writers : v # w /\ v # "direct" =>
            op[v] \in {"none", "stat", "read"}
    BY AtHead
  <1>2. ~Diary!Mid("direct")
    BY <1>1 DEF Diary!Overlaps
  <1>3. \A v \in Diary!Writers : ~Diary!Mid(v)
    BY <1>1, <1>2 DEF Diary!Mid
  <1>4. file = written
    BY <1>3 DEF Texts, Diary!Mid
  <1> QED
    BY <1>3, <1>4

LEMMA EnsureInv ==
    ASSUME Diary!DiaryJobsAssumption, DiaryInv, NEW w \in Diary!Writers, Diary!Ensure(w)
    PROVE  DiaryInv'
PROOF
  <1>1. /\ Diary!TypeOK /\ Turns /\ Texts /\ Diary!MayRun(w)
        /\ bypassed' = (bypassed \/ Diary!Overlaps(w)) /\ op[w] \in {"stat", "create"}
        /\ UNCHANGED <<snap, written, tornFile, Diary!jobVars, blank, Diary!processVars,
             Diary!boundVars, diaryRejects, diaryRedos>>
    BY DEF DiaryInv, Diary!Ensure
  <1>2. UNCHANGED <<diaryStatus, diaryAttempts, diarist, unwritten, diarySwept, diaryPhase,
                    diaryCrashes, diaryRestarts, diaryByHand>>
    BY <1>1 DEF Diary!jobVars, Diary!processVars, Diary!boundVars
  <1>3. /\ w # "direct" /\ tail # <<>> /\ tail \in Seq(Diary!Writers)
               /\ Tail(tail) \in Seq(Diary!Writers)
        /\ \A i \in 1..Len(Tail(tail)) : Tail(tail)[i] # "direct"
    BY <1>1, AtHead
  <1>4. w \in DiaryRows \/ w = "editor"
    BY <1>3 DEF Diary!Writers
  <1>5. "editor" \notin DiaryRows
    BY DEF Diary!DiaryJobsAssumption
  <1>6. PICK o \in {"create", "append", "read"} :
          /\ op' = [op EXCEPT ![w] = o]
          /\ tail' = IF o = "read" THEN Append(Tail(tail), w) ELSE tail
          /\ o = "read" <=> o # "create" /\ w = "editor"
          /\ IF op[w] = "create" THEN exists' /\ file' = Diary!Nothing ELSE exists' = exists
                 /\ file' = file
          /\ o = "create" <=> ~exists'
          /\ exists' \in BOOLEAN
    <2>1. CASE op[w] = "stat" /\ exists /\ Diary!Ensured(w) /\ UNCHANGED <<exists, file>>
      <3>1. CASE w = "editor"
        BY <1>1, <2>1, <3>1 DEF Diary!Ensured, Diary!Proceeds, Diary!TypeOK
      <3>2. CASE w # "editor"
        BY <1>1, <2>1, <3>2 DEF Diary!Ensured, Diary!Proceeds, Diary!TypeOK
      <3> QED
        BY <3>1, <3>2
    <2>2. CASE op[w] = "stat" /\ ~exists /\ Diary!Proceeds(w, "create")
                   /\ UNCHANGED <<exists, file, tail>>
      BY <1>1, <2>2 DEF Diary!Proceeds, Diary!TypeOK
    <2>3. CASE op[w] = "create" /\ exists' = TRUE /\ file' = Diary!Nothing /\ Diary!Ensured(w)
      <3>1. CASE w = "editor"
        BY <1>1, <2>3, <3>1 DEF Diary!Ensured, Diary!Proceeds, Diary!TypeOK
      <3>2. CASE w # "editor"
        BY <1>1, <2>3, <3>2 DEF Diary!Ensured, Diary!Proceeds, Diary!TypeOK
      <3> QED
        BY <3>1, <3>2
    <2> QED
      BY <2>1, <2>2, <2>3 DEF Diary!Ensure
  <1>7. tail' \in Seq(Diary!Writers) /\ \A i \in 1..Len(tail') : tail'[i] # "direct"
    <2>1. CASE o = "read"
      <3>1. tail' = Append(Tail(tail), w)
        BY <1>6, <2>1
      <3>2. /\ Append(Tail(tail), w) \in Seq(Diary!Writers)
            /\ \A i \in 1..Len(Append(Tail(tail), w)) : Append(Tail(tail), w)[i] # "direct"
        BY <1>3
      <3> QED
        BY <3>1, <3>2
    <2>2. CASE o # "read"
      BY <1>1, <1>3, <1>6, <2>2 DEF Turns
    <2> QED
      BY <2>1, <2>2
  <1>8. /\ o \in {"create", "append", "replace", "fill"} => UNCHANGED tail
        /\ w \in DiaryRows => o \in {"none", "stat", "create", "append"}
        /\ w = "editor" => o # "append"
        /\ o = "create" => ~exists'
        /\ o \in {"append", "read", "replace", "fill"} => exists'
        /\ exists => exists'
        /\ ~exists' => written' = Diary!Nothing
        /\ op[w] # "none" /\ op' = [op EXCEPT ![w] = o]
        /\ o \in {"none", "stat", "create", "append", "read", "replace", "fill"}
    <2>1. exists => exists'
      BY <1>6
    <2>2. ~exists' => written' = Diary!Nothing
      BY <1>1, <2>1 DEF Turns
    <2>3. o \in {"append", "read", "replace", "fill"} => exists'
      BY <1>6
    <2> QED
      BY <1>1, <1>4, <1>5, <1>6, <2>1, <2>2, <2>3
  <1>9. Turns'
            /\ op' \in [Diary!Writers -> {"none", "stat", "create", "append", "read", "replace",
                 "fill"}]
    BY <1>1, <1>2, <1>7, <1>8, HeadStep
  <1>10. file' \in [Diary!Writers -> Nat]
    <2>1. Diary!Nothing \in [Diary!Writers -> Nat]
      BY DEF Diary!Nothing
    <2>2. file \in [Diary!Writers -> Nat]
      BY <1>1 DEF Diary!TypeOK
    <2> QED
      BY <1>6, <2>1, <2>2
  <1>11. Diary!TypeOK'
    BY <1>1, <1>2, <1>6, <1>7, <1>9, <1>10 DEF Diary!TypeOK
  <1>12. Texts'
    <2>1. CASE tornFile' \/ bypassed'
      BY <2>1 DEF Texts
    <2>2. CASE ~tornFile' /\ ~bypassed'
      <3>1. ~tornFile /\ ~bypassed /\ ~Diary!Overlaps(w) /\ ~Diary!Mid(w)
        BY <1>1, <2>2 DEF Diary!Mid
      <3>2. file = written /\ \A v \in Diary!Writers : ~Diary!Mid(v)
        BY <1>1, <3>1, NoneMissing
      <3>3. file' = written'
        BY <1>1, <1>6, <3>2 DEF Turns
      <3>4. \A v \in Diary!Writers : ~Diary!Mid(v)'
        BY <1>1, <1>6, <3>2 DEF Diary!Mid, Diary!TypeOK
      <3>5. "editor" \in Diary!Writers
        BY DEF Diary!Writers
      <3> QED
        BY <3>3, <3>4, <3>5 DEF Texts
    <2> QED
      BY <2>1, <2>2
  <1>13. \A j \in DiaryRows : (op'[j] # "none" => op[j] # "none") /\ written'[j] = written[j]
    BY <1>1, <1>6 DEF Diary!TypeOK, Diary!Writers
  <1> QED
    BY <1>1, <1>2, <1>9, <1>11, <1>12, <1>13, FileStepInv

LEMMA AppendFileInv ==
    ASSUME Diary!DiaryJobsAssumption, DiaryInv, NEW j \in DiaryRows, Diary!AppendFile(j)
    PROVE  DiaryInv'
PROOF
  <1>1. /\ Diary!TypeOK /\ Restarts /\ Turns /\ Texts /\ Diary!MayRun(j) /\ op[j] = "append"
        /\ file' = [file EXCEPT ![j] = @ + 1]
        /\ written' = [written EXCEPT ![j] = @ + 1]
        /\ op' = [op EXCEPT ![j] = "none"]
        /\ diarist' = IF diarist[j] = "appending" THEN [diarist EXCEPT ![j] = "finishing"] ELSE diarist
        /\ bypassed' = (bypassed \/ Diary!Overlaps(j))
        /\ UNCHANGED <<exists, snap, tornFile, diaryStatus, diaryAttempts, unwritten, blank,
             Diary!processVars,
                       Diary!boundVars, diaryRejects, diaryRedos>>
    BY DEF DiaryInv, Diary!AppendFile, Diary!Settles, Diary!Proceeds
  <1>2. UNCHANGED <<diarySwept, diaryPhase, diaryCrashes, diaryRestarts, diaryByHand>>
    BY <1>1 DEF Diary!processVars, Diary!boundVars
  <1>3. j \in Diary!Writers /\ JobSound(j)
    BY DEF DiaryInv, Diary!Writers
  <1>4. /\ j # "direct" /\ tail \in Seq(Diary!Writers) /\ Tail(tail) \in Seq(Diary!Writers)
        /\ \A i \in 1..Len(Tail(tail)) : Tail(tail)[i] # "direct"
    BY <1>1, <1>3, AtHead
  <1>5. tail' = Tail(tail)
    BY <1>4 DEF Diary!AppendFile, Diary!Settles
  <1>6. exists
    BY <1>1, <1>3 DEF Turns
  <1>7. "editor" \notin DiaryRows
    BY DEF Diary!DiaryJobsAssumption
  <1>8. Turns'
            /\ op' \in [Diary!Writers -> {"none", "stat", "create", "append", "read", "replace",
                 "fill"}]
    <2>1. \A i \in 1..Len(tail') : tail'[i] # "direct"
      BY <1>4, <1>5
    <2> QED
      BY <1>1, <1>2, <1>3, <1>6, <1>7, <2>1, HeadStep
  <1>9. diarist[j] = "appending"
    BY <1>1, <1>3 DEF JobSound
  <1>10. diarist' = [diarist EXCEPT ![j] = "finishing"] /\ "finishing" \in Diary!Stages
    BY <1>1, <1>9, StagesAre
  <1>11. /\ written[j] \in Nat /\ written'[j] = written[j] + 1 /\ diarist'[j] = "finishing"
                /\ op'[j] = "none"
         /\ \A k \in DiaryRows : k # j =>
                                     written'[k] = written[k] /\ diarist'[k] = diarist[k]
                                         /\ op'[k] = op[k]
    BY <1>1, <1>3, <1>10 DEF Diary!TypeOK, Diary!Writers
  <1>12. Diary!TypeOK'
    <2>1. file' \in [Diary!Writers -> Nat] /\ written' \in [Diary!Writers -> Nat]
      BY <1>1, <1>3, SMTT(30) DEF Diary!TypeOK
    <2>2. diarist' \in [DiaryRows -> Diary!Stages]
      BY <1>1, <1>10 DEF Diary!TypeOK
    <2>3. bypassed' \in BOOLEAN
      BY <1>1 DEF Diary!TypeOK
    <2>4. tail' \in Seq(Diary!Writers)
      BY <1>4, <1>5
    <2> QED
      BY <1>1, <1>2, <1>8, <2>1, <2>2, <2>3, <2>4 DEF Diary!TypeOK
  <1>13. Texts'
    <2>1. CASE tornFile' \/ bypassed'
      BY <2>1 DEF Texts
    <2>2. CASE ~tornFile' /\ ~bypassed'
      <3>1. ~tornFile /\ ~bypassed /\ ~Diary!Overlaps(j) /\ ~Diary!Mid(j)
        BY <1>1, <2>2 DEF Diary!Mid
      <3>2. file = written /\ \A v \in Diary!Writers : ~Diary!Mid(v)
        BY <1>1, <1>3, <3>1, NoneMissing
      <3>3. file' = written'
        BY <1>1, <3>2
      <3>4. \A v \in Diary!Writers : ~Diary!Mid(v)'
        BY <1>1, <1>3, <3>2 DEF Diary!Mid, Diary!TypeOK
      <3>5. "editor" \in Diary!Writers
        BY DEF Diary!Writers
      <3> QED
        BY <3>3, <3>4, <3>5 DEF Texts
    <2> QED
      BY <2>1, <2>2
  <1>14. Restarts'
    BY <1>1, <1>2 DEF Restarts
  <1>15. Mishaps' = Mishaps /\ Mishaps \in Nat /\ diaryByHand \in Nat
    BY <1>1, <1>2, Numbers DEF Mishaps
  <1>16. ASSUME NEW k \in DiaryRows, k # j PROVE JobSound(k)'
    <2>1. JobSound(k)
      BY DEF DiaryInv
    <2> QED
      BY <1>1, <1>2, <1>11, <1>12, <1>15, <1>16, <2>1, JobSame
  <1>17. JobSound(j)'
    BY <1>1, <1>2, <1>3, <1>9, <1>11, <1>15 DEF JobSound
  <1> QED
    BY <1>8, <1>12, <1>13, <1>14, <1>16, <1>17 DEF DiaryInv

LEMMA WriteMemoryInv ==
    ASSUME Diary!DiaryJobsAssumption, DiaryInv, Diary!WriteMemory PROVE DiaryInv'
PROOF
  <1>1. /\ Diary!TypeOK /\ Turns /\ Texts /\ diaryPhase # "down" /\ op["editor"] = "none"
        /\ op' = [op EXCEPT !["editor"] = "stat"] /\ tail' = Append(tail, "editor")
        /\ UNCHANGED <<exists, file, snap, written, tornFile, bypassed, Diary!jobVars, blank,
             Diary!processVars,
                       Diary!boundVars, diaryRejects, diaryRedos>>
    BY DEF DiaryInv, Diary!WriteMemory, Diary!Proceeds
  <1>2. UNCHANGED <<diaryStatus, diaryAttempts, diarist, unwritten, diarySwept, diaryPhase,
                    diaryCrashes, diaryRestarts, diaryByHand>>
    BY <1>1 DEF Diary!jobVars, Diary!processVars, Diary!boundVars
  <1>3. "editor" \in Diary!Writers /\ "editor" \notin DiaryRows
            /\ \A j \in DiaryRows : j \in Diary!Writers
    BY DEF Diary!Writers, Diary!DiaryJobsAssumption
  <1>4. /\ Turns' /\ Texts'
        /\ op' \in [Diary!Writers -> {"none", "stat", "create", "append", "read", "replace",
             "fill"}]
        /\ tail' \in Seq(Diary!Writers)
    BY <1>1, <1>2, <1>3, EnqueueTurns
  <1>5. Diary!TypeOK'
    BY <1>1, <1>2, <1>4 DEF Diary!TypeOK
  <1>6. \A j \in DiaryRows : (op'[j] # "none" => op[j] # "none") /\ written'[j] = written[j]
    BY <1>1, <1>3 DEF Diary!TypeOK
  <1> QED
    BY <1>1, <1>2, <1>4, <1>5, <1>6, FileStepInv

LEMMA ReadFileInv ==
    ASSUME Diary!DiaryJobsAssumption, DiaryInv, NEW w \in {"editor", "direct"}, Diary!ReadFile(w)
    PROVE  DiaryInv'
PROOF
  <1>1. /\ Diary!TypeOK /\ Turns /\ Texts
        /\ snap' = [snap EXCEPT ![w] = file] /\ op' = [op EXCEPT ![w] = "replace"]
        /\ bypassed' = (bypassed \/ Diary!Overlaps(w))
        /\ UNCHANGED <<exists, file, tail, written, tornFile, Diary!jobVars, blank,
             Diary!processVars, Diary!boundVars,
                       diaryRejects, diaryRedos>>
    BY DEF DiaryInv, Diary!ReadFile, Diary!Proceeds
  <1>2. UNCHANGED <<diaryStatus, diaryAttempts, diarist, unwritten, diarySwept, diaryPhase,
                    diaryCrashes, diaryRestarts, diaryByHand>>
    BY <1>1 DEF Diary!jobVars, Diary!processVars, Diary!boundVars
  <1>3. /\ "editor" \in Diary!Writers /\ "direct" \in Diary!Writers
               /\ "editor" \notin DiaryRows /\ "direct" \notin DiaryRows
        /\ \A j \in DiaryRows : j \in Diary!Writers
    BY DEF Diary!Writers, Diary!DiaryJobsAssumption
  <1>4. w \in Diary!Writers /\ w \notin DiaryRows /\ ~Diary!Mid(w) /\ exists
    BY <1>1, <1>3 DEF Diary!ReadFile, Diary!Mid, Turns
  <1>5. Turns'
            /\ op' \in [Diary!Writers -> {"none", "stat", "create", "append", "read", "replace",
                 "fill"}]
    <2>1. CASE w = "direct"
      <3>1. diaryPhase # "down"
        BY <2>1 DEF Diary!ReadFile
      <3> QED
        BY <1>1, <1>2, <1>4, <2>1, <3>1, DirectStep
    <2>2. CASE w = "editor"
      <3>1. Diary!MayRun(w) /\ op[w] # "none"
        BY <2>2 DEF Diary!ReadFile
      <3>2. \A i \in 1..Len(tail') : tail'[i] # "direct"
        BY <1>1 DEF Turns
      <3> QED
        BY <1>1, <1>2, <1>4, <2>2, <3>1, <3>2, HeadStep
    <2> QED
      BY <2>1, <2>2
  <1>6. Diary!TypeOK'
    <2>1. snap' \in [Diary!Writers -> [Diary!Writers -> Nat]]
      BY <1>1, <1>4 DEF Diary!TypeOK
    <2>2. bypassed' \in BOOLEAN
      BY <1>1 DEF Diary!TypeOK
    <2> QED
      BY <1>1, <1>2, <1>5, <2>1, <2>2 DEF Diary!TypeOK
  <1>7. Texts'
    <2>1. CASE tornFile' \/ bypassed'
      BY <2>1 DEF Texts
    <2>2. CASE ~tornFile' /\ ~bypassed'
      <3>1. ~tornFile /\ ~bypassed /\ ~Diary!Overlaps(w)
        BY <1>1, <2>2
      <3>2. ~Diary!Mid("editor") /\ ~Diary!Mid("direct")
        BY <1>4, <3>1 DEF Diary!Overlaps
      <3>3. \A v \in Diary!Writers : ~Diary!Mid(v)
        BY <1>1, <3>2, MidEdits DEF Diary!Mid
      <3>4. file = written
        BY <1>1, <3>1, <3>3 DEF Texts, Diary!Mid
      <3>5. op'[w] = "replace" /\ \A v \in Diary!Writers : v # w => op'[v] = op[v]
        BY <1>1, <1>4 DEF Diary!TypeOK
      <3>6. \A v \in Diary!Writers : op'[v] \in {"replace", "fill"} => v = w
        BY <3>3, <3>5 DEF Diary!Mid
      <3>7. snap'[w] = written'
        BY <1>1, <1>4, <3>4 DEF Diary!TypeOK
      <3>8. \A v \in Diary!Writers : Diary!Mid(v)' => snap'[v] = written'
        BY <3>6, <3>7 DEF Diary!Mid
      <3>9. ~(Diary!Mid("editor")' /\ Diary!Mid("direct")')
        BY <1>3, <3>6 DEF Diary!Mid
      <3> QED
        BY <1>1, <3>4, <3>8, <3>9 DEF Texts
    <2> QED
      BY <2>1, <2>2
  <1>8. \A j \in DiaryRows : (op'[j] # "none" => op[j] # "none") /\ written'[j] = written[j]
    BY <1>1, <1>3, <1>4 DEF Diary!TypeOK
  <1> QED
    BY <1>1, <1>2, <1>5, <1>6, <1>7, <1>8, FileStepInv

\* An edit between its read and the end of its write, with the file its own.
LEMMA EditUnderWay ==
    ASSUME Diary!DiaryJobsAssumption, Diary!TypeOK, Turns, Texts, NEW w \in Diary!Writers,
             Diary!Mid(w), ~Diary!Overlaps(w), ~tornFile, ~bypassed
    PROVE  snap[w] = written /\ \A v \in Diary!Writers : Diary!Mid(v) => v = w
PROOF
  <1>1. w \in {"editor", "direct"}
    BY MidEdits DEF Diary!Mid
  <1>2. \A v \in {"editor", "direct"} : Diary!Mid(v) => v = w
    BY <1>1 DEF Diary!Overlaps
  <1>3. \A v \in Diary!Writers : Diary!Mid(v) => v = w
    BY <1>2, MidEdits DEF Diary!Mid
  <1> QED
    BY <1>3 DEF Texts

LEMMA WriteFileInv ==
    ASSUME Diary!DiaryJobsAssumption, DiaryInv, NEW w \in Diary!Writers, Diary!WriteFile(w)
    PROVE  DiaryInv'
PROOF
  <1>1. /\ Diary!TypeOK /\ Turns /\ Texts /\ op[w] \in {"replace", "fill"}
        /\ bypassed' = (bypassed \/ Diary!Overlaps(w))
        /\ UNCHANGED <<exists, tornFile, Diary!jobVars, blank, Diary!processVars,
             Diary!boundVars, diaryRejects, diaryRedos>>
    BY DEF DiaryInv, Diary!WriteFile
  <1>2. UNCHANGED <<diaryStatus, diaryAttempts, diarist, unwritten, diarySwept, diaryPhase,
                    diaryCrashes, diaryRestarts, diaryByHand>>
    BY <1>1 DEF Diary!jobVars, Diary!processVars, Diary!boundVars
  <1>3. /\ "editor" \in Diary!Writers /\ "direct" \in Diary!Writers
               /\ "editor" \notin DiaryRows /\ "direct" \notin DiaryRows
        /\ \A j \in DiaryRows : j \in Diary!Writers
    BY DEF Diary!Writers, Diary!DiaryJobsAssumption
  <1>4. w \in {"editor", "direct"} /\ w \notin DiaryRows /\ exists /\ diaryPhase # "down"
            /\ Diary!Mid(w)
    BY <1>1, <1>3, MidEdits DEF Turns, Diary!Mid
  <1>5. w # "direct" => Diary!MayRun(w)
    BY <1>1 DEF Diary!MayRun, Turns
  <1>6. CASE op[w] = "replace" /\ file' = Diary!Nothing /\ op' = [op EXCEPT ![w] = "fill"]
                 /\ UNCHANGED <<tail, snap, written>>
    <2>1. Turns'
              /\ op' \in [Diary!Writers -> {"none", "stat", "create", "append", "read",
                   "replace", "fill"}]
      <3>1. CASE w = "direct"
        BY <1>1, <1>2, <1>4, <1>6, <3>1, DirectStep
      <3>2. CASE w = "editor"
        <4>1. \A i \in 1..Len(tail') : tail'[i] # "direct"
          BY <1>1, <1>6 DEF Turns
        <4> QED
          BY <1>1, <1>2, <1>4, <1>5, <1>6, <3>2, <4>1, HeadStep
      <3> QED
        BY <1>4, <3>1, <3>2
    <2>2. Diary!TypeOK'
      <3>1. file' \in [Diary!Writers -> Nat]
        BY <1>6 DEF Diary!Nothing
      <3>2. bypassed' \in BOOLEAN
        BY <1>1 DEF Diary!TypeOK
      <3> QED
        BY <1>1, <1>2, <1>6, <2>1, <3>1, <3>2 DEF Diary!TypeOK
    <2>3. op'[w] = "fill" /\ \A v \in Diary!Writers : v # w => op'[v] = op[v]
      BY <1>1, <1>6 DEF Diary!TypeOK
    <2>4. Texts'
      <3>1. CASE tornFile' \/ bypassed'
        BY <3>1 DEF Texts
      <3>2. CASE ~tornFile' /\ ~bypassed'
        <4>1. snap[w] = written /\ \A v \in Diary!Writers : Diary!Mid(v) => v = w
          BY <1>1, <1>4, <3>2, EditUnderWay
        <4>2. \A v \in Diary!Writers : Diary!Mid(v)' => v = w
          BY <2>3, <4>1 DEF Diary!Mid
        <4> QED
          BY <1>3, <1>6, <2>3, <4>1, <4>2 DEF Texts
      <3> QED
        BY <3>1, <3>2
    <2>5. \A j \in DiaryRows : (op'[j] # "none" => op[j] # "none") /\ written'[j] = written[j]
      BY <1>3, <1>4, <1>6, <2>3
    <2> QED
      BY <1>1, <1>2, <2>1, <2>2, <2>4, <2>5, FileStepInv
  <1>7. CASE /\ op[w] = "fill" /\ file' = [snap[w] EXCEPT ![w] = @ + 1]
                    /\ snap' = [snap EXCEPT ![w] = Diary!Nothing]
             /\ written' = [written EXCEPT ![w] = @ + 1] /\ Diary!Settles(w)
    <2>1. op' = [op EXCEPT ![w] = "none"] /\ tail' = IF w = "direct" THEN tail ELSE Tail(tail)
      BY <1>7 DEF Diary!Settles, Diary!Proceeds
    <2>2. tail' \in Seq(Diary!Writers) /\ \A i \in 1..Len(tail') : tail'[i] # "direct"
      <3>1. CASE w = "direct"
        BY <1>1, <2>1, <3>1 DEF Diary!TypeOK, Turns
      <3>2. CASE w # "direct"
        BY <1>1, <1>5, <2>1, <3>2, AtHead
      <3> QED
        BY <3>1, <3>2
    <2>3. Turns'
              /\ op' \in [Diary!Writers -> {"none", "stat", "create", "append", "read",
                   "replace", "fill"}]
      <3>1. CASE w = "direct"
        BY <1>1, <1>2, <1>4, <2>1, <3>1, DirectStep
      <3>2. CASE w = "editor"
        BY <1>1, <1>2, <1>4, <1>5, <2>1, <2>2, <3>2, HeadStep
      <3> QED
        BY <1>4, <3>1, <3>2
    <2>4. Diary!TypeOK'
      <3>1. Diary!Nothing \in [Diary!Writers -> Nat]
        BY DEF Diary!Nothing
      <3>2. snap[w] \in [Diary!Writers -> Nat]
                /\ snap' \in [Diary!Writers -> [Diary!Writers -> Nat]]
        BY <1>1, <1>7, <3>1 DEF Diary!TypeOK
      <3>3. file' \in [Diary!Writers -> Nat] /\ written' \in [Diary!Writers -> Nat]
        BY <1>1, <1>7, <3>2 DEF Diary!TypeOK
      <3>4. bypassed' \in BOOLEAN
        BY <1>1 DEF Diary!TypeOK
      <3> QED
        BY <1>1, <1>2, <2>2, <2>3, <3>2, <3>3, <3>4 DEF Diary!TypeOK
    <2>5. op'[w] = "none" /\ \A v \in Diary!Writers : v # w => op'[v] = op[v]
      BY <1>1, <2>1 DEF Diary!TypeOK
    <2>6. Texts'
      <3>1. CASE tornFile' \/ bypassed'
        BY <3>1 DEF Texts
      <3>2. CASE ~tornFile' /\ ~bypassed'
        <4>1. snap[w] = written /\ \A v \in Diary!Writers : Diary!Mid(v) => v = w
          BY <1>1, <1>4, <3>2, EditUnderWay
        <4>2. \A v \in Diary!Writers : ~Diary!Mid(v)'
          BY <2>5, <4>1 DEF Diary!Mid
        <4>3. file' = written'
          BY <1>7, <4>1
        <4> QED
          BY <1>3, <4>2, <4>3 DEF Texts
      <3> QED
        BY <3>1, <3>2
    <2>7. \A j \in DiaryRows : (op'[j] # "none" => op[j] # "none") /\ written'[j] = written[j]
      BY <1>1, <1>3, <1>4, <1>7, <2>5 DEF Diary!TypeOK
    <2> QED
      BY <1>1, <1>2, <2>3, <2>4, <2>6, <2>7, FileStepInv
  <1> QED
    BY <1>6, <1>7 DEF Diary!WriteFile, Diary!Proceeds

LEMMA FileRejectsInv ==
    ASSUME Diary!DiaryJobsAssumption, DiaryInv, NEW w \in Diary!Writers, Diary!FileRejects(w)
    PROVE  DiaryInv'
PROOF
  <1>1. /\ Diary!TypeOK /\ Restarts /\ Turns /\ Texts /\ op[w] # "none"
               /\ diaryRejects < MaxDiaryRejects /\ diaryRejects' = diaryRejects + 1
        /\ tornFile' = (tornFile \/ op[w] = "fill")
        /\ snap' = [snap EXCEPT ![w] = Diary!Nothing]
        /\ diarist' = IF w \in DiaryRows
               /\ diarist[w] = "appending" THEN [diarist EXCEPT ![w] = "escaped"] ELSE diarist
        /\ op' = [op EXCEPT ![w] = "none"] /\ tail' = IF w = "direct" THEN tail ELSE Tail(tail)
        /\ UNCHANGED <<exists, file, written, bypassed, diaryStatus, diaryAttempts, unwritten,
             blank,
                       Diary!processVars, Diary!boundVars, diaryRedos>>
    BY DEF DiaryInv, Diary!FileRejects, Diary!Settles, Diary!Proceeds
  <1>2. UNCHANGED <<diarySwept, diaryPhase, diaryCrashes, diaryRestarts, diaryByHand>>
    BY <1>1 DEF Diary!processVars, Diary!boundVars
  <1>3. w # "direct" => Diary!MayRun(w)
    BY DEF Diary!FileRejects
  <1>4. tail' \in Seq(Diary!Writers) /\ \A i \in 1..Len(tail') : tail'[i] # "direct"
    <2>1. CASE w = "direct"
      BY <1>1, <2>1 DEF Diary!TypeOK, Turns
    <2>2. CASE w # "direct"
      BY <1>1, <1>3, <2>2, AtHead
    <2> QED
      BY <2>1, <2>2
  <1>5. Turns'
            /\ op' \in [Diary!Writers -> {"none", "stat", "create", "append", "read", "replace",
                 "fill"}]
    <2>1. CASE w = "direct"
      <3>1. exists
        BY <1>1, <2>1 DEF Turns
      <3> QED
        BY <1>1, <1>2, <2>1, <3>1, DirectStep
    <2>2. CASE w # "direct"
      <3>1. ~exists' => written' = Diary!Nothing
        BY <1>1 DEF Turns
      <3> QED
        BY <1>1, <1>2, <1>3, <1>4, <2>2, <3>1, HeadStep
    <2> QED
      BY <2>1, <2>2
  <1>6. op'[w] = "none" /\ \A v \in Diary!Writers : v # w => op'[v] = op[v]
    BY <1>1 DEF Diary!TypeOK
  <1>7. /\ diaryRejects \in Nat /\ MaxDiaryRejects \in Nat /\ diaryCrashes \in Nat
               /\ diaryByHand \in Nat /\ MaxDiaryRetries \in Nat
        /\ Mishaps \in Nat /\ \A j \in DiaryRows : written[j] \in Nat /\ diaryAttempts[j] \in Nat
    BY <1>1, Numbers DEF Diary!DiaryJobsAssumption
  <1>8. Diary!TypeOK'
    <2>1. Diary!Nothing \in [Diary!Writers -> Nat]
      BY DEF Diary!Nothing
    <2>2. snap' \in [Diary!Writers -> [Diary!Writers -> Nat]]
      BY <1>1, <2>1 DEF Diary!TypeOK
    <2>3. diarist' \in [DiaryRows -> Diary!Stages]
      BY <1>1, StagesAre DEF Diary!TypeOK
    <2>4. diaryRejects' \in 0..MaxDiaryRejects
      BY <1>1, <1>7
    <2>5. tornFile' \in BOOLEAN
      BY <1>1 DEF Diary!TypeOK
    <2> QED
      BY <1>1, <1>2, <1>4, <1>5, <2>2, <2>3, <2>4, <2>5 DEF Diary!TypeOK
  <1>9. Texts'
    <2>1. CASE tornFile' \/ bypassed'
      BY <2>1 DEF Texts
    <2>2. CASE ~tornFile' /\ ~bypassed'
      <3>1. ~tornFile /\ ~bypassed /\ op[w] # "fill"
        BY <1>1, <2>2
      <3>2. /\ ~(Diary!Mid("editor") /\ Diary!Mid("direct"))
            /\ \A v \in Diary!Writers : Diary!Mid(v) => snap[v] = written
            /\ (\E v \in Diary!Writers : op[v] = "fill") \/ file = written
        BY <1>1, <3>1 DEF Texts
      <3>3. \A v \in Diary!Writers : Diary!Mid(v)' => v # w /\ Diary!Mid(v)
        BY <1>6 DEF Diary!Mid
      <3>4. \A v \in Diary!Writers : Diary!Mid(v)' => snap'[v] = written'
        BY <1>1, <3>2, <3>3 DEF Diary!TypeOK
      <3>5. (\E v \in Diary!Writers : op'[v] = "fill") \/ file' = written'
        BY <1>1, <1>6, <3>1, <3>2
      <3>6. ~(Diary!Mid("editor")' /\ Diary!Mid("direct")')
        BY <3>2, <3>3 DEF Diary!Writers
      <3> QED
        BY <3>4, <3>5, <3>6 DEF Texts
    <2> QED
      BY <2>1, <2>2
  <1>10. Restarts'
    BY <1>1, <1>2 DEF Restarts
  <1>11. Mishaps' = Mishaps + 1
    BY <1>1, <1>2, <1>7 DEF Mishaps
  <1>12. ASSUME NEW j \in DiaryRows PROVE JobSound(j)'
    <2>1. JobSound(j) /\ j \in Diary!Writers
      BY DEF DiaryInv, Diary!Writers
    <2>2. CASE j # w
      <3>1. diarist'[j] = diarist[j]
        BY <1>1, <2>2 DEF Diary!TypeOK
      <3> QED
        BY <1>1, <1>2, <1>6, <1>7, <1>8, <1>11, <2>1, <2>2, <3>1, JobSame
    <2>3. CASE j = w
      <3>1. diarist[j] = "appending" /\ diarist'[j] = "escaped" /\ op'[j] = "none"
        BY <1>1, <1>6, <2>1, <2>3 DEF JobSound, Diary!TypeOK
      <3> QED
        BY <1>1, <1>2, <1>7, <1>11, <2>1, <3>1 DEF JobSound
    <2> QED
      BY <2>2, <2>3
  <1> QED
    BY <1>5, <1>8, <1>9, <1>10, <1>12 DEF DiaryInv

-----------------------------------------------------------------------------
LEMMA StopInv ==
    ASSUME Diary!DiaryJobsAssumption, DiaryInv, Diary!Stop PROVE DiaryInv'
PROOF
  <1>1. /\ Diary!TypeOK /\ Restarts /\ Turns /\ Texts /\ diaryPhase = "running"
               /\ diaryPhase' = "stopping"
        /\ diarySwept' = {j \in DiaryRows : diarist[j] = "running"}
        /\ UNCHANGED <<Diary!jobVars, blank, Diary!fileVars, Diary!boundVars, diaryRejects,
             diaryRedos>>
    BY DEF DiaryInv, Diary!Stop, Diary!Running
  <1>2. /\ UNCHANGED <<diaryStatus, diaryAttempts, diarist, unwritten, diaryCrashes,
             diaryRestarts, diaryByHand>>
        /\ UNCHANGED <<exists, file, op, tail, snap, written, tornFile, bypassed>>
    BY <1>1 DEF Diary!jobVars, Diary!boundVars, Diary!fileVars
  <1>3. Diary!TypeOK'
    BY <1>1, <1>2 DEF Diary!TypeOK
  <1>4. Turns' /\ Texts'
    BY <1>1, FileSame
  <1>5. Restarts'
    BY <1>1, <1>2 DEF Restarts
  <1>6. Mishaps' = Mishaps /\ Mishaps \in Nat /\ diaryByHand \in Nat
    BY <1>1, <1>2, Numbers DEF Mishaps
  <1>7. ASSUME NEW j \in DiaryRows PROVE JobSound(j)'
    <2>1. JobSound(j)
      BY DEF DiaryInv
    <2> QED
      BY <1>1, <1>2, <1>3, <1>6, <2>1, JobSame
  <1> QED
    BY <1>3, <1>4, <1>5, <1>7 DEF DiaryInv

\* The process ends: whoever was at work counts the crash as a mishap.
LEMMA ExitInv ==
    ASSUME Diary!DiaryJobsAssumption, DiaryInv, Diary!Exit PROVE DiaryInv'
PROOF
  <1>1. /\ Diary!TypeOK /\ Restarts /\ Turns /\ Texts /\ diaryPhase # "down"
               /\ diaryRestarts < MaxDiaryRestarts
        /\ diaryPhase' = "down"
        /\ diaryCrashes' = IF Diary!Busy = {} THEN diaryCrashes ELSE diaryCrashes + 1
        /\ diarist' = [j \in DiaryRows |-> "idle"] /\ diarySwept' = {}
        /\ tornFile' = (tornFile \/ \E w \in Diary!Writers : op[w] = "fill")
        /\ op' = [w \in Diary!Writers |-> "none"]
        /\ tail' = <<>> /\ snap' = [w \in Diary!Writers |-> Diary!Nothing]
        /\ UNCHANGED <<diaryStatus, diaryAttempts, unwritten, blank, exists, file, written,
             bypassed,
                       diaryRestarts, diaryByHand, diaryRejects, diaryRedos>>
    BY DEF DiaryInv, Diary!Exit
  <1>2. /\ diaryCrashes \in Nat /\ diaryRestarts \in Nat /\ diaryRejects \in Nat
               /\ diaryByHand \in Nat /\ MaxDiaryRestarts \in Nat
        /\ Mishaps \in Nat /\ MaxDiaryRetries \in Nat
               /\ \A j \in DiaryRows : written[j] \in Nat /\ diaryAttempts[j] \in Nat
    BY <1>1, Numbers DEF Diary!DiaryJobsAssumption
  <1>3. diaryCrashes' \in 0..MaxDiaryRestarts /\ diaryCrashes <= diaryCrashes'
            /\ diaryCrashes' <= diaryRestarts + 1
    BY <1>1, <1>2 DEF Restarts
  <1>4. Diary!TypeOK'
    <2>1. diarist' \in [DiaryRows -> Diary!Stages]
      BY <1>1, StagesAre
    <2>2. op' \in [Diary!Writers -> {"none", "stat", "create", "append", "read", "replace",
            "fill"}]
      BY <1>1
    <2>3. tail' \in Seq(Diary!Writers)
      BY <1>1
    <2>4. snap' \in [Diary!Writers -> [Diary!Writers -> Nat]]
      <3>1. Diary!Nothing \in [Diary!Writers -> Nat]
        BY DEF Diary!Nothing
      <3> QED
        BY <1>1, <3>1
    <2>5. tornFile' \in BOOLEAN
      BY <1>1 DEF Diary!TypeOK
    <2> QED
      BY <1>1, <1>3, <2>1, <2>2, <2>3, <2>4, <2>5 DEF Diary!TypeOK
  <1>5. Restarts'
    BY <1>1, <1>3 DEF Restarts
  <1>6. \A w \in Diary!Writers : op'[w] = "none"
    BY <1>1
  <1>7. "editor" \in Diary!Writers /\ "direct" \in Diary!Writers
            /\ \A j \in DiaryRows : j \in Diary!Writers
    BY DEF Diary!Writers
  <1>8. Turns'
    BY <1>1, <1>6, <1>7 DEF Turns
  <1>9. Texts'
    <2>1. \A w \in Diary!Writers : ~Diary!Mid(w)'
      BY <1>6 DEF Diary!Mid
    <2>2. tornFile' \/ bypassed' \/ file' = written'
      BY <1>1 DEF Texts
    <2> QED
      BY <1>7, <2>1, <2>2 DEF Texts
  <1>10. ASSUME NEW j \in DiaryRows PROVE JobSound(j)'
    <2>1. JobSound(j) /\ diarist'[j] = "idle" /\ op'[j] = "none"
      BY <1>1, <1>6, <1>7 DEF DiaryInv
    <2>2. Mishaps' \in Nat /\ Mishaps <= Mishaps' /\ (diarist[j] # "idle" =>
              Mishaps' = Mishaps + 1)
      <3>1. diarist[j] # "idle" => diaryCrashes' = diaryCrashes + 1
        BY <1>1 DEF Diary!Busy
      <3>2. diaryCrashes' \in Nat /\ diaryCrashes <= diaryCrashes' /\ diaryRejects' = diaryRejects
        BY <1>1, <1>2, <1>3
      <3>3. diaryCrashes' + diaryRejects \in Nat
                /\ diaryCrashes + diaryRejects <= diaryCrashes' + diaryRejects
        BY <1>2, <3>2, Sums
      <3>4. ASSUME diarist[j] # "idle"
            PROVE  diaryCrashes' + diaryRejects = diaryCrashes + diaryRejects + 1
        <4>1. diaryCrashes' = diaryCrashes + 1
          BY <3>1, <3>4
        <4>2. (diaryCrashes + 1) + diaryRejects = diaryCrashes + diaryRejects + 1
          BY <1>2
        <4> QED
          BY <4>1, <4>2, Zenon
      <3>5. Mishaps' = diaryCrashes' + diaryRejects
        BY <3>2, Zenon DEF Mishaps
      <3>6. Mishaps = diaryCrashes + diaryRejects
        BY DEF Mishaps
      <3> QED
        BY <3>3, <3>4, <3>5, <3>6, Zenon
    <2>3. UNCHANGED <<diaryStatus, diaryAttempts, blank, written, unwritten, diaryByHand>>
                        /\ diaryPhase' = "down"
      BY <1>1
    <2>4. CASE diarist[j] = "idle"
      BY <1>2, <2>1, <2>2, <2>3, <2>4 DEF JobSound
    <2>5. CASE diarist[j] # "idle"
      <3>1. /\ diaryStatus[j] = "processing" /\ Mishaps' = Mishaps + 1
            /\ written[j] <= 1 + Mishaps + diaryByHand
                   /\ diaryAttempts[j] <= MaxDiaryRetries + 1 + Mishaps
        BY <2>1, <2>2, <2>5 DEF JobSound
      <3>2. /\ written[j] <= Mishaps' + diaryByHand /\ written[j] <= 1 + Mishaps' + diaryByHand
            /\ diaryAttempts[j] <= MaxDiaryRetries + Mishaps'
                   /\ diaryAttempts[j] <= MaxDiaryRetries + 1 + Mishaps'
        BY <1>2, <2>2, <3>1
      <3> QED
        BY <2>1, <2>3, <3>1, <3>2 DEF JobSound
    <2> QED
      BY <2>4, <2>5
  <1> QED
    BY <1>4, <1>5, <1>8, <1>9, <1>10 DEF DiaryInv

\* The next start has every job that was being processed pending again.
LEMMA StartInv ==
    ASSUME Diary!DiaryJobsAssumption, DiaryInv, Diary!Start PROVE DiaryInv'
PROOF
  <1>1. /\ Diary!TypeOK /\ Restarts /\ Turns /\ Texts /\ diaryPhase = "down"
               /\ diaryPhase' = "running"
        /\ diaryRestarts' = diaryRestarts + 1
        /\ diaryStatus' = [j \in
               DiaryRows |-> IF diaryStatus[j] = "processing" THEN "pending" ELSE diaryStatus[j]]
        /\ unwritten' = {}
        /\ UNCHANGED <<diaryAttempts, diarist, blank, Diary!fileVars, diarySwept, diaryCrashes,
             diaryByHand, diaryRejects, diaryRedos>>
    BY DEF DiaryInv, Diary!Start
  <1>2. /\ diaryCrashes \in Nat /\ diaryRestarts \in Nat /\ diaryRejects \in Nat
               /\ diaryByHand \in Nat /\ MaxDiaryRestarts \in Nat
        /\ Mishaps \in Nat /\ MaxDiaryRetries \in Nat
               /\ \A j \in DiaryRows : written[j] \in Nat /\ diaryAttempts[j] \in Nat
    BY <1>1, Numbers DEF Diary!DiaryJobsAssumption
  <1>3. diaryRestarts' \in 0..MaxDiaryRestarts /\ diaryCrashes' <= diaryRestarts'
    BY <1>1, <1>2 DEF Restarts
  <1>4. UNCHANGED <<exists, file, op, tail, snap, written, tornFile, bypassed>>
    BY <1>1 DEF Diary!fileVars
  <1>5. Diary!TypeOK'
    <2>1. diaryStatus' \in [DiaryRows -> {"pending", "processing"} \cup Diary!Ended]
      BY <1>1 DEF Diary!TypeOK
    <2> QED
      BY <1>1, <1>3, <1>4, <2>1 DEF Diary!TypeOK
  <1>6. Turns' /\ Texts'
    BY <1>1, FileSame
  <1>7. Restarts'
    BY <1>1, <1>3 DEF Restarts
  <1>8. Mishaps' = Mishaps
    BY <1>1 DEF Mishaps
  <1>9. ASSUME NEW j \in DiaryRows PROVE JobSound(j)'
    <2>1. JobSound(j) /\ diarist[j] = "idle"
      BY <1>1 DEF DiaryInv, JobSound
    <2>2. diaryStatus'[j] = IF diaryStatus[j] = "processing" THEN "pending" ELSE diaryStatus[j]
      BY <1>1
    <2> QED
      BY <1>1, <1>2, <1>4, <1>8, <2>1, <2>2 DEF JobSound
  <1> QED
    BY <1>5, <1>6, <1>7, <1>9 DEF DiaryInv

LEMMA DiaryInit ==
    ASSUME Diary!DiaryJobsAssumption, Diary!Init PROVE DiaryInv
PROOF
  <1>1. /\ diaryStatus = [j \in DiaryRows |-> "pending"]
               /\ diaryAttempts = [j \in DiaryRows |-> 0]
        /\ diarist = [j \in DiaryRows |-> "idle"] /\ diarySwept = {} /\ diaryPhase = "running"
        /\ exists = FALSE /\ file = Diary!Nothing
        /\ op = [w \in Diary!Writers |-> "none"] /\ tail = <<>>
        /\ snap = [w \in Diary!Writers |-> Diary!Nothing] /\ written = Diary!Nothing
        /\ blank = {} /\ unwritten = {} /\ tornFile = FALSE /\ bypassed = FALSE
        /\ diaryRejects = 0 /\ diaryCrashes = 0 /\ diaryRestarts = 0 /\ diaryByHand = 0
               /\ diaryRedos = 0
    BY DEF Diary!Init
  <1>2. /\ MaxDiaryRejects \in Nat /\ MaxDiaryRestarts \in Nat /\ MaxDiaryByHand \in Nat
               /\ MaxDiaryRedos \in Nat
        /\ MaxDiaryRetries \in Nat
    BY DEF Diary!DiaryJobsAssumption
  <1>3. Diary!Nothing \in [Diary!Writers -> Nat]
    BY DEF Diary!Nothing
  <1>4. "editor" \in Diary!Writers /\ "direct" \in Diary!Writers
            /\ \A j \in DiaryRows : j \in Diary!Writers
    BY DEF Diary!Writers
  <1>5. Diary!TypeOK
    <2>1. /\ diaryStatus \in [DiaryRows -> {"pending", "processing"} \cup Diary!Ended]
          /\ diaryAttempts \in [DiaryRows -> Nat]
      BY <1>1
    <2>2. diarist \in [DiaryRows -> Diary!Stages]
      BY <1>1, StagesAre
    <2>3. /\ diaryRejects \in 0..MaxDiaryRejects /\ diaryRedos \in 0..MaxDiaryRedos
                 /\ diaryCrashes \in 0..MaxDiaryRestarts
          /\ diaryRestarts \in 0..MaxDiaryRestarts /\ diaryByHand \in 0..MaxDiaryByHand
      BY <1>1, <1>2
    <2>4. snap \in [Diary!Writers -> [Diary!Writers -> Nat]]
              /\ file \in [Diary!Writers -> Nat] /\ written \in [Diary!Writers -> Nat]
      BY <1>1, <1>3
    <2>5. op \in [Diary!Writers -> {"none", "stat", "create", "append", "read", "replace",
            "fill"}]
      BY <1>1
    <2>6. tail \in Seq(Diary!Writers) /\ diarySwept \in SUBSET DiaryRows
              /\ blank \in SUBSET DiaryRows /\ unwritten \in SUBSET DiaryRows
      BY <1>1
    <2>7. exists \in BOOLEAN /\ tornFile \in BOOLEAN /\ bypassed \in BOOLEAN
      BY <1>1
    <2> QED
      BY <1>1, <2>1, <2>2, <2>3, <2>4, <2>5, <2>6, <2>7 DEF Diary!TypeOK
  <1>6. Restarts
    BY <1>1 DEF Restarts
  <1>7. \A w \in Diary!Writers : op[w] = "none"
    BY <1>1
  <1>8. Turns
    BY <1>1, <1>4, <1>7 DEF Turns
  <1>9. Texts
    BY <1>1, <1>4, <1>7 DEF Texts, Diary!Mid
  <1>10. ASSUME NEW j \in DiaryRows PROVE JobSound(j)
    <2>1. /\ diaryStatus[j] = "pending" /\ diaryAttempts[j] = 0 /\ diarist[j] = "idle"
                 /\ op[j] = "none" /\ written[j] = 0
      BY <1>1, <1>4, <1>7 DEF Diary!Nothing
    <2>2. Mishaps = 0
      BY <1>1 DEF Mishaps
    <2> QED
      BY <1>1, <1>2, <2>1, <2>2 DEF JobSound
  <1> QED
    BY <1>5, <1>6, <1>8, <1>9, <1>10 DEF DiaryInv

LEMMA StutterInv ==
    ASSUME DiaryInv, UNCHANGED Diary!vars PROVE DiaryInv'
PROOF
  <1>1. /\ UNCHANGED <<diaryStatus, diaryAttempts, diarist, diarySwept, diaryPhase, exists,
             file, op, tail, snap, written, blank,
                       unwritten, tornFile, bypassed, diaryRejects, diaryCrashes, diaryRestarts,
                         diaryByHand, diaryRedos>>
        /\ Diary!TypeOK /\ Restarts /\ Turns /\ Texts
    BY DEF Diary!vars, DiaryInv
  <1>2. Diary!TypeOK'
    BY <1>1 DEF Diary!TypeOK
  <1>3. Restarts'
    BY <1>1 DEF Restarts
  <1>4. Turns'
    BY <1>1 DEF Turns
  <1>5. Texts'
    BY <1>1 DEF Texts, Diary!Mid
  <1>6. ASSUME NEW j \in DiaryRows PROVE JobSound(j)'
    <2>1. JobSound(j)
      BY DEF DiaryInv
    <2> QED
      BY <1>1, <2>1 DEF JobSound, Mishaps
  <1> QED
    BY <1>2, <1>3, <1>4, <1>5, <1>6 DEF DiaryInv

\* Every step keeps the invariant.
LEMMA DiaryStep ==
    ASSUME Diary!DiaryJobsAssumption, DiaryInv, [Diary!Next]_(Diary!vars) PROVE DiaryInv'
PROOF
  <1>1. "direct" \in Diary!Writers /\ "editor" \in Diary!Writers
    BY DEF Diary!Writers
  <1>2. ASSUME NEW j \in DiaryRows,
               \/ Diary!Resolve(j) \/ Diary!RunEnds(j) \/ Diary!SessionWritten(j)
                      \/ Diary!StatusWritten(j)
               \/ Diary!Claim(j) \/ Diary!RunJudged(j) \/ Diary!WriteRejects(j)
                      \/ Diary!RetryByHand(j)
        PROVE  DiaryInv'
    BY <1>2, ResolveInv, RunEndsInv, SessionWrittenInv, StatusWrittenInv, ClaimInv, RunJudgedInv,
       WriteRejectsInv, RetryByHandInv
  <1>3. ASSUME NEW w \in Diary!Writers, Diary!FileStep(w) \/ Diary!FileRejects(w) PROVE DiaryInv'
    <2>1. CASE Diary!Ensure(w)
      BY <2>1, EnsureInv
    <2>2. CASE w \in DiaryRows /\ Diary!AppendFile(w)
      BY <2>2, AppendFileInv
    <2>3. CASE w = "editor" /\ Diary!ReadFile(w)
      BY <2>3, ReadFileInv
    <2>4. CASE Diary!WriteFile(w)
      BY <2>4, WriteFileInv
    <2>5. CASE Diary!FileRejects(w)
      BY <2>5, FileRejectsInv
    <2> QED
      BY <1>3, <2>1, <2>2, <2>3, <2>4, <2>5 DEF Diary!FileStep
  <1>4. CASE Diary!WriteMemory \/ Diary!Stop \/ Diary!Exit \/ Diary!Start
    BY <1>4, WriteMemoryInv, StopInv, ExitInv, StartInv
  <1>5. CASE Diary!ReadFile("direct")
    BY <1>5, ReadFileInv
  <1>6. CASE UNCHANGED Diary!vars
    BY <1>6, StutterInv
  <1> QED
    BY <1>2, <1>3, <1>4, <1>5, <1>6 DEF Diary!Next, Diary!GoesOn, Diary!SomeClaim, Diary!Work

\* What the invariant says of the runs' properties.
LEMMA DiarySafe ==
    ASSUME Diary!DiaryJobsAssumption, DiaryInv
    PROVE  Diary!TypeOK /\ Diary!TextsKept /\ Diary!DoneIsWritten /\ Diary!EntriesOnce
               /\ Diary!NotStranded /\ Diary!AttemptsBounded
PROOF
  <1>1. Diary!TypeOK
    BY DEF DiaryInv
  <1>2. Diary!TextsKept
    BY DEF DiaryInv, Texts, Diary!TextsKept
  <1>3. ASSUME NEW j \in DiaryRows
        PROVE  /\ diaryStatus[j] = "done" => written[j] > 0 \/ j \in blank
               /\ written[j] <= 1 + Mishaps + diaryByHand
               /\ Diary!Running /\ diaryStatus[j] = "processing" /\ diarist[j] = "idle" =>
                      j \in unwritten
               /\ diaryAttempts[j] <= MaxDiaryRetries + 1 + Mishaps
    BY DEF DiaryInv, JobSound, Diary!Running
  <1>4. /\ MaxDiaryRetries \in Nat /\ diaryCrashes \in Nat /\ diaryRejects \in Nat
               /\ diaryByHand \in Nat
        /\ \A j \in DiaryRows : written[j] \in Nat /\ diaryAttempts[j] \in Nat
    BY <1>1, Numbers
  <1>5. Diary!EntriesOnce /\ Diary!AttemptsBounded
    BY <1>3, <1>4 DEF Diary!EntriesOnce, Diary!AttemptsBounded, Mishaps
  <1> QED
    BY <1>1, <1>2, <1>3, <1>5 DEF Diary!DoneIsWritten, Diary!NotStranded

\* The invariant of the diary and of the day's file.
THEOREM DiaryInvHolds == ASSUME Diary!DiaryJobsAssumption PROVE Diary!Spec => []DiaryInv
PROOF
  <1>1. Diary!Init => DiaryInv
    BY DiaryInit
  <1>2. DiaryInv /\ [Diary!Next]_(Diary!vars) => DiaryInv'
    BY DiaryStep
  <1> QED
    BY <1>1, <1>2, PTL DEF Diary!Spec

\* Jobs, workers, operations on the file and bounds keep their types.
THEOREM DiaryTyped == ASSUME Diary!DiaryJobsAssumption PROVE Diary!Spec => []Diary!TypeOK
PROOF
  <1>1. DiaryInv => Diary!TypeOK
    BY DiarySafe
  <1> QED
    BY <1>1, DiaryInvHolds, PTL

\* Whoever appends to the day's file and edits it through the FIFO, no text is lost from it,
\* unless an edit was cut off in its write or one around the FIFO overlapped.
THEOREM NoTextLost == ASSUME Diary!DiaryJobsAssumption PROVE Diary!Spec => []Diary!TextsKept
PROOF
  <1>1. DiaryInv => Diary!TextsKept
    BY DiarySafe
  <1> QED
    BY <1>1, DiaryInvHolds, PTL

\* No job is done before its entry is in the file.
THEOREM DoneOnceWritten ==
    ASSUME Diary!DiaryJobsAssumption
    PROVE  Diary!Spec => []Diary!DoneIsWritten
PROOF
  <1>1. DiaryInv => Diary!DoneIsWritten
    BY DiarySafe
  <1> QED
    BY <1>1, DiaryInvHolds, PTL

\* An entry is written once more only for a crash, a rejection or the operator.
THEOREM WrittenOnce == ASSUME Diary!DiaryJobsAssumption PROVE Diary!Spec => []Diary!EntriesOnce
PROOF
  <1>1. DiaryInv => Diary!EntriesOnce
    BY DiarySafe
  <1> QED
    BY <1>1, DiaryInvHolds, PTL

\* No job is left in processing without a worker, but by the rejection of the write that
\* was to settle it.
THEOREM NoneStranded == ASSUME Diary!DiaryJobsAssumption PROVE Diary!Spec => []Diary!NotStranded
PROOF
  <1>1. DiaryInv => Diary!NotStranded
    BY DiarySafe
  <1> QED
    BY <1>1, DiaryInvHolds, PTL

\* A job is tried as often as configured, and once more for each crash and rejection.
THEOREM RetriesBounded ==
    ASSUME Diary!DiaryJobsAssumption
    PROVE  Diary!Spec => []Diary!AttemptsBounded
PROOF
  <1>1. DiaryInv => Diary!AttemptsBounded
    BY DiarySafe
  <1> QED
    BY <1>1, DiaryInvHolds, PTL
=============================================================================
