--------------------------- MODULE SessionsProofs ---------------------------
(***************************************************************************)
(* Proofs about Sessions, for every set of triggers, whatever they reply   *)
(* to, every limit and every failure the module has.  The properties need  *)
(* one another: that a slot is given back once rests on which trigger a    *)
(* session works for, that on who may resume or revive a session, and that *)
(* on the revival window and on the resumes under way.  So one inductive   *)
(* invariant is proved, a lemma for each action.  drainNextQueuedTrigger   *)
(* and what the settle listeners do end many actions; what they do is      *)
(* stated once, in LEMMAs Drained and Left.                                *)
(***************************************************************************)
EXTENDS Sessions, FiniteSetTheorems, WellFoundedInduction, TLAPS

(***************************************************************************)
(* The inductive invariant.                                                *)
(***************************************************************************)
Held(s) == InMemory(sess, s)

\* The queue holds each queued trigger once, and only while every slot is taken.
QueueSound ==
    /\ \A i, j \in 1..Len(queue) : queue[i] = queue[j] => i = j
    /\ \A t \in Triggers : stage[t] = "queued" <=> \E i \in 1..Len(queue) : queue[i] = t
    /\ queue # <<>> => slots = Limit

\* What has become of the trigger a session is named by.
RecordSound ==
    \A s \in Triggers :
        /\ sess[s] # "none" => stage[s] \in Runs \cup {"closing", "done"}
        /\ stage[s] = "closing" => ~Held(s)
        /\ sess[s] \in {"completed", "stopped", "discarded"} => stage[s] = "done"

\* Whom a session works for: itself, or a reply that has resumed it.
ServedSound ==
    \A s \in Triggers :
        /\ ~Held(s) => serving[s] = s
        /\ Held(s) => /\ stage[serving[s]] \in Runs
                      /\ stage[serving[s]] = "working" => by[serving[s]] = s
                      /\ stage[serving[s]] # "working" => serving[s] = s
                      /\ serving[s] # s => /\ sess[serving[s]] = "none"
                                           /\ stage[s] = "done"

\* Which session works for a trigger: the one its claim is attributed to, or its own.
WorkSound ==
    \A t \in Triggers :
        /\ by[t] # None => stage[t] = "working"
        /\ stage[t] = "working" => by[t] \in Triggers /\ Held(by[t]) /\ serving[by[t]] = t
        /\ stage[t] \in Runs \ {"working"} => Held(t) /\ serving[t] = t

\* A session that may be revived is a message's, and has completed or runs for its own
\* trigger with nothing left to revive it for.
WindowSound ==
    \A s \in window :
        /\ s \notin Proactive
        /\ \/ sess[s] = "completed"
           \/ /\ Held(s) /\ serving[s] = s
              /\ stage[s] \in {"working", "revived", "unslotted"}
              /\ \A u \in Triggers : ~(stage[u] = "reviving" /\ into[u] = s)

\* A session is resumed by one reply at a time, which never loses it but to an operator.
ResumeSound ==
    /\ \A t \in Triggers \ Proactive :
        stage[t] # "unseen" /\ IsReplyToSession(t) => sess[ReplyTo[t]] # "none"
    /\ \A t \in Triggers : stage[t] \in {"resuming", "accepting"} => IsReplyToSession(t)
    /\ \A t, u \in Triggers :
        /\ stage[t] \in {"resuming", "accepting"}
        /\ stage[u] \in {"resuming", "accepting"}
        /\ ReplyTo[t] = ReplyTo[u]
        => t = u
    /\ \A t \in Triggers : stage[t] = "accepting" =>
        /\ ReplyTo[t] \notin window
        /\ Held(ReplyTo[t]) => stage[ReplyTo[t]] = "recovering"

\* A tick of the proactive scheduler is never claimed, queued or resumed by a reply.
PostSound ==
    \A p \in Triggers :
        /\ p \in Proactive => stage[p] \in {"unseen", "posting", "recovering", "closing", "done"}
        /\ stage[p] = "posting" => p \in Proactive

\* The triggers that are claimed, and the order of their claims.
ClaimSound ==
    \A t \in Triggers :
        /\ t \in claims => stage[t] \in Unattributed \cup {"working", "leaked"}
        /\ stage[t] \in Unattributed \cup {"working"} => t \in claims

IInv ==
    /\ TypeOK
    /\ QueueSound
    /\ SlotAccounting
    /\ RecordSound
    /\ ServedSound
    /\ WorkSound
    /\ WindowSound
    /\ ResumeSound
    /\ PostSound
    /\ ClaimSound
    /\ ParkedHaveOwner

-----------------------------------------------------------------------------
(***************************************************************************)
(* The queue and the slots.                                                *)
(***************************************************************************)
\* Every set of triggers that occurs is finite.
LEMMA FiniteTriggers ==
    ASSUME NEW T \in SUBSET Triggers
    PROVE  IsFiniteSet(T) /\ Cardinality(T) \in Nat
BY SessionsAssumption, FS_Subset, FS_CardinalityType

LEMMA OneMore ==
    ASSUME NEW T \in SUBSET Triggers, NEW t \in Triggers, t \notin T
    PROVE  Cardinality(T \cup {t}) = Cardinality(T) + 1
BY FiniteTriggers, FS_AddElement

LEMMA OneLess ==
    ASSUME NEW T \in SUBSET Triggers, NEW t \in T
    PROVE  Cardinality(T \ {t}) = Cardinality(T) - 1
BY FiniteTriggers, FS_RemoveElement

\* The head of the queue leaves it for a stage x.
LEMMA HeadLeaves ==
    ASSUME TypeOK, QueueSound, queue # <<>>, NEW st \in [Triggers -> Stages],
           \A u \in Triggers : st[u] = "queued" <=> stage[u] = "queued",
           NEW x \in Stages \ {"queued"},
           queue' = Tail(queue), slots' = slots,
           stage' = [st EXCEPT ![Head(queue)] = x]
    PROVE  /\ Head(queue) \in Triggers /\ stage[Head(queue)] = "queued"
           /\ queue' \in Seq(Triggers) /\ Len(queue') <= MaxQueued
           /\ QueueSound'
PROOF
  <1>1. /\ Head(queue) \in Triggers
        /\ Head(queue) = queue[1] /\ 1 \in 1..Len(queue)
        /\ queue' \in Seq(Triggers) /\ Len(queue') = Len(queue) - 1 /\ Len(queue) \in Nat
        /\ Len(queue') <= MaxQueued
        /\ \A i \in 1..Len(queue') : queue'[i] = queue[i + 1] /\ i + 1 \in 1..Len(queue)
    BY SessionsAssumption DEF TypeOK
  <1>2. stage[Head(queue)] = "queued"
    BY <1>1 DEF QueueSound
  <1>3. \A i, j \in 1..Len(queue') : queue'[i] = queue'[j] => i = j
    BY <1>1 DEF QueueSound
  <1>4. ASSUME NEW t \in Triggers
        PROVE  stage'[t] = "queued" <=> \E i \in 1..Len(queue') : queue'[i] = t
    <2>1. CASE t = Head(queue)
      <3>1. \A i \in 1..Len(queue') : queue'[i] # t
        BY <1>1, <2>1 DEF QueueSound
      <3> QED
        BY <1>1, <2>1, <3>1
    <2>2. CASE t # Head(queue)
      <3>1. stage'[t] = "queued" <=> \E i \in 1..Len(queue) : queue[i] = t
        BY <1>1, <2>2 DEF QueueSound
      <3>2. ASSUME NEW i \in 1..Len(queue), queue[i] = t
            PROVE  \E j \in 1..Len(queue') : queue'[j] = t
        <4>1. i - 1 \in 1..Len(queue')
          BY <1>1, <2>2, <3>2
        <4>2. queue'[i - 1] = queue[(i - 1) + 1] /\ (i - 1) + 1 = i
          BY <1>1, <4>1
        <4> QED
          BY <3>2, <4>1, <4>2
      <3> QED
        BY <1>1, <3>1, <3>2
    <2> QED
      BY <2>1, <2>2
  <1>5. queue' # <<>> => slots' = Limit
    BY DEF QueueSound
  <1> QED
    BY <1>1, <1>2, <1>3, <1>4, <1>5 DEF QueueSound

\* The slots and the queue are sound after a step that moves the triggers to the stages
\* st, except that one queued trigger may begin its launch, with the records ss and the
\* window win.
Passed(st, ss, win) ==
    /\ slots' \in Nat /\ queue' \in Seq(Triggers) /\ Len(queue') <= MaxQueued
    /\ stage' \in [Triggers -> Stages]
    /\ via' \in [Triggers -> {None, "inbound", "redispatch", "queue", "reply", "co-reply",
                              "revival"}]
    /\ QueueSound'
    /\ SlotAccounting'
    /\ \A u \in Triggers : stage[u] # "queued" => stage'[u] = st[u]
    /\ \A u \in Triggers : stage[u] = "queued" =>
        /\ stage'[u] \in {"queued", "launching", "resuming"}
        /\ stage'[u] = "resuming" => /\ IsReplyToSession(u)
                                     /\ ~Occupied(ss, win, ReplyTo[u])
                                     /\ ReplyTo[u] \notin ResumeClaims(st)
    /\ \A u, v \in Triggers :
        /\ stage[u] = "queued" /\ stage'[u] = "resuming"
        /\ stage[v] = "queued" /\ stage'[v] = "resuming"
        => u = v

\* drainNextQueuedTrigger, for a caller who gives up one of the slots.
LEMMA Drained ==
    ASSUME TypeOK, QueueSound, NEW st \in [Triggers -> Stages], NEW ss, NEW win,
           \A u \in Triggers : st[u] = "queued" <=> stage[u] = "queued",
           slots <= Limit, slots = Cardinality(HoldersIn(st)) + 1,
           Drain(st, ss, win)
    PROVE  Passed(st, ss, win)
PROOF
  <1> DEFINE held == HoldersIn(st)
  <1>0. held \in SUBSET Triggers /\ Cardinality(held) \in Nat
    BY FiniteTriggers DEF HoldersIn
  <1>1. CASE queue = <<>>
    <2>1. queue' = queue /\ via' = via /\ stage' = st /\ slots' = Cardinality(held)
      BY <1>0, <1>1 DEF Drain, SlotFreed
    <2>2. \A u \in Triggers : stage[u] # "queued"
      BY <1>1 DEF QueueSound
    <2>3. QueueSound'
      BY <1>1, <2>1, <2>2 DEF QueueSound
    <2>4. SlotAccounting'
      BY <1>0, <2>1, SessionsAssumption DEF SlotAccounting, HoldersIn
    <2> QED
      BY <1>0, <2>1, <2>2, <2>3, <2>4 DEF TypeOK, Passed
  <1>2. CASE queue # <<>>
    <2> DEFINE h == Head(queue)
               x == Begun(h, st, ss, win)
    <2>1. /\ queue' = Tail(queue) /\ slots' = slots
          /\ stage' = [st EXCEPT ![h] = x]
          /\ via' = [via EXCEPT ![h] = "queue"]
      BY <1>2 DEF Drain
    <2>2. x \in Stages \ {"queued"} /\ x \in {"launching", "resuming"}
      BY DEF Begun, Stages, Unattributed
    <2>3. x = "resuming" => /\ IsReplyToSession(h)
                            /\ ~Occupied(ss, win, ReplyTo[h])
                            /\ ReplyTo[h] \notin ResumeClaims(st)
      BY DEF Begun
    <2> HIDE DEF x
    <2>4. /\ h \in Triggers /\ stage[h] = "queued"
          /\ queue' \in Seq(Triggers) /\ Len(queue') <= MaxQueued
          /\ QueueSound'
      BY <1>2, <2>1, <2>2, HeadLeaves
    <2> HIDE DEF h
    <2>5. HoldersIn(stage') = held \cup {h} /\ h \notin held
      BY <2>1, <2>2, <2>4 DEF HoldersIn, Unattributed, Runs
    <2>6. SlotAccounting'
      <3>1. Cardinality(held \cup {h}) = Cardinality(held) + 1
        BY <1>0, <2>4, <2>5, OneMore
      <3> QED
        BY <2>1, <2>5, <3>1 DEF SlotAccounting
    <2>7. \A u \in Triggers : stage'[u] = IF u = h THEN x ELSE st[u]
      BY <2>1, <2>4
    <2> QED
      BY <2>1, <2>2, <2>3, <2>4, <2>6, <2>7 DEF TypeOK, Passed
  <1> QED
    BY <1>1, <1>2

\* A step that leaves the queue and the number of slots alone.
LEMMA NothingDrained ==
    ASSUME TypeOK, QueueSound, SlotAccounting, NEW st \in [Triggers -> Stages],
           NEW ss, NEW win,
           \A u \in Triggers : st[u] = "queued" <=> stage[u] = "queued",
           HoldersIn(st) = HoldersIn(stage),
           stage' = st, UNCHANGED coordinator,
           via' \in [Triggers -> {None, "inbound", "redispatch", "queue", "reply",
                                  "co-reply", "revival"}]
    PROVE  Passed(st, ss, win)
PROOF
  <1>1. queue' = queue /\ slots' = slots
    BY DEF coordinator
  <1>2. QueueSound'
    BY <1>1 DEF QueueSound
  <1>3. SlotAccounting'
    BY <1>1 DEF SlotAccounting
  <1> QED
    BY <1>1, <1>2, <1>3 DEF Passed, TypeOK

-----------------------------------------------------------------------------
(***************************************************************************)
(* The end of a session.                                                   *)
(***************************************************************************)
Ends == {"completed", "discarded", "failed", "stopped"}

\* A trigger is served by one session.
LEMMA ServedByOne ==
    ASSUME IInv, NEW s \in Triggers, NEW u \in Triggers, Held(s), Held(u),
           serving[s] = serving[u]
    PROVE  s = u
BY DEF IInv, ServedSound

\* The stages the settle listeners leave.
LEMMA SettledStages ==
    ASSUME IInv, NEW s \in Triggers, Held(s), NEW t, t = serving[s],
           NEW status \in Ends, NEW after \in {"done", "closing", "regrouping"},
           NEW st, st = Settled(s, status, after)
    PROVE  /\ t \in Triggers /\ stage[t] \in Runs
           /\ st \in [Triggers -> Stages]
           /\ st[t] = after
           /\ \A u \in Triggers \ {t} :
                /\ stage[u] \notin {"parked", "unread", "read"} => st[u] = stage[u]
                /\ stage[u] = "parked" =>
                    st[u] = IF into[u] = t THEN "regrouping" ELSE "parked"
                /\ stage[u] = "unread" =>
                    st[u] \in {"unread", "regrouping", "dropped", "reviving"}
                /\ stage[u] = "read" => st[u] \in {"read", "done"}
                /\ stage[u] # "reviving" /\ st[u] = "reviving" =>
                    into[u] = s /\ MayRevive(s, status)
           /\ \A u \in Triggers : st[u] = "queued" <=> stage[u] = "queued"
PROOF
  <1>1. t \in Triggers /\ stage[t] \in Runs
    BY DEF IInv, TypeOK, ServedSound
  <1>2. \A u \in Triggers :
            st[u] = CASE u = t /\ stage[u] \in Runs -> after
                      [] stage[u] = "parked" /\ into[u] = t -> "regrouping"
                      [] stage[u] = "unread" /\ into[u] = s -> Unread(s, status)
                      [] stage[u] = "read" /\ into[u] = s -> "done"
                      [] OTHER -> stage[u]
    BY DEF Settled, Reparked
  <1>3. Unread(s, status) \in {"regrouping", "dropped", "reviving"}
        /\ (Unread(s, status) = "reviving" => MayRevive(s, status))
    BY DEF Unread
  <1>4. st[t] = after
    BY <1>1, <1>2 DEF Runs
  <1>5. ASSUME NEW u \in Triggers \ {t}
        PROVE  /\ stage[u] \notin {"parked", "unread", "read"} => st[u] = stage[u]
               /\ stage[u] = "parked" =>
                    st[u] = IF into[u] = t THEN "regrouping" ELSE "parked"
               /\ stage[u] = "unread" =>
                    st[u] \in {"unread", "regrouping", "dropped", "reviving"}
               /\ stage[u] = "read" => st[u] \in {"read", "done"}
               /\ stage[u] # "reviving" /\ st[u] = "reviving" =>
                    into[u] = s /\ MayRevive(s, status)
    BY <1>2, <1>3
  <1>6. \A u \in Triggers : st[u] = "queued" <=> stage[u] = "queued"
    BY <1>1, <1>4, <1>5 DEF Runs
  <1>7. \A u \in Triggers : st[u] \in Stages
    BY <1>4, <1>5 DEF IInv, TypeOK, Stages
  <1>8. st \in [Triggers -> Stages]
    BY <1>7 DEF Settled
  <1> QED
    BY <1>1, <1>4, <1>5, <1>6, <1>8

\* What the end of a session does to the records, the claims and the triggers that
\* waited for it keeps the invariant, if the slot is passed on as it should be.
LEMMA Left ==
    ASSUME IInv, NEW s \in Triggers, Held(s),
           NEW status \in Ends, NEW after \in {"done", "closing", "regrouping"},
           after = "closing" => status = "failed",
           after = "regrouping" => serving[s] # s,
           Evict(s, status),
           Passed(Settled(s, status, after), sess', window')
    PROVE  IInv'
PROOF
  <1> DEFINE t == serving[s]
             st == Settled(s, status, after)
  <1>1. /\ t \in Triggers /\ stage[t] \in Runs
        /\ st \in [Triggers -> Stages]
        /\ st[t] = after
        /\ \A u \in Triggers \ {t} :
             /\ stage[u] \notin {"parked", "unread", "read"} => st[u] = stage[u]
             /\ stage[u] = "parked" =>
                 st[u] = IF into[u] = t THEN "regrouping" ELSE "parked"
             /\ stage[u] = "unread" =>
                 st[u] \in {"unread", "regrouping", "dropped", "reviving"}
             /\ stage[u] = "read" => st[u] \in {"read", "done"}
             /\ stage[u] # "reviving" /\ st[u] = "reviving" =>
                 into[u] = s /\ MayRevive(s, status)
        /\ \A u \in Triggers : st[u] = "queued" <=> stage[u] = "queued"
    BY SettledStages
  <1>2. /\ \A u \in Triggers : sess'[u] = IF u = s THEN status ELSE sess[u]
        /\ \A u \in Triggers : serving'[u] = IF u = s THEN s ELSE serving[u]
        /\ \A c \in Triggers : by'[c] = IF by[c] = s THEN None ELSE by[c]
        /\ claims' = {c \in claims : by[c] # s}
        /\ window' = IF MayRevive(s, status) THEN window \cup {s} ELSE window \ {s}
    BY DEF Evict, Unclaim, IInv, TypeOK
  <1>3. /\ \A u \in Triggers : stage[u] # "queued" => stage'[u] = st[u]
        /\ \A u \in Triggers : stage[u] = "queued" =>
             stage'[u] \in {"queued", "launching", "resuming"}
    <2> HIDE DEF st
    <2> QED
      BY DEF Passed, st
  <1>4. /\ \A u \in Triggers : into'[u] \in {u, into[u]}
        /\ \A u \in Triggers : st[u] \notin {"regrouping", "done", "dropped"} =>
             into'[u] = into[u] \/ u = t
    <2>1. \A u \in Triggers :
            into'[u] = IF Settled(s, status, "done")[u] \in {"regrouping", "done", "dropped"}
                       THEN u ELSE into[u]
      BY DEF Evict
    <2>2. \A u \in Triggers \ {t} : Settled(s, status, "done")[u] = st[u]
      BY DEF Settled
    <2> QED
      BY <2>1, <2>2
  <1>5. ~InMemory(sess', s) /\ sess'[s] = status
        /\ \A u \in Triggers \ {s} : InMemory(sess', u) <=> Held(u)
    BY <1>2 DEF InMemory, Held, Ends
  <1>6. \A u \in Triggers \ {s} : Held(u) => serving[u] # t
    BY ServedByOne
  <1>7. \A c \in Triggers : by[c] = s => c = t /\ stage[c] = "working"
    BY SessionsAssumption DEF IInv, WorkSound, TypeOK
  <1>8. t # s => sess[t] = "none" /\ stage[s] = "done" /\ stage[t] = "working" /\ by[t] = s
    BY DEF IInv, ServedSound
  <1> HIDE DEF t, st
  <1>10. TypeOK'
    <2>1. sess' \in [Triggers -> {"none", "building", "running", "ending", "failing",
                              "interrupted", "completed", "discarded", "failed", "stopped"}]
      BY DEF IInv, TypeOK, Evict, Ends
    <2>2. serving' \in [Triggers -> Triggers] /\ into' \in [Triggers -> Triggers]
      BY DEF IInv, TypeOK, Evict
    <2>3. /\ claims' \subseteq Triggers /\ older' \in [Triggers -> SUBSET Triggers]
          /\ by' \in [Triggers -> Triggers \cup {None}]
      BY DEF IInv, TypeOK, Evict, Unclaim
    <2>4. window' \subseteq Triggers
      BY <1>2 DEF IInv, TypeOK
    <2> QED
      BY <2>1, <2>2, <2>3, <2>4 DEF TypeOK, Passed
  <1>11. RecordSound'
    <2> SUFFICES ASSUME NEW u \in Triggers
                 PROVE  /\ sess'[u] # "none" => stage'[u] \in Runs \cup {"closing", "done"}
                        /\ stage'[u] = "closing" => ~InMemory(sess', u)
                        /\ sess'[u] \in {"completed", "stopped", "discarded"} =>
                                stage'[u] = "done"
      BY DEF RecordSound, Held
    <2>1. CASE u = s
      BY <1>1, <1>3, <1>5, <1>8, <2>1 DEF Ends, Runs, t
    <2>2. CASE u # s /\ u = t
      BY <1>1, <1>2, <1>3, <1>5, <1>8, <2>2 DEF Runs, Held, InMemory
    <2>3. CASE u # s /\ u # t
      BY <1>1, <1>2, <1>3, <1>5, <2>3 DEF IInv, RecordSound, Runs
    <2> QED
      BY <2>1, <2>2, <2>3
  <1>12. ServedSound'
    <2> SUFFICES ASSUME NEW u \in Triggers
                 PROVE  /\ ~InMemory(sess', u) => serving'[u] = u
                        /\ InMemory(sess', u) =>
                             /\ stage'[serving'[u]] \in Runs
                             /\ stage'[serving'[u]] = "working" => by'[serving'[u]] = u
                             /\ stage'[serving'[u]] # "working" => serving'[u] = u
                             /\ serving'[u] # u => /\ sess'[serving'[u]] = "none"
                                                  /\ stage'[u] = "done"
      BY DEF ServedSound, Held
    <2>1. CASE u = s
      BY <1>2, <1>5, <2>1
    <2>2. CASE u # s /\ ~Held(u)
      BY <1>2, <1>5, <2>2 DEF IInv, ServedSound
    <2>3. CASE u # s /\ Held(u)
      <3>1. serving'[u] = serving[u] /\ serving[u] \in Triggers \ {t}
        BY <1>2, <1>6, <2>3 DEF IInv, TypeOK
      <3>2. stage'[serving[u]] = stage[serving[u]] /\ stage[serving[u]] \in Runs
        BY <1>1, <1>3, <2>3, <3>1 DEF IInv, ServedSound, Runs
      <3>3. by'[serving[u]] = by[serving[u]]
        BY <1>2, <1>7, <3>1
      <3>4. serving[u] # u => sess'[serving[u]] = "none" /\ stage'[u] = "done"
        <4> SUFFICES ASSUME serving[u] # u
                     PROVE  sess'[serving[u]] = "none" /\ stage'[u] = "done"
          OBVIOUS
        <4>1. sess[serving[u]] = "none" /\ stage[u] = "done"
          BY <2>3 DEF IInv, ServedSound
        <4>2. serving[u] # s /\ u # t
          BY <1>1, <4>1 DEF Held, InMemory, Runs
        <4> QED
          BY <1>1, <1>2, <1>3, <3>1, <4>1, <4>2
      <3> QED
        BY <1>5, <2>3, <3>1, <3>2, <3>3, <3>4 DEF IInv, ServedSound
    <2> QED
      BY <2>1, <2>2, <2>3
  <1>13. WorkSound'
    <2> SUFFICES ASSUME NEW u \in Triggers
                 PROVE  /\ by'[u] # None => stage'[u] = "working"
                        /\ stage'[u] = "working" =>
                             /\ by'[u] \in Triggers /\ InMemory(sess', by'[u])
                             /\ serving'[by'[u]] = u
                        /\ stage'[u] \in Runs \ {"working"} =>
                             InMemory(sess', u) /\ serving'[u] = u
      BY DEF WorkSound, Held
    <2>1. CASE u = t
      BY <1>1, <1>2, <1>3, <2>1 DEF IInv, WorkSound, ServedSound, Runs, t
    <2>2. CASE u # t
      <3>1. by'[u] = by[u] /\ by[u] # s
        BY <1>2, <1>7, <2>2
      <3>2. stage'[u] \in Runs \/ stage[u] \in Runs => stage'[u] = stage[u]
        BY <1>1, <1>3, <2>2 DEF Runs
      <3>3. CASE stage[u] = "working"
        BY <1>2, <1>5, <3>1, <3>2, <3>3 DEF IInv, WorkSound, Runs
      <3>4. CASE stage[u] \in Runs \ {"working"}
        <4>1. Held(u) /\ serving[u] = u /\ u # s
          BY <2>2, <3>4 DEF IInv, WorkSound, t
        <4> QED
          BY <1>2, <1>5, <3>1, <3>2, <3>4, <4>1 DEF IInv, WorkSound
      <3>5. CASE stage[u] \notin Runs
        BY <3>1, <3>2, <3>5 DEF IInv, WorkSound, Runs
      <3> QED
        BY <3>3, <3>4, <3>5
    <2> QED
      BY <2>1, <2>2
  <1>14. WindowSound'
    <2> SUFFICES ASSUME NEW u \in window'
                 PROVE  /\ u \notin Proactive
                        /\ \/ sess'[u] = "completed"
                           \/ /\ InMemory(sess', u) /\ serving'[u] = u
                              /\ stage'[u] \in {"working", "revived", "unslotted"}
                              /\ \A v \in Triggers : ~(stage'[v] = "reviving" /\ into'[v] = u)
      BY DEF WindowSound, Held
    <2>1. CASE u = s
      <3>1. u \in window => u \notin Proactive
        BY DEF IInv, WindowSound
      <3>2. CASE MayRevive(s, status)
        <4>1. t = s /\ stage[s] \in Runs \ {"posting", "recovering"} /\ status = "completed"
          BY <1>1, <3>2 DEF MayRevive, t
        <4> QED
          BY <1>2, <2>1, <4>1 DEF IInv, PostSound, Runs
      <3> QED
        BY <1>2, <2>1, <3>2
    <2>2. CASE u # s
      <3>1. u \in window /\ u \in Triggers
        BY <1>2, <2>2 DEF IInv, TypeOK
      <3>2. CASE sess[u] = "completed"
        BY <1>2, <2>2, <3>1, <3>2 DEF IInv, WindowSound
      <3>3. CASE sess[u] # "completed"
        <4>1. /\ Held(u) /\ serving[u] = u /\ u # t
              /\ stage[u] \in {"working", "revived", "unslotted"}
              /\ \A v \in Triggers : ~(stage[v] = "reviving" /\ into[v] = u)
          BY <1>6, <2>2, <3>1, <3>3 DEF IInv, WindowSound
        <4>2. ASSUME NEW v \in Triggers, stage'[v] = "reviving", into'[v] = u
              PROVE  FALSE
          <5>1. v # t /\ st[v] = "reviving"
            BY <1>1, <1>3, <4>2
          <5>2. into[v] = u
            BY <1>4, <4>2, <5>1
          <5> QED
            BY <1>1, <2>2, <4>1, <5>1, <5>2
        <4>3. u \notin Proactive
          BY <3>1 DEF IInv, WindowSound
        <4> QED
          BY <1>1, <1>2, <1>3, <1>5, <2>2, <3>1, <4>1, <4>2, <4>3
      <3> QED
        BY <3>2, <3>3
    <2> QED
      BY <2>1, <2>2
  <1>15. ResumeSound'
    <2> DEFINE going(u) == stage[u] \in {"resuming", "accepting"}
               goes(u) == stage'[u] \in {"resuming", "accepting"}
    <2>1. /\ \A u \in Triggers : stage[u] # "queued" => (goes(u) <=> going(u))
          /\ \A u \in Triggers : going(u) => u # t /\ st[u] = stage[u]
      BY <1>1, <1>3 DEF Runs
    <2>2. /\ \A u \in Triggers : stage[u] = "queued" /\ goes(u) =>
               /\ stage'[u] = "resuming"
               /\ IsReplyToSession(u) /\ ReplyTo[u] \notin ResumeClaims(st)
          /\ \A u, v \in Triggers :
               stage[u] = "queued" /\ goes(u) /\ stage[v] = "queued" /\ goes(v) => u = v
      BY <1>3 DEF Passed, st
    <2>3. ASSUME NEW u \in Triggers \ Proactive, stage'[u] # "unseen", IsReplyToSession(u)
          PROVE  sess'[ReplyTo[u]] # "none"
      <3>1. stage[u] # "unseen" /\ ReplyTo[u] \in Triggers
        BY <1>1, <1>3, <2>3 DEF Runs, IsReplyToSession
      <3> QED
        BY <1>2, <2>3, <3>1 DEF IInv, ResumeSound, Ends
    <2>4. \A u \in Triggers : goes(u) => IsReplyToSession(u)
      BY <2>1, <2>2 DEF IInv, ResumeSound
    <2>5. ASSUME NEW u \in Triggers, NEW v \in Triggers, goes(u), goes(v),
                 ReplyTo[u] = ReplyTo[v]
          PROVE  u = v
      <3>1. CASE stage[u] # "queued" /\ stage[v] # "queued"
        BY <2>1, <2>5, <3>1 DEF IInv, ResumeSound
      <3>2. CASE stage[u] = "queued" /\ stage[v] # "queued"
        BY <2>1, <2>2, <2>5, <3>2 DEF ResumeClaims
      <3>3. CASE stage[u] # "queued" /\ stage[v] = "queued"
        BY <2>1, <2>2, <2>5, <3>3 DEF ResumeClaims
      <3> QED
        BY <2>2, <2>5, <3>1, <3>2, <3>3
    <2>6. ASSUME NEW u \in Triggers, stage'[u] = "accepting"
          PROVE  /\ ReplyTo[u] \notin window'
                 /\ InMemory(sess', ReplyTo[u]) => stage'[ReplyTo[u]] = "recovering"
      <3> DEFINE r == ReplyTo[u]
      <3>1. stage[u] = "accepting" /\ r \in Triggers
        BY <1>1, <1>3, <2>2, <2>6, <2>4 DEF Runs, IsReplyToSession
      <3>2. r \notin window /\ (Held(r) => stage[r] = "recovering")
        BY <3>1 DEF IInv, ResumeSound
      <3>3. r \notin window'
        BY <1>2, <3>2 DEF MayRevive
      <3>4. ASSUME InMemory(sess', r) PROVE stage'[r] = "recovering"
        <4>1. r # s /\ Held(r) /\ stage[r] = "recovering"
          BY <1>5, <3>1, <3>2, <3>4
        <4>2. r # t
          BY <1>6, <3>1, <4>1 DEF IInv, WorkSound, Runs
        <4> QED
          BY <1>1, <1>3, <3>1, <4>1, <4>2
      <3> QED
        BY <3>3, <3>4
    <2> QED
      BY <2>3, <2>4, <2>5, <2>6 DEF ResumeSound, Held
  <1>16. PostSound'
    <2> SUFFICES ASSUME NEW u \in Triggers
                 PROVE  /\ u \in Proactive => stage'[u] \in {"unseen", "posting", "recovering",
                                                            "closing", "done"}
                        /\ stage'[u] = "posting" => u \in Proactive
      BY DEF PostSound
    <2>1. CASE u = t
      BY <1>1, <1>3, <1>8, <2>1 DEF IInv, PostSound, Runs, t
    <2>2. CASE u # t
      BY <1>1, <1>3, <2>2 DEF IInv, PostSound
    <2> QED
      BY <2>1, <2>2
  <1>17. ClaimSound'
    <2> SUFFICES ASSUME NEW u \in Triggers
                 PROVE  /\ u \in claims' => stage'[u] \in Unattributed \cup {"working", "leaked"}
                        /\ stage'[u] \in Unattributed \cup {"working"} => u \in claims'
      BY DEF ClaimSound
    <2>1. CASE u = t
      <3>1. u \notin claims'
        BY <1>1, <1>2, <2>1 DEF IInv, ClaimSound, ServedSound, Runs, Unattributed, t
      <3> QED
        BY <1>1, <1>3, <2>1, <3>1 DEF Unattributed, Runs
    <2>2. CASE u # t
      <3>1. u \in claims' <=> u \in claims
        BY <1>2, <1>7, <2>2
      <3> QED
        BY <1>1, <1>3, <2>2, <3>1 DEF IInv, ClaimSound, Unattributed
    <2> QED
      BY <2>1, <2>2
  <1>18. ParkedHaveOwner'
    <2> SUFFICES ASSUME NEW u \in Triggers, stage'[u] = "parked"
                 PROVE  \/ stage'[into'[u]] \in Unattributed \cup {"lost", "leaked"}
                        \/ \E v \in Triggers : sess'[v] = "building" /\ serving'[v] = into'[u]
      BY DEF ParkedHaveOwner
    <2>1. stage[u] = "parked" /\ u # t /\ into[u] # t /\ into'[u] = into[u]
      BY <1>1, <1>3, <1>4
    <2>2. CASE stage[into[u]] \in Unattributed \cup {"lost", "leaked"}
      <3>1. into[u] \in Triggers
        BY DEF IInv, TypeOK
      <3> QED
        BY <1>1, <1>3, <2>1, <2>2, <3>1 DEF Unattributed
    <2>3. CASE \E v \in Triggers : sess[v] = "building" /\ serving[v] = into[u]
      BY <1>2, <2>1, <2>3 DEF t
    <2> QED
      BY <2>1, <2>2, <2>3 DEF IInv, ParkedHaveOwner
  <1> QED
    BY <1>10, <1>11, <1>12, <1>13, <1>14, <1>15, <1>16, <1>17, <1>18 DEF IInv, Passed

\* The settle listeners give up the trigger's slot, if it has one and does not keep it.
LEMMA SettledHolders ==
    ASSUME IInv, NEW s \in Triggers, Held(s),
           NEW status \in Ends, NEW after \in {"done", "closing", "regrouping"}
    PROVE  HoldersIn(Settled(s, status, after)) =
             IF after = "closing" THEN HoldersIn(stage) \cup {serving[s]}
                                  ELSE HoldersIn(stage) \ {serving[s]}
PROOF
  <1> DEFINE t == serving[s]
             st == Settled(s, status, after)
  <1>1. /\ t \in Triggers /\ st[t] = after
        /\ \A u \in Triggers \ {t} :
             /\ stage[u] \notin {"parked", "unread", "read"} => st[u] = stage[u]
             /\ stage[u] = "parked" =>
                 st[u] = IF into[u] = t THEN "regrouping" ELSE "parked"
             /\ stage[u] = "unread" =>
                 st[u] \in {"unread", "regrouping", "dropped", "reviving"}
             /\ stage[u] = "read" => st[u] \in {"read", "done"}
    BY SettledStages
  <1> HIDE DEF t, st
  <1>2. \A u \in Triggers \ {t} : u \in HoldersIn(st) <=> u \in HoldersIn(stage)
    BY <1>1 DEF HoldersIn, Unattributed, Runs
  <1>3. t \in HoldersIn(st) <=> after = "closing"
    BY <1>1 DEF HoldersIn, Unattributed, Runs
  <1>4. HoldersIn(st) \subseteq Triggers /\ HoldersIn(stage) \subseteq Triggers
    BY DEF HoldersIn
  <1>5. HoldersIn(st) = IF after = "closing" THEN HoldersIn(stage) \cup {t}
                                             ELSE HoldersIn(stage) \ {t}
    BY <1>1, <1>2, <1>3, <1>4
  <1> QED
    BY <1>5 DEF t, st

\* A run that ends with its record, its slot released with it or never taken.
LEMMA LeaveGood ==
    ASSUME IInv, NEW s \in Triggers, Held(s),
           NEW status \in Ends, NEW after \in {"done", "regrouping"},
           after = "regrouping" => serving[s] # s,
           Leave(s, status, after)
    PROVE  IInv'
PROOF
  <1> DEFINE t == serving[s]
             st == Settled(s, status, after)
  <1>1. t \in Triggers /\ stage[t] \in Runs /\ st \in [Triggers -> Stages]
        /\ \A u \in Triggers : st[u] = "queued" <=> stage[u] = "queued"
    BY SettledStages
  <1>2. HoldersIn(st) = HoldersIn(stage) \ {t} /\ HoldersIn(stage) \subseteq Triggers
    BY SettledHolders DEF HoldersIn
  <1>3. Evict(s, status)
    BY DEF Leave
  <1> HIDE DEF st
  <1>4. CASE stage[t] # "unslotted"
    <2>1. t \in HoldersIn(stage)
      BY <1>1, <1>4 DEF HoldersIn, Runs
    <2>2. slots = Cardinality(HoldersIn(st)) + 1 /\ slots <= Limit
      BY <1>2, <2>1, OneLess, FiniteTriggers DEF IInv, SlotAccounting
    <2>3. Drain(st, sess', window')
      BY <1>4 DEF Leave, st
    <2>4. TypeOK /\ QueueSound
      BY DEF IInv
    <2>5. Passed(st, sess', window')
      BY <1>1, <2>2, <2>3, <2>4, Drained
    <2> QED
      BY <1>3, <2>5, Left DEF st
  <1>5. CASE stage[t] = "unslotted"
    <2>1. HoldersIn(st) = HoldersIn(stage)
      BY <1>2, <1>5 DEF HoldersIn, Unattributed
    <2>2. stage' = st /\ UNCHANGED coordinator /\ via' = via
      BY <1>5 DEF Leave, st
    <2>3. Passed(st, sess', window')
      BY <1>1, <2>1, <2>2, NothingDrained DEF IInv, TypeOK
    <2> QED
      BY <1>3, <2>3, Left DEF st
  <1> QED
    BY <1>4, <1>5

-----------------------------------------------------------------------------
(***************************************************************************)
(* Steps that neither create nor end a session.                            *)
(***************************************************************************)
\* What such a step may do with the records and the stages; the queue, the slots and the
\* claims are up to the action.
LEMMA Quiet ==
    ASSUME IInv, TypeOK', QueueSound', SlotAccounting', ClaimSound',
           \A s \in Triggers : sess'[s] = sess[s] \/ (Held(s) /\ InMemory(sess', s)),
           serving' = serving, by' = by, window' \subseteq window,
           \A u \in Triggers :
              \/ stage'[u] = stage[u]
              \/ stage[u] = "closing" /\ stage'[u] = "done"
              \/ /\ u \notin Proactive
                 /\ stage[u] \notin Runs \cup {"closing", "done", "lost", "leaked"}
                 /\ stage'[u] \notin Runs \cup {"closing", "unseen", "reviving"},
           \A u \in Triggers : stage[u] \in Unattributed =>
                                    stage'[u] \in Unattributed \cup {"lost", "leaked"},
           \A u \in Triggers : stage'[u] = "reviving" => into'[u] = into[u],
           \A u \in Triggers : stage[u] = "unseen" /\ stage'[u] # "unseen" => TargetExists(u),
           \A u \in Triggers : stage'[u] = "parked" =>
              \/ /\ stage[u] = "parked" /\ into'[u] = into[u]
                 /\ \A v \in Triggers : sess[v] = "building" /\ serving[v] = into[u] =>
                        sess'[v] = "building"
              \/ stage'[into'[u]] \in Unattributed \cup {"lost", "leaked"}
              \/ \E v \in Triggers : sess'[v] = "building" /\ serving[v] = into'[u],
           \A u \in Triggers : stage'[u] \in {"resuming", "accepting"} =>
              \/ stage[u] \in {"resuming", "accepting"}
              \/ /\ IsReplyToSession(u)
                 /\ \A v \in Triggers : stage'[v] \in {"resuming", "accepting"} /\ v # u =>
                        ReplyTo[v] # ReplyTo[u],
           \A u \in Triggers : stage'[u] = "accepting" =>
              \/ stage[u] = "accepting"
              \/ ReplyTo[u] \notin window /\ ~Held(ReplyTo[u])
    PROVE  IInv'
PROOF
  <1>1. \A s \in Triggers : InMemory(sess', s) <=> Held(s)
    BY DEF Held, InMemory
  <1>2. \A u \in Triggers : stage[u] \in Runs \/ stage'[u] \in Runs => stage'[u] = stage[u]
    BY DEF Runs
  <1>3. RecordSound'
    BY <1>1, <1>2 DEF IInv, RecordSound, Held, InMemory, Runs
  <1>4. ServedSound'
    <2> SUFFICES ASSUME NEW s \in Triggers
                 PROVE  /\ ~Held(s) => serving[s] = s
                        /\ Held(s) =>
                             /\ stage'[serving[s]] \in Runs
                             /\ stage'[serving[s]] = "working" => by[serving[s]] = s
                             /\ stage'[serving[s]] # "working" => serving[s] = s
                             /\ serving[s] # s => /\ sess'[serving[s]] = "none"
                                                 /\ stage'[s] = "done"
      BY <1>1 DEF ServedSound, Held
    <2>1. serving[s] \in Triggers
      BY DEF IInv, TypeOK
    <2>2. sess[serving[s]] = "none" => sess'[serving[s]] = "none"
      BY <2>1 DEF Held, InMemory
    <2>3. stage[s] = "done" => stage'[s] = "done"
      OBVIOUS
    <2> QED
      BY <1>1, <1>2, <2>1, <2>2, <2>3 DEF IInv, ServedSound
  <1>5. WorkSound'
    BY <1>1, <1>2 DEF IInv, WorkSound, Held, Runs
  <1>6. WindowSound'
    <2> SUFFICES ASSUME NEW s \in window'
                 PROVE  /\ s \notin Proactive
                        /\ \/ sess'[s] = "completed"
                           \/ /\ Held(s) /\ serving[s] = s
                              /\ stage'[s] \in {"working", "revived", "unslotted"}
                              /\ \A u \in Triggers : ~(stage'[u] = "reviving" /\ into'[u] = s)
      BY <1>1 DEF WindowSound, Held, IInv, TypeOK
    <2>1. s \in window /\ s \in Triggers
      BY DEF IInv, TypeOK
    <2>2. CASE sess[s] = "completed"
      BY <2>1, <2>2 DEF Held, InMemory, IInv, WindowSound
    <2>3. CASE sess[s] # "completed"
      <3>1. /\ Held(s) /\ serving[s] = s
            /\ stage[s] \in {"working", "revived", "unslotted"}
            /\ \A u \in Triggers : ~(stage[u] = "reviving" /\ into[u] = s)
        BY <2>1, <2>3 DEF IInv, WindowSound
      <3>2. \A u \in Triggers : stage'[u] = "reviving" => stage[u] = "reviving"
        OBVIOUS
      <3> QED
        BY <1>2, <2>1, <3>1, <3>2 DEF Runs, IInv, WindowSound
    <2> QED
      BY <2>2, <2>3
  <1>7. ResumeSound'
    <2>1. ASSUME NEW u \in Triggers \ Proactive, stage'[u] # "unseen", IsReplyToSession(u)
          PROVE  sess'[ReplyTo[u]] # "none"
      <3>1. sess[ReplyTo[u]] # "none" /\ ReplyTo[u] \in Triggers
        BY <2>1 DEF IInv, ResumeSound, TargetExists, IsReplyToSession
      <3> QED
        BY <3>1 DEF InMemory
    <2>2. \A u \in Triggers : stage'[u] \in {"resuming", "accepting"} => IsReplyToSession(u)
      BY DEF IInv, ResumeSound
    <2>3. ASSUME NEW u \in Triggers, NEW v \in Triggers,
                 stage'[u] \in {"resuming", "accepting"}, stage'[v] \in {"resuming", "accepting"},
                 ReplyTo[u] = ReplyTo[v]
          PROVE  u = v
      BY <2>3 DEF IInv, ResumeSound
    <2>4. ASSUME NEW u \in Triggers, stage'[u] = "accepting"
          PROVE  /\ ReplyTo[u] \notin window'
                 /\ InMemory(sess', ReplyTo[u]) => stage'[ReplyTo[u]] = "recovering"
      <3>1. ReplyTo[u] \in Triggers
        BY <2>2, <2>4 DEF IsReplyToSession
      <3> QED
        BY <1>1, <1>2, <2>4, <3>1 DEF IInv, ResumeSound, Runs
    <2> QED
      BY <2>1, <2>2, <2>3, <2>4 DEF ResumeSound, Held
  <1>8. PostSound'
    BY <1>2 DEF IInv, PostSound, Runs
  <1>9. ParkedHaveOwner'
    <2> SUFFICES ASSUME NEW u \in Triggers, stage'[u] = "parked"
                 PROVE  \/ stage'[into'[u]] \in Unattributed \cup {"lost", "leaked"}
                        \/ \E v \in Triggers : sess'[v] = "building" /\ serving'[v] = into'[u]
      BY DEF ParkedHaveOwner
    <2>1. CASE /\ stage[u] = "parked" /\ into'[u] = into[u]
               /\ \A v \in Triggers : sess[v] = "building" /\ serving[v] = into[u] =>
                        sess'[v] = "building"
      <3>1. into[u] \in Triggers
        BY DEF IInv, TypeOK
      <3> QED
        BY <2>1, <3>1 DEF IInv, ParkedHaveOwner
    <2> QED
      BY <2>1
  <1> QED
    BY <1>3, <1>4, <1>5, <1>6, <1>7, <1>8, <1>9 DEF IInv

\* accept and addClaim: a slot, a place in the queue, or neither.
LEMMA Accepted ==
    ASSUME IInv, NEW t \in Triggers, t \notin Proactive,
           stage[t] \in {"unseen", "regrouping"},
           NEW next \in {"grouping", "launching", "resuming"},
           NEW caller \in {"inbound", "redispatch"},
           Accept(t, next, caller), UNCHANGED records
    PROVE  /\ TypeOK' /\ QueueSound' /\ SlotAccounting' /\ ClaimSound'
           /\ by' = by
           /\ \E y \in {next, "queued", "ignored"} : stage' = [stage EXCEPT ![t] = y]
           /\ into' = [into EXCEPT ![t] = t]
PROOF
  <1>1. by[t] = None /\ t \notin claims /\ t \notin HoldersIn(stage)
    BY DEF IInv, WorkSound, ClaimSound, Unattributed, HoldersIn, Runs
  <1>2. into' = [into EXCEPT ![t] = t] /\ into' \in [Triggers -> Triggers]
    BY DEF Accept, IInv, TypeOK
  <1>3. \/ claims' = claims /\ by' = by /\ older' = older
        \/ claims' = claims \cup {t} /\ by' = [by EXCEPT ![t] = None]
           /\ older' = [older EXCEPT ![t] = claims]
    BY DEF Accept, Claim, registry
  <1>4. by' = by
    BY <1>1, <1>3 DEF IInv, TypeOK
  <1>5. claims' \subseteq Triggers /\ older' \in [Triggers -> SUBSET Triggers]
    BY <1>3 DEF IInv, TypeOK
  <1>6. sess' = sess /\ serving' = serving /\ window' = window
    BY DEF records
  <1>7. CASE slots < Limit
    <2>1. /\ slots' = slots + 1 /\ queue' = queue /\ queue = <<>>
          /\ stage' = [stage EXCEPT ![t] = next]
          /\ via' = [via EXCEPT ![t] = caller]
          /\ claims' = claims \cup {t}
      BY <1>7, SessionsAssumption DEF Accept, Claim, IInv, TypeOK, QueueSound
    <2>2. next \in Unattributed \ {"queued"} /\ next \in Stages
      BY DEF Unattributed, Stages
    <2>3. stage' \in [Triggers -> Stages] /\ \A u \in Triggers : stage'[u] =
                                                IF u = t THEN next ELSE stage[u]
      BY <2>1, <2>2 DEF IInv, TypeOK
    <2>4. TypeOK'
      BY <1>2, <1>4, <1>5, <1>6, <2>1, <2>3 DEF IInv, TypeOK
    <2>5. QueueSound'
      BY <2>1, <2>2, <2>3 DEF IInv, QueueSound
    <2>6. HoldersIn(stage') = HoldersIn(stage) \cup {t}
      BY <2>2, <2>3 DEF HoldersIn
    <2>7. Cardinality(HoldersIn(stage')) = Cardinality(HoldersIn(stage)) + 1
      BY <1>1, <2>6, OneMore DEF HoldersIn
    <2>8. SlotAccounting'
      BY <1>7, <2>1, <2>7, SessionsAssumption DEF IInv, TypeOK, SlotAccounting
    <2>9. ClaimSound'
      BY <2>1, <2>2, <2>3 DEF IInv, ClaimSound
    <2> QED
      BY <1>2, <1>4, <2>1, <2>4, <2>5, <2>8, <2>9
  <1>8. CASE slots >= Limit /\ ~QueueFull
    <2>1. /\ slots' = slots /\ queue' = Append(queue, t)
          /\ stage' = [stage EXCEPT ![t] = "queued"]
          /\ via' = via
          /\ claims' = claims \cup {t}
      BY <1>8, SessionsAssumption DEF Accept, Claim, IInv, TypeOK
    <2>2. stage' \in [Triggers -> Stages] /\ \A u \in Triggers : stage'[u] =
                                                IF u = t THEN "queued" ELSE stage[u]
      BY <2>1 DEF IInv, TypeOK, Stages, Unattributed
    <2>3. /\ queue' \in Seq(Triggers) /\ Len(queue') = Len(queue) + 1 /\ Len(queue) \in Nat
          /\ queue'[Len(queue) + 1] = t
          /\ \A i \in 1..Len(queue) : queue'[i] = queue[i]
      BY <2>1 DEF IInv, TypeOK
    <2>4. Len(queue') <= MaxQueued
      BY <1>8, <2>3, SessionsAssumption DEF QueueFull
    <2>5. TypeOK'
      BY <1>2, <1>4, <1>5, <1>6, <2>1, <2>2, <2>3, <2>4 DEF IInv, TypeOK
    <2>6. \A i \in 1..Len(queue) : queue[i] # t
      BY DEF IInv, QueueSound
    <2>7. \A i, j \in 1..Len(queue') : queue'[i] = queue'[j] => i = j
      BY <2>3, <2>6 DEF IInv, QueueSound
    <2>8. ASSUME NEW u \in Triggers
          PROVE  stage'[u] = "queued" <=> \E i \in 1..Len(queue') : queue'[i] = u
      <3>1. CASE u = t
        BY <2>2, <2>3, <3>1
      <3>2. CASE u # t
        <4>1. (\E i \in 1..Len(queue') : queue'[i] = u) <=>
                    \E i \in 1..Len(queue) : queue[i] = u
          BY <2>3, <3>2
        <4> QED
          BY <2>2, <3>2, <4>1 DEF IInv, QueueSound
      <3> QED
        BY <3>1, <3>2
    <2>9. slots' = Limit
      BY <1>8, <2>1, SessionsAssumption DEF IInv, SlotAccounting, TypeOK
    <2>10. HoldersIn(stage') = HoldersIn(stage)
      BY <1>1, <2>2 DEF HoldersIn, Unattributed, Runs
    <2>11. ClaimSound'
      BY <2>1, <2>2 DEF IInv, ClaimSound, Unattributed
    <2>12. SlotAccounting'
      BY <2>1, <2>10, Zenon DEF IInv, SlotAccounting
    <2>13. QueueSound'
      BY <2>7, <2>8, <2>9 DEF QueueSound
    <2> QED
      BY <1>2, <1>4, <2>1, <2>5, <2>11, <2>12, <2>13
  <1>9. CASE slots >= Limit /\ QueueFull
    <2>1. /\ slots' = slots /\ queue' = queue
          /\ stage' = [stage EXCEPT ![t] = "ignored"]
          /\ via' = via /\ claims' = claims
      BY <1>9, SessionsAssumption DEF Accept, registry, IInv, TypeOK
    <2>2. stage' \in [Triggers -> Stages] /\ \A u \in Triggers : stage'[u] =
                                                IF u = t THEN "ignored" ELSE stage[u]
      BY <2>1 DEF IInv, TypeOK, Stages
    <2>3. TypeOK'
      BY <1>2, <1>4, <1>5, <1>6, <2>1, <2>2 DEF IInv, TypeOK
    <2>4. HoldersIn(stage') = HoldersIn(stage)
      BY <1>1, <2>2 DEF HoldersIn, Unattributed, Runs
    <2>5. SlotAccounting' /\ QueueSound'
      BY <2>1, <2>2, <2>4 DEF IInv, SlotAccounting, QueueSound
    <2>6. ClaimSound'
      BY <1>1, <2>1, <2>2 DEF IInv, ClaimSound, Unattributed
    <2> QED
      BY <1>2, <1>4, <2>1, <2>3, <2>5, <2>6
  <1> QED
    BY <1>7, <1>8, <1>9, SessionsAssumption DEF IInv, TypeOK, Accept

\* A step that leaves the queue alone, and the slots with the triggers that have one.
LEMMA SlotsKept ==
    ASSUME IInv, UNCHANGED coordinator,
           \A u \in Triggers : stage'[u] = "queued" <=> stage[u] = "queued",
           HoldersIn(stage') = HoldersIn(stage)
    PROVE  QueueSound' /\ SlotAccounting'
BY DEF IInv, coordinator, QueueSound, SlotAccounting

\* A step of one trigger on its way to a session, between two awaits.
LEMMA OneMoves ==
    ASSUME IInv, NEW t \in Triggers, t \notin Proactive,
           NEW x \in Stages, stage' = [stage EXCEPT ![t] = x],
           UNCHANGED <<coordinator, registry, records>>,
           into' \in [Triggers -> Triggers],
           via' \in [Triggers -> {None, "inbound", "redispatch", "queue", "reply",
                                  "co-reply", "revival"}],
           \A u \in Triggers \ {t} : into'[u] = into[u],
           \/ /\ stage[t] \in {"grouping", "launching", "resuming", "accepting"}
              /\ x \in {"launching", "resuming", "accepting"}
           \/ /\ stage[t] \in {"unseen", "conditioning", "unread", "read", "regrouping"}
              /\ x \in {"conditioning", "unread", "read", "regrouping", "parked"},
           stage[t] = "unseen" => TargetExists(t),
           x = "parked" =>
              \/ stage[into'[t]] \in Unattributed \cup {"leaked"}
              \/ \E v \in Triggers : sess[v] = "building" /\ serving[v] = into'[t],
           x \in {"resuming", "accepting"} =>
              \/ stage[t] \in {"resuming", "accepting"}
              \/ /\ IsReplyToSession(t)
                 /\ \A v \in Triggers : stage[v] \in {"resuming", "accepting"} =>
                        ReplyTo[v] # ReplyTo[t],
           x = "accepting" =>
              stage[t] = "accepting" \/ (ReplyTo[t] \notin window /\ ~Held(ReplyTo[t]))
    PROVE  IInv'
PROOF
  <1>1. /\ slots' = slots /\ queue' = queue /\ sess' = sess /\ serving' = serving
        /\ window' = window /\ claims' = claims /\ older' = older /\ by' = by
    BY DEF coordinator, registry, records
  <1>2. \A u \in Triggers : stage'[u] = IF u = t THEN x ELSE stage[u]
    BY DEF IInv, TypeOK
  <1>3. TypeOK'
    BY <1>1 DEF IInv, TypeOK
  <1>4. HoldersIn(stage') = HoldersIn(stage)
    BY <1>2 DEF HoldersIn, Unattributed, Runs
  <1>5. QueueSound' /\ SlotAccounting'
    BY <1>2, <1>4, SlotsKept
  <1>6. ClaimSound'
    BY <1>1, <1>2 DEF IInv, ClaimSound, Unattributed
  <1>7. \A u \in Triggers :
              \/ stage'[u] = stage[u]
              \/ stage[u] = "closing" /\ stage'[u] = "done"
              \/ /\ u \notin Proactive
                 /\ stage[u] \notin Runs \cup {"closing", "done", "lost", "leaked"}
                 /\ stage'[u] \notin Runs \cup {"closing", "unseen", "reviving"}
    BY <1>2 DEF Runs
  <1>8. \A u \in Triggers : stage[u] \in Unattributed =>
                                    stage'[u] \in Unattributed \cup {"lost", "leaked"}
    BY <1>2 DEF Unattributed
  <1>9. /\ \A u \in Triggers : stage'[u] = "reviving" => into'[u] = into[u]
        /\ \A u \in Triggers : stage[u] = "unseen" /\ stage'[u] # "unseen" => TargetExists(u)
    BY <1>2
  <1>10. ASSUME NEW u \in Triggers, stage'[u] = "parked"
         PROVE  \/ /\ stage[u] = "parked" /\ into'[u] = into[u]
                   /\ \A v \in Triggers : sess[v] = "building" /\ serving[v] = into[u] =>
                          sess'[v] = "building"
                \/ stage'[into'[u]] \in Unattributed \cup {"lost", "leaked"}
                \/ \E v \in Triggers : sess'[v] = "building" /\ serving[v] = into'[u]
    BY <1>1, <1>2, <1>8, <1>10
  <1>11. /\ \A u \in Triggers : stage'[u] \in {"resuming", "accepting"} =>
              \/ stage[u] \in {"resuming", "accepting"}
              \/ /\ IsReplyToSession(u)
                 /\ \A v \in Triggers : stage'[v] \in {"resuming", "accepting"} /\ v # u =>
                        ReplyTo[v] # ReplyTo[u]
         /\ \A u \in Triggers : stage'[u] = "accepting" =>
              \/ stage[u] = "accepting"
              \/ ReplyTo[u] \notin window /\ ~Held(ReplyTo[u])
    BY <1>2
  <1> QED
    BY <1>1, <1>3, <1>5, <1>6, <1>7, <1>8, <1>9, <1>10, <1>11, Quiet

-----------------------------------------------------------------------------
(***************************************************************************)
(* Inbound.                                                                *)
(***************************************************************************)
LEMMA SteerReplyGood ==
    ASSUME IInv, NEW t \in Triggers, t \notin Proactive, SteerReply(t)
    PROVE  IInv'
PROOF
  <1>1. /\ stage[t] = "unseen" /\ TargetExists(t) /\ ReplyTo[t] \in Triggers
        /\ stage' = [stage EXCEPT ![t] = "unread"]
        /\ into' = [into EXCEPT ![t] = ReplyTo[t]]
        /\ via' = [via EXCEPT ![t] = "reply"]
        /\ UNCHANGED <<coordinator, registry, records>>
    BY DEF SteerReply, SteersReply, IsReplyToSession, Folded
  <1>2. into' \in [Triggers -> Triggers] /\ \A u \in Triggers \ {t} : into'[u] = into[u]
    BY <1>1 DEF IInv, TypeOK
  <1>3. via' \in [Triggers -> {None, "inbound", "redispatch", "queue", "reply",
                               "co-reply", "revival"}]
    BY <1>1 DEF IInv, TypeOK
  <1>4. "unread" \in Stages
    BY DEF Stages
  <1> QED
    BY <1>1, <1>2, <1>3, <1>4, OneMoves

\* The owner of a claim that can be steered soon is one to park on.
LEMMA CoalesceGood ==
    ASSUME IInv, NEW t \in Triggers, t \notin Proactive, Coalesce(t)
    PROVE  IInv'
PROOF
  <1>1. PICK c \in Triggers :
            /\ c \in claims
            /\ \/ /\ Coalescing(c, t) = "steer"
                  /\ Folded(t, by[c], "co-reply")
               \/ /\ Coalescing(c, t) = "condition"
                  /\ stage' = [stage EXCEPT ![t] = "conditioning"]
                  /\ into' = [into EXCEPT ![t] = by[c]]
                  /\ UNCHANGED via
               \/ /\ Coalescing(c, t) = "park"
                  /\ stage' = [stage EXCEPT ![t] = "parked"]
                  /\ into' = [into EXCEPT ![t] = c]
                  /\ UNCHANGED via
    BY DEF Coalesce, FirstCoTarget, CoTargets
  <1>2. /\ stage[t] = "unseen" /\ TargetExists(t)
        /\ UNCHANGED <<coordinator, registry, records>>
    BY DEF Coalesce
  <1>3. {"unread", "conditioning", "parked"} \subseteq Stages
    BY DEF Stages
  <1>4. by[c] = None => stage[c] \in Unattributed \cup {"leaked"}
    BY <1>1, SessionsAssumption DEF IInv, WorkSound, ClaimSound
  <1>5. by[c] # None => by[c] \in Triggers /\ serving[by[c]] = c
    BY <1>1, SessionsAssumption DEF IInv, WorkSound, TypeOK
  <1>6. CASE Coalescing(c, t) = "steer" /\ Folded(t, by[c], "co-reply")
    <2>1. by[c] \in Triggers
      BY <1>5, <1>6 DEF Coalescing
    <2>2. /\ stage' = [stage EXCEPT ![t] = "unread"]
          /\ into' \in [Triggers -> Triggers] /\ \A u \in Triggers \ {t} : into'[u] = into[u]
      BY <1>6, <2>1 DEF Folded, IInv, TypeOK
    <2>3. via' \in [Triggers -> {None, "inbound", "redispatch", "queue", "reply",
                                 "co-reply", "revival"}]
      BY <1>6 DEF Folded, IInv, TypeOK
    <2> QED
      BY <1>2, <1>3, <2>2, <2>3, OneMoves
  <1>7. CASE /\ Coalescing(c, t) = "condition"
             /\ stage' = [stage EXCEPT ![t] = "conditioning"]
             /\ into' = [into EXCEPT ![t] = by[c]]
             /\ UNCHANGED via
    <2>1. by[c] \in Triggers
      BY <1>5, <1>7 DEF Coalescing
    <2>2. into' \in [Triggers -> Triggers] /\ \A u \in Triggers \ {t} : into'[u] = into[u]
      BY <1>7, <2>1 DEF IInv, TypeOK
    <2>3. via' \in [Triggers -> {None, "inbound", "redispatch", "queue", "reply",
                                 "co-reply", "revival"}]
      BY <1>7 DEF IInv, TypeOK
    <2> QED
      BY <1>2, <1>3, <1>7, <2>2, <2>3, OneMoves
  <1>8. CASE /\ Coalescing(c, t) = "park"
             /\ stage' = [stage EXCEPT ![t] = "parked"]
             /\ into' = [into EXCEPT ![t] = c]
             /\ UNCHANGED via
    <2>1. /\ into' \in [Triggers -> Triggers] /\ \A u \in Triggers \ {t} : into'[u] = into[u]
          /\ into'[t] = c
      BY <1>8 DEF IInv, TypeOK
    <2>2. via' \in [Triggers -> {None, "inbound", "redispatch", "queue", "reply",
                                 "co-reply", "revival"}]
      BY <1>8 DEF IInv, TypeOK
    <2>3. SteerableSoon(c)
      BY <1>8 DEF Coalescing
    <2>4. \/ stage[into'[t]] \in Unattributed \cup {"leaked"}
          \/ \E v \in Triggers : sess[v] = "building" /\ serving[v] = into'[t]
      BY <1>4, <1>5, <2>1, <2>3 DEF SteerableSoon
    <2> QED
      BY <1>2, <1>3, <1>8, <2>1, <2>2, <2>4, OneMoves
  <1> QED
    BY <1>1, <1>6, <1>7, <1>8

\* A trigger that is accepted waits in its group or in the queue, or begins its launch.
LEMMA AcceptGood ==
    ASSUME IInv, NEW t \in Triggers, t \notin Proactive,
           stage[t] \in {"unseen", "regrouping"},
           stage[t] = "unseen" => TargetExists(t),
           NEW next \in {"grouping", "launching", "resuming"},
           next = "resuming" =>
              /\ IsReplyToSession(t)
              /\ ReplyTo[t] \notin ResumeClaims(stage),
           NEW caller \in {"inbound", "redispatch"},
           Accept(t, next, caller), UNCHANGED records
    PROVE  IInv'
PROOF
  <1>1. /\ TypeOK' /\ QueueSound' /\ SlotAccounting' /\ ClaimSound'
        /\ by' = by
        /\ \E y \in {next, "queued", "ignored"} : stage' = [stage EXCEPT ![t] = y]
        /\ into' = [into EXCEPT ![t] = t]
    BY Accepted
  <1>2. PICK y \in {next, "queued", "ignored"} : stage' = [stage EXCEPT ![t] = y]
    BY <1>1
  <1>3. \A u \in Triggers : /\ stage'[u] = IF u = t THEN y ELSE stage[u]
                            /\ u # t => into'[u] = into[u]
    BY <1>1, <1>2 DEF IInv, TypeOK
  <1>4. /\ sess' = sess /\ serving' = serving /\ window' = window
    BY DEF records
  <1>5. /\ \A u \in Triggers :
              \/ stage'[u] = stage[u]
              \/ stage[u] = "closing" /\ stage'[u] = "done"
              \/ /\ u \notin Proactive
                 /\ stage[u] \notin Runs \cup {"closing", "done", "lost", "leaked"}
                 /\ stage'[u] \notin Runs \cup {"closing", "unseen", "reviving"}
        /\ \A u \in Triggers : stage[u] \in Unattributed =>
                                    stage'[u] \in Unattributed \cup {"lost", "leaked"}
        /\ \A u \in Triggers : stage'[u] = "reviving" => into'[u] = into[u]
        /\ \A u \in Triggers : stage[u] = "unseen" /\ stage'[u] # "unseen" => TargetExists(u)
    BY <1>3 DEF Runs, Unattributed
  <1>6. \A u \in Triggers : stage'[u] = "parked" =>
            /\ stage[u] = "parked" /\ into'[u] = into[u]
            /\ \A v \in Triggers : sess[v] = "building" /\ serving[v] = into[u] =>
                    sess'[v] = "building"
    BY <1>3, <1>4
  <1>7. /\ \A u \in Triggers : stage'[u] \in {"resuming", "accepting"} =>
              \/ stage[u] \in {"resuming", "accepting"}
              \/ /\ IsReplyToSession(u)
                 /\ \A v \in Triggers : stage'[v] \in {"resuming", "accepting"} /\ v # u =>
                        ReplyTo[v] # ReplyTo[u]
        /\ \A u \in Triggers : stage'[u] = "accepting" => stage[u] = "accepting"
    BY <1>3 DEF ResumeClaims
  <1> QED
    BY <1>1, <1>4, <1>5, <1>6, <1>7, Quiet

LEMMA SpawnGood ==
    ASSUME IInv, NEW t \in Triggers, t \notin Proactive, Spawn(t)
    PROVE  IInv'
PROOF
  <1>1. /\ stage[t] = "unseen" /\ TargetExists(t)
        /\ Accept(t, "grouping", "inbound")
        /\ UNCHANGED records
    BY DEF Spawn
  <1> QED
    BY <1>1, AcceptGood

\* tryReplyResume takes a session nobody is resuming.
LEMMA BegunLaunch ==
    ASSUME NEW t \in Triggers, NEW st, NEW ss, NEW win
    PROVE  /\ Begun(t, st, ss, win) \in {"launching", "resuming"}
           /\ Begun(t, st, ss, win) = "resuming" =>
                IsReplyToSession(t) /\ ReplyTo[t] \notin ResumeClaims(st)
BY DEF Begun

LEMMA GroupResolvedGood ==
    ASSUME IInv, NEW t \in Triggers, GroupResolved(t)
    PROVE  IInv'
PROOF
  <1> DEFINE x == Begun(t, stage, sess, window)
  <1>1. /\ stage[t] = "grouping" /\ stage' = [stage EXCEPT ![t] = x]
        /\ UNCHANGED <<coordinator, registry, records>> /\ via' = via /\ into' = into
    BY DEF GroupResolved
  <1>2. /\ x \in {"launching", "resuming"} /\ x \in Stages
        /\ x = "resuming" =>
             IsReplyToSession(t) /\ ReplyTo[t] \notin ResumeClaims(stage)
    BY BegunLaunch DEF Stages, Unattributed
  <1> HIDE DEF x
  <1>3. t \notin Proactive
    BY <1>1 DEF IInv, PostSound
  <1>4. x \in {"resuming", "accepting"} =>
            /\ IsReplyToSession(t)
            /\ \A v \in Triggers : stage[v] \in {"resuming", "accepting"} =>
                    ReplyTo[v] # ReplyTo[t]
    BY <1>2 DEF ResumeClaims
  <1>5. into' \in [Triggers -> Triggers]
        /\ via' \in [Triggers -> {None, "inbound", "redispatch", "queue", "reply",
                                  "co-reply", "revival"}]
    BY <1>1 DEF IInv, TypeOK
  <1> QED
    BY <1>1, <1>2, <1>3, <1>4, <1>5, OneMoves

LEMMA RegroupedGood ==
    ASSUME IInv, NEW t \in Triggers, Regrouped(t)
    PROVE  IInv'
PROOF
  <1>1. /\ stage[t] = "regrouping" /\ UNCHANGED records
        /\ Accept(t, Begun(t, stage, sess, window), "redispatch")
    BY DEF Regrouped
  <1>2. t \notin Proactive
    BY <1>1 DEF IInv, PostSound
  <1> DEFINE x == Begun(t, stage, sess, window)
  <1>3. x \in {"grouping", "launching", "resuming"}
        /\ (x = "resuming" => IsReplyToSession(t) /\ ReplyTo[t] \notin ResumeClaims(stage))
    BY BegunLaunch
  <1>4. Accept(t, x, "redispatch")
    BY <1>1
  <1> HIDE DEF x
  <1> QED
    BY <1>1, <1>2, <1>3, <1>4, AcceptGood

LEMMA ConditionedGood ==
    ASSUME IInv, NEW t \in Triggers, Conditioned(t)
    PROVE  IInv'
PROOF
  <1>1. /\ stage[t] = "conditioning" /\ into[t] \in Triggers
        /\ UNCHANGED <<coordinator, registry, records>>
    BY DEF Conditioned, IInv, TypeOK
  <1>2. t \notin Proactive
    BY <1>1 DEF IInv, PostSound
  <1>3. PICK x \in {"unread", "regrouping"} : stage' = [stage EXCEPT ![t] = x]
    BY DEF Conditioned, Folded
  <1>4. /\ into' \in [Triggers -> Triggers] /\ \A u \in Triggers \ {t} : into'[u] = into[u]
        /\ via' \in [Triggers -> {None, "inbound", "redispatch", "queue", "reply",
                                  "co-reply", "revival"}]
    BY <1>1 DEF Conditioned, Folded, IInv, TypeOK
  <1>5. x \in Stages
    BY DEF Stages
  <1> QED
    BY <1>1, <1>2, <1>3, <1>4, <1>5, OneMoves

LEMMA ResumeAwaitedGood ==
    ASSUME IInv, NEW t \in Triggers, ResumeAwaited(t)
    PROVE  IInv'
PROOF
  <1> DEFINE x == IF Occupied(sess, window, ReplyTo[t]) THEN "launching" ELSE "accepting"
  <1>1. /\ stage[t] = "resuming" /\ stage' = [stage EXCEPT ![t] = x]
        /\ UNCHANGED <<coordinator, registry, records>> /\ via' = via /\ into' = into
    BY DEF ResumeAwaited
  <1>2. t \notin Proactive
    BY <1>1 DEF IInv, PostSound
  <1>3. /\ x \in {"launching", "accepting"} /\ x \in Stages
        /\ x = "accepting" => ReplyTo[t] \notin window /\ ~Held(ReplyTo[t])
    BY DEF Stages, Unattributed, Occupied, Held
  <1>4. into' \in [Triggers -> Triggers]
        /\ via' \in [Triggers -> {None, "inbound", "redispatch", "queue", "reply",
                                  "co-reply", "revival"}]
    BY <1>1 DEF IInv, TypeOK
  <1> HIDE DEF x
  <1> QED
    BY <1>1, <1>2, <1>3, <1>4, OneMoves

LEMMA ResumeDeclinedGood ==
    ASSUME IInv, NEW t \in Triggers, ResumeDeclined(t)
    PROVE  IInv'
PROOF
  <1>1. /\ stage[t] \in {"resuming", "accepting"}
        /\ stage' = [stage EXCEPT ![t] = "launching"]
        /\ UNCHANGED <<coordinator, registry, records>> /\ via' = via /\ into' = into
    BY DEF ResumeDeclined
  <1>2. t \notin Proactive /\ "launching" \in Stages
    BY <1>1 DEF IInv, PostSound, Stages, Unattributed
  <1>3. into' \in [Triggers -> Triggers]
        /\ via' \in [Triggers -> {None, "inbound", "redispatch", "queue", "reply",
                                  "co-reply", "revival"}]
    BY <1>1 DEF IInv, TypeOK
  <1> QED
    BY <1>1, <1>2, <1>3, OneMoves

LEMMA SpinOffGood ==
    ASSUME IInv, NEW t \in Triggers, SpinOff(t)
    PROVE  IInv'
PROOF
  <1>1. /\ stage[t] = "read" /\ stage' = [stage EXCEPT ![t] = "regrouping"]
        /\ UNCHANGED <<coordinator, registry, records>> /\ via' = via
        /\ into' = [into EXCEPT ![t] = t]
    BY DEF SpinOff
  <1>2. t \notin Proactive /\ "regrouping" \in Stages
    BY <1>1 DEF IInv, PostSound, Stages
  <1>3. /\ into' \in [Triggers -> Triggers] /\ \A u \in Triggers \ {t} : into'[u] = into[u]
        /\ via' \in [Triggers -> {None, "inbound", "redispatch", "queue", "reply",
                                  "co-reply", "revival"}]
    BY <1>1 DEF IInv, TypeOK
  <1> QED
    BY <1>1, <1>2, <1>3, OneMoves

-----------------------------------------------------------------------------
(***************************************************************************)
(* A session in memory goes on, and with it the triggers it has been sent. *)
(***************************************************************************)
LEMMA WaitersMove ==
    ASSUME IInv, TypeOK', UNCHANGED <<coordinator, registry, serving>>, window' \subseteq window,
           \A s \in Triggers : sess'[s] = sess[s] \/ (Held(s) /\ InMemory(sess', s)),
           \A u \in Triggers :
              \/ stage'[u] = stage[u]
              \/ /\ stage[u] \in {"parked", "unread", "read", "reviving"}
                 /\ stage'[u] \in {"conditioning", "unread", "read", "regrouping", "dropped"},
           \A u \in Triggers : stage'[u] \in {"parked", "reviving"} => into'[u] = into[u],
           \A u \in Triggers : stage'[u] = "parked" =>
              \A v \in Triggers : sess[v] = "building" /\ serving[v] = into[u] =>
                    sess'[v] = "building"
    PROVE  IInv'
PROOF
  <1>1. /\ serving' = serving /\ claims' = claims /\ by' = by
    BY DEF coordinator, registry
  <1>2. HoldersIn(stage') = HoldersIn(stage)
    BY DEF HoldersIn, Unattributed, Runs
  <1>3. QueueSound' /\ SlotAccounting'
    BY <1>2, SlotsKept
  <1>4. ClaimSound'
    BY <1>1 DEF IInv, ClaimSound, Unattributed
  <1>5. /\ \A u \in Triggers :
              \/ stage'[u] = stage[u]
              \/ stage[u] = "closing" /\ stage'[u] = "done"
              \/ /\ u \notin Proactive
                 /\ stage[u] \notin Runs \cup {"closing", "done", "lost", "leaked"}
                 /\ stage'[u] \notin Runs \cup {"closing", "unseen", "reviving"}
    BY DEF IInv, PostSound, Runs
  <1>6. /\ \A u \in Triggers : stage[u] \in Unattributed =>
                                    stage'[u] \in Unattributed \cup {"lost", "leaked"}
        /\ \A u \in Triggers : stage'[u] = "reviving" => into'[u] = into[u]
        /\ \A u \in Triggers : stage[u] = "unseen" /\ stage'[u] # "unseen" => TargetExists(u)
    BY DEF Unattributed
  <1>7. \A u \in Triggers : stage'[u] = "parked" =>
            /\ stage[u] = "parked" /\ into'[u] = into[u]
            /\ \A v \in Triggers : sess[v] = "building" /\ serving[v] = into[u] =>
                    sess'[v] = "building"
    OBVIOUS
  <1>8. /\ \A u \in Triggers : stage'[u] \in {"resuming", "accepting"} =>
                stage[u] \in {"resuming", "accepting"}
        /\ \A u \in Triggers : stage'[u] = "accepting" => stage[u] = "accepting"
    OBVIOUS
  <1> QED
    BY <1>1, <1>3, <1>4, <1>5, <1>6, <1>7, <1>8, Quiet

LEMMA GoLiveGood ==
    ASSUME IInv, NEW s \in Triggers, GoLive(s)
    PROVE  IInv'
PROOF
  <1> DEFINE mine(u) == stage[u] = "parked" /\ into[u] = serving[s]
  <1>1. /\ sess[s] = "building" /\ sess' = [sess EXCEPT ![s] = "running"]
        /\ UNCHANGED <<coordinator, registry, serving>> /\ window' = window
        /\ stage' = [u \in Triggers |->
                          IF ~mine(u) THEN stage[u]
                          ELSE IF u \in Media THEN "conditioning" ELSE "unread"]
        /\ into' = [u \in Triggers |-> IF mine(u) THEN s ELSE into[u]]
        /\ via' = [u \in Triggers |-> IF mine(u) THEN "co-reply" ELSE via[u]]
    BY DEF GoLive
  <1>2. \A v \in Triggers : sess'[v] = IF v = s THEN "running" ELSE sess[v]
    BY <1>1 DEF IInv, TypeOK
  <1>3. \A v \in Triggers : sess'[v] = sess[v] \/ (Held(v) /\ InMemory(sess', v))
    BY <1>1, <1>2 DEF Held, InMemory
  <1>4. \A u \in Triggers :
              \/ stage'[u] = stage[u]
              \/ /\ stage[u] \in {"parked", "unread", "read", "reviving"}
                 /\ stage'[u] \in {"conditioning", "unread", "read", "regrouping", "dropped"}
    BY <1>1
  <1>5. \A u \in Triggers : stage'[u] \in {"parked", "reviving"} => into'[u] = into[u]
    BY <1>1
  <1>6. \A u \in Triggers : stage'[u] = "parked" => into[u] # serving[s]
    BY <1>1
  <1>7. \A u \in Triggers : stage'[u] = "parked" =>
              \A v \in Triggers : sess[v] = "building" /\ serving[v] = into[u] =>
                    sess'[v] = "building"
    BY <1>2, <1>6
  <1>8. TypeOK'
    <2>1. stage' \in [Triggers -> Stages]
      <3>1. \A u \in Triggers : stage'[u] \in Stages
        BY <1>1 DEF IInv, TypeOK, Stages
      <3> QED
        BY <1>1, <3>1
    <2>2. into' \in [Triggers -> Triggers]
      BY <1>1 DEF IInv, TypeOK
    <2>3. via' \in [Triggers -> {None, "inbound", "redispatch", "queue", "reply",
                                 "co-reply", "revival"}]
      BY <1>1 DEF IInv, TypeOK
    <2>4. sess' \in [Triggers -> {"none", "building", "running", "ending", "failing",
                              "interrupted", "completed", "discarded", "failed", "stopped"}]
      BY <1>1 DEF IInv, TypeOK
    <2> QED
      BY <1>1, <2>1, <2>2, <2>3, <2>4 DEF IInv, TypeOK, coordinator, registry
  <1> QED
    BY <1>1, <1>3, <1>4, <1>5, <1>7, <1>8, WaitersMove

LEMMA ReadSteersGood ==
    ASSUME IInv, NEW s \in Triggers, ReadSteers(s)
    PROVE  IInv'
PROOF
  <1>1. /\ UNCHANGED <<coordinator, registry, serving>> /\ window' = window /\ sess' = sess
        /\ via' = via /\ into' = into
        /\ stage' = [u \in Triggers |->
                   IF stage[u] = "unread" /\ into[u] = s THEN "read" ELSE stage[u]]
    BY DEF ReadSteers, records
  <1>2. stage' \in [Triggers -> Stages]
    <2>1. \A u \in Triggers : stage'[u] \in Stages
      BY <1>1 DEF IInv, TypeOK, Stages
    <2> QED
      BY <1>1, <2>1
  <1>3. TypeOK'
    BY <1>1, <1>2 DEF IInv, TypeOK, coordinator, registry
  <1>4. \A u \in Triggers :
              \/ stage'[u] = stage[u]
              \/ /\ stage[u] \in {"parked", "unread", "read", "reviving"}
                 /\ stage'[u] \in {"conditioning", "unread", "read", "regrouping", "dropped"}
    BY <1>1
  <1> QED
    BY <1>1, <1>3, <1>4, WaitersMove

\* The record alone changes, and stays in memory.
LEMMA RecordMoves ==
    ASSUME IInv, NEW s \in Triggers, sess[s] = "running",
           NEW x \in {"ending", "failing"}, sess' = [sess EXCEPT ![s] = x],
           UNCHANGED <<coordinator, registry, stage, via, into, serving, window>>
    PROVE  IInv'
PROOF
  <1>1. /\ \A v \in Triggers : sess'[v] = IF v = s THEN x ELSE sess[v]
        /\ sess' \in [Triggers -> {"none", "building", "running", "ending", "failing",
                              "interrupted", "completed", "discarded", "failed", "stopped"}]
    BY DEF IInv, TypeOK
  <1>2. TypeOK'
    BY <1>1 DEF IInv, TypeOK, coordinator, registry
  <1>3. \A v \in Triggers : sess'[v] = sess[v] \/ (Held(v) /\ InMemory(sess', v))
    BY <1>1 DEF Held, InMemory
  <1>4. \A v \in Triggers : sess[v] = "building" => sess'[v] = "building"
    BY <1>1
  <1> QED
    BY <1>2, <1>3, <1>4, WaitersMove

LEMMA InterruptGood ==
    ASSUME IInv, NEW s \in Triggers, Interrupt(s)
    PROVE  IInv'
PROOF
  <1> DEFINE cleared(u) == stage[u] = "unread" /\ into[u] = s
  <1>1. /\ sess[s] = "running" /\ sess' = [sess EXCEPT ![s] = "interrupted"]
        /\ UNCHANGED <<coordinator, registry, serving>> /\ window' = window /\ via' = via
        /\ stage' = [u \in Triggers |-> IF cleared(u) THEN "dropped" ELSE stage[u]]
        /\ into' = [u \in Triggers |-> IF cleared(u) THEN u ELSE into[u]]
    BY DEF Interrupt
  <1>2. /\ \A v \in Triggers : sess'[v] = IF v = s THEN "interrupted" ELSE sess[v]
        /\ sess' \in [Triggers -> {"none", "building", "running", "ending", "failing",
                              "interrupted", "completed", "discarded", "failed", "stopped"}]
    BY <1>1 DEF IInv, TypeOK
  <1>3. /\ \A v \in Triggers : sess'[v] = sess[v] \/ (Held(v) /\ InMemory(sess', v))
        /\ \A v \in Triggers : sess[v] = "building" => sess'[v] = "building"
    BY <1>1, <1>2 DEF Held, InMemory
  <1>4. /\ \A u \in Triggers :
              \/ stage'[u] = stage[u]
              \/ /\ stage[u] \in {"parked", "unread", "read", "reviving"}
                 /\ stage'[u] \in {"conditioning", "unread", "read", "regrouping", "dropped"}
        /\ \A u \in Triggers : stage'[u] \in {"parked", "reviving"} => into'[u] = into[u]
    BY <1>1
  <1>5. stage' \in [Triggers -> Stages] /\ into' \in [Triggers -> Triggers]
    <2>1. \A u \in Triggers : stage'[u] \in Stages /\ into'[u] \in Triggers
      BY <1>1 DEF IInv, TypeOK, Stages
    <2> QED
      BY <1>1, <2>1
  <1>6. TypeOK'
    BY <1>1, <1>2, <1>5 DEF IInv, TypeOK, coordinator, registry
  <1> QED
    BY <1>1, <1>3, <1>4, <1>6, WaitersMove

LEMMA ExpireGood ==
    ASSUME IInv, NEW s \in Triggers, Expire(s)
    PROVE  IInv'
PROOF
  <1>1. /\ UNCHANGED <<coordinator, registry, serving>>
        /\ sess' = sess /\ stage' = stage /\ via' = via /\ into' = into
        /\ window' = window \ {s}
    BY DEF Expire
  <1>2. TypeOK'
    BY <1>1 DEF IInv, TypeOK, coordinator, registry
  <1> QED
    BY <1>1, <1>2, WaitersMove

-----------------------------------------------------------------------------
(***************************************************************************)
(* A run starts.                                                           *)
(***************************************************************************)
\* A session s nobody holds is created, adopted or revived to work for a trigger t.
LEMMA Started ==
    ASSUME IInv, TypeOK', QueueSound', SlotAccounting',
           NEW s \in Triggers, ~Held(s), NEW t \in Triggers, NEW x \in Runs,
           NEW y \in {"building", "running"},
           \A v \in Triggers : sess'[v] = IF v = s THEN y ELSE sess[v],
           \A v \in Triggers : serving'[v] = IF v = s THEN t ELSE serving[v],
           \A c \in Triggers : by'[c] = IF c = t /\ x = "working" THEN s ELSE by[c],
           window' = window, into' = into, claims' = claims,
           stage'[t] = x,
           \A u \in Triggers \ {t} :
              stage'[u] = stage[u] \/ (stage[u] = "reviving" /\ stage'[u] = "read"),
           x = "working" => stage[t] \in {"launching", "accepting"} /\ y = "building",
           x # "working" => stage[t] \in {"unseen", "done"} /\ s = t,
           s # t => stage[s] = "done" /\ sess[s] # "none" /\ sess[t] = "none",
           t \in Proactive => x \in {"posting", "recovering"},
           x = "posting" => t \in Proactive,
           stage[t] = "unseen" => t \in Proactive,
           s \in window =>
              /\ s = t /\ x \in {"revived", "unslotted"}
              /\ \A u \in Triggers : ~(stage'[u] = "reviving" /\ into[u] = s),
           \A u \in Triggers \ {t} :
              stage[u] = "accepting" /\ ReplyTo[u] = s => x = "recovering" /\ s = t
    PROVE  IInv'
PROOF
  <1>1. /\ \A v \in Triggers : sess'[v] = IF v = s THEN y ELSE sess[v]
        /\ \A v \in Triggers : serving'[v] = IF v = s THEN t ELSE serving[v]
        /\ \A c \in Triggers : by'[c] = IF c = t /\ x = "working" THEN s ELSE by[c]
    OBVIOUS
  <1>2. InMemory(sess', s) /\ \A v \in Triggers \ {s} : InMemory(sess', v) <=> Held(v)
    BY <1>1 DEF Held, InMemory
  <1>3. /\ stage[t] \notin Runs \cup {"closing", "queued"}
        /\ \A u \in Triggers \ {t} : /\ stage[u] \in Runs \/ stage'[u] \in Runs =>
                                            stage'[u] = stage[u]
                                     /\ stage[u] \in {"closing", "done", "accepting"}
                                            \/ stage'[u] \in {"closing", "done", "accepting"} =>
                                            stage'[u] = stage[u]
    BY DEF Runs
  <1>4. \A v \in Triggers : Held(v) => serving[v] # t
    BY <1>3 DEF IInv, ServedSound
  <1>5. RecordSound'
    <2> SUFFICES ASSUME NEW u \in Triggers
                 PROVE  /\ sess'[u] # "none" => stage'[u] \in Runs \cup {"closing", "done"}
                        /\ stage'[u] = "closing" => ~InMemory(sess', u)
                        /\ sess'[u] \in {"completed", "stopped", "discarded"} =>
                                stage'[u] = "done"
      BY DEF RecordSound, Held
    <2>1. CASE u = t
      BY <1>1, <2>1 DEF Runs
    <2>2. CASE u # t /\ u = s
      BY <1>1, <1>3, <2>2
    <2>3. CASE u # t /\ u # s
      BY <1>1, <1>2, <1>3, <2>3 DEF IInv, RecordSound
    <2> QED
      BY <2>1, <2>2, <2>3
  <1>6. ServedSound'
    <2> SUFFICES ASSUME NEW v \in Triggers
                 PROVE  /\ ~InMemory(sess', v) => serving'[v] = v
                        /\ InMemory(sess', v) =>
                             /\ stage'[serving'[v]] \in Runs
                             /\ stage'[serving'[v]] = "working" => by'[serving'[v]] = v
                             /\ stage'[serving'[v]] # "working" => serving'[v] = v
                             /\ serving'[v] # v => /\ sess'[serving'[v]] = "none"
                                                  /\ stage'[v] = "done"
      BY DEF ServedSound, Held
    <2>1. CASE v = s
      <3>1. serving'[v] = t /\ stage'[t] = x /\ (x = "working" => by'[t] = s)
        BY <2>1
      <3>2. t # s => sess'[t] = "none" /\ stage'[s] = "done"
        BY <1>3
      <3> QED
        BY <1>2, <2>1, <3>1, <3>2
    <2>2. CASE v # s /\ ~Held(v)
      BY <1>1, <1>2, <2>2 DEF IInv, ServedSound
    <2>3. CASE v # s /\ Held(v)
      <3>1. serving'[v] = serving[v] /\ serving[v] \in Triggers \ {t}
        BY <1>1, <1>4, <2>3 DEF IInv, TypeOK
      <3>2. stage'[serving[v]] = stage[serving[v]] /\ by'[serving[v]] = by[serving[v]]
        BY <1>1, <1>3, <2>3, <3>1 DEF IInv, ServedSound
      <3>3. ASSUME serving[v] # v PROVE sess'[serving[v]] = "none" /\ stage'[v] = "done"
        <4>1. sess[serving[v]] = "none" /\ stage[v] = "done"
          BY <2>3, <3>3 DEF IInv, ServedSound
        <4>2. stage[serving[v]] \in Runs
          BY <2>3 DEF IInv, ServedSound
        <4>3. serving[v] # s
          BY <3>1, <4>1
        <4>4. v # t
          BY <2>3, <4>1
        <4> QED
          BY <1>1, <1>3, <3>1, <4>1, <4>3, <4>4
      <3>4. /\ stage[serving[v]] \in Runs
            /\ stage[serving[v]] = "working" => by[serving[v]] = v
            /\ stage[serving[v]] # "working" => serving[v] = v
        BY <2>3 DEF IInv, ServedSound
      <3> QED
        BY <1>2, <2>3, <3>1, <3>2, <3>3, <3>4
    <2> QED
      BY <2>1, <2>2, <2>3
  <1>7. WorkSound'
    <2> SUFFICES ASSUME NEW u \in Triggers
                 PROVE  /\ by'[u] # None => stage'[u] = "working"
                        /\ stage'[u] = "working" =>
                             /\ by'[u] \in Triggers /\ InMemory(sess', by'[u])
                             /\ serving'[by'[u]] = u
                        /\ stage'[u] \in Runs \ {"working"} =>
                             InMemory(sess', u) /\ serving'[u] = u
      BY DEF WorkSound, Held
    <2>1. CASE u = t
      BY <1>1, <1>2, <2>1 DEF IInv, WorkSound
    <2>2. CASE u # t
      <3>1. by'[u] = by[u]
        BY <1>1, <2>2
      <3>2. CASE stage[u] = "working"
        BY <1>1, <1>2, <1>3, <2>2, <3>1, <3>2 DEF IInv, WorkSound, Runs
      <3>3. CASE stage[u] # "working"
        BY <1>1, <1>2, <1>3, <2>2, <3>1, <3>3 DEF IInv, WorkSound, Runs
      <3> QED
        BY <3>2, <3>3
    <2> QED
      BY <2>1, <2>2
  <1>8. WindowSound'
    <2> SUFFICES ASSUME NEW v \in window
                 PROVE  /\ v \notin Proactive
                        /\ \/ sess'[v] = "completed"
                           \/ /\ InMemory(sess', v) /\ serving'[v] = v
                              /\ stage'[v] \in {"working", "revived", "unslotted"}
                              /\ \A u \in Triggers : ~(stage'[u] = "reviving" /\ into[u] = v)
      BY DEF WindowSound, Held
    <2>1. v \in Triggers /\ v \notin Proactive
      BY DEF IInv, TypeOK, WindowSound
    <2>2. CASE v = s
      BY <1>1, <1>2, <2>1, <2>2
    <2>3. CASE v # s /\ sess[v] = "completed"
      BY <1>1, <2>1, <2>3
    <2>4. CASE v # s /\ sess[v] # "completed"
      <3>1. /\ Held(v) /\ serving[v] = v /\ v # t
            /\ stage[v] \in {"working", "revived", "unslotted"}
            /\ \A u \in Triggers : ~(stage[u] = "reviving" /\ into[u] = v)
        BY <1>4, <2>1, <2>4 DEF IInv, WindowSound
      <3>2. \A u \in Triggers : stage'[u] = "reviving" => stage[u] = "reviving"
        BY DEF Runs
      <3> QED
        BY <1>1, <1>2, <1>3, <2>1, <2>4, <3>1, <3>2 DEF Runs
    <2> QED
      BY <2>2, <2>3, <2>4
  <1>9. ResumeSound'
    <2>1. ASSUME NEW u \in Triggers \ Proactive, stage'[u] # "unseen", IsReplyToSession(u)
          PROVE  sess'[ReplyTo[u]] # "none"
      <3>1. stage[u] # "unseen" /\ ReplyTo[u] \in Triggers
        BY <2>1 DEF IsReplyToSession
      <3> QED
        BY <1>1, <2>1, <3>1 DEF IInv, ResumeSound
    <2>2. \A u \in Triggers : stage'[u] \in {"resuming", "accepting"} =>
                                u # t /\ stage'[u] = stage[u]
      BY DEF Runs
    <2>3. ASSUME NEW u \in Triggers, stage'[u] = "accepting"
          PROVE  /\ ReplyTo[u] \notin window
                 /\ InMemory(sess', ReplyTo[u]) => stage'[ReplyTo[u]] = "recovering"
      <3>1. u # t /\ stage[u] = "accepting" /\ ReplyTo[u] \in Triggers
        BY <2>2, <2>3 DEF IInv, ResumeSound, IsReplyToSession
      <3>2. /\ ReplyTo[u] \notin window
            /\ Held(ReplyTo[u]) => stage[ReplyTo[u]] = "recovering"
        BY <3>1 DEF IInv, ResumeSound
      <3>3. CASE ReplyTo[u] = s
        BY <3>1, <3>2, <3>3
      <3>4. CASE ReplyTo[u] # s
        BY <1>2, <1>3, <3>1, <3>2, <3>4 DEF Runs
      <3> QED
        BY <3>3, <3>4
    <2> QED
      BY <2>1, <2>2, <2>3 DEF IInv, ResumeSound, Held
  <1>10. PostSound'
    BY DEF IInv, PostSound, Runs
  <1>11. ClaimSound'
    <2>1. x = "working" <=> t \in claims
      BY DEF IInv, ClaimSound, Unattributed
    <2> QED
      BY <2>1 DEF IInv, ClaimSound, Unattributed, Runs
  <1>12. ParkedHaveOwner'
    <2> SUFFICES ASSUME NEW u \in Triggers, stage'[u] = "parked"
                 PROVE  \/ stage'[into[u]] \in Unattributed \cup {"lost", "leaked"}
                        \/ \E v \in Triggers : sess'[v] = "building" /\ serving'[v] = into[u]
      BY DEF ParkedHaveOwner
    <2>1. stage[u] = "parked" /\ into[u] \in Triggers
      BY DEF IInv, TypeOK, Runs
    <2>2. CASE stage[into[u]] \in Unattributed \cup {"lost", "leaked"}
      <3>1. CASE into[u] = t
        BY <1>1, <2>2, <3>1 DEF Unattributed
      <3>2. CASE into[u] # t
        BY <2>1, <2>2, <3>2 DEF Unattributed
      <3> QED
        BY <3>1, <3>2
    <2>3. CASE \E v \in Triggers : sess[v] = "building" /\ serving[v] = into[u]
      BY <1>1, <2>3 DEF Held, InMemory
    <2> QED
      BY <2>1, <2>2, <2>3 DEF IInv, ParkedHaveOwner
  <1> QED
    BY <1>5, <1>6, <1>7, <1>8, <1>9, <1>10, <1>11, <1>12 DEF IInv

\* launchSession and runResumeSession: the claim is attributed to the session, and the
\* slot stays with the trigger.
LEMMA AttachGood ==
    ASSUME IInv, NEW t \in Triggers, NEW s \in Triggers, Attach(t, s),
           stage[t] \in {"launching", "accepting"}, ~Held(s), s \notin window,
           s # t => stage[s] = "done" /\ sess[s] # "none" /\ sess[t] = "none",
           \A u \in Triggers \ {t} : stage[u] = "accepting" => ReplyTo[u] # s
    PROVE  IInv'
PROOF
  <1>1. /\ sess' = [sess EXCEPT ![s] = "building"]
        /\ serving' = [serving EXCEPT ![s] = t]
        /\ stage' = [stage EXCEPT ![t] = "working"]
        /\ by' = [by EXCEPT ![t] = s]
        /\ UNCHANGED <<coordinator, claims, older, via, into, window>>
    BY DEF Attach
  <1>2. "working" \in Runs /\ "working" \in Stages
    BY DEF Runs, Stages
  <1>3. /\ \A v \in Triggers : sess'[v] = IF v = s THEN "building" ELSE sess[v]
        /\ \A v \in Triggers : serving'[v] = IF v = s THEN t ELSE serving[v]
        /\ \A c \in Triggers : by'[c] = IF c = t THEN s ELSE by[c]
        /\ \A u \in Triggers : stage'[u] = IF u = t THEN "working" ELSE stage[u]
    BY <1>1 DEF IInv, TypeOK
  <1>4. TypeOK'
    BY <1>1, <1>2 DEF IInv, TypeOK, coordinator
  <1>5. HoldersIn(stage') = HoldersIn(stage)
    BY <1>3 DEF HoldersIn, Unattributed, Runs
  <1>6. QueueSound' /\ SlotAccounting'
    <2>1. \A u \in Triggers : stage'[u] = "queued" <=> stage[u] = "queued"
      BY <1>3
    <2> QED
      BY <1>1, <1>5, <2>1, SlotsKept
  <1>7. t \notin Proactive
    BY DEF IInv, PostSound
  <1> QED
    BY <1>1, <1>2, <1>3, <1>4, <1>6, <1>7, Started

LEMMA RegisterGood ==
    ASSUME IInv, NEW t \in Triggers, Register(t)
    PROVE  IInv'
PROOF
  <1>1. stage[t] = "launching" /\ Attach(t, t)
    BY DEF Register
  <1>2. sess[t] = "none"
    BY <1>1 DEF IInv, RecordSound, Runs
  <1>3. ~Held(t) /\ t \notin window
    BY <1>2 DEF Held, InMemory, IInv, WindowSound
  <1>4. ASSUME NEW u \in Triggers \ {t}, stage[u] = "accepting"
        PROVE  ReplyTo[u] # t
    <2>1. u \notin Proactive /\ IsReplyToSession(u)
      BY <1>4 DEF IInv, PostSound, ResumeSound
    <2> QED
      BY <1>2, <1>4, <2>1 DEF IInv, ResumeSound
  <1> QED
    BY <1>1, <1>3, <1>4, AttachGood

LEMMA ResumeAcceptedGood ==
    ASSUME IInv, NEW t \in Triggers, ResumeAccepted(t)
    PROVE  IInv'
PROOF
  <1> DEFINE s == ReplyTo[t]
  <1>1. stage[t] = "accepting" /\ sess[s] = "completed" /\ Attach(t, s)
    BY DEF ResumeAccepted
  <1>2. s \in Triggers /\ s \notin window
    BY <1>1 DEF IInv, ResumeSound, IsReplyToSession
  <1>3. stage[s] = "done" /\ ~Held(s)
    BY <1>1, <1>2 DEF IInv, RecordSound, Held, InMemory
  <1>4. sess[t] = "none"
    BY <1>1 DEF IInv, RecordSound, Runs
  <1>5. \A u \in Triggers \ {t} : stage[u] = "accepting" => ReplyTo[u] # s
    BY <1>1 DEF IInv, ResumeSound
  <1> HIDE DEF s
  <1> QED
    BY <1>1, <1>2, <1>3, <1>4, <1>5, AttachGood

\* tryAcquire: a run that is no trigger's takes a slot that is free.
LEMMA BeginsGood ==
    ASSUME IInv, NEW s \in Triggers, NEW kind \in {"posting", "recovering"}, Begins(s, kind),
           ~Held(s), s \notin window, stage[s] \in {"unseen", "done"},
           stage[s] = "unseen" => s \in Proactive,
           kind = "posting" => /\ s \in Proactive
                               /\ \A u \in Triggers : stage[u] = "accepting" => ReplyTo[u] # s
    PROVE  IInv'
PROOF
  <1>1. /\ slots < Limit /\ slots' = slots + 1
        /\ sess' = [sess EXCEPT ![s] = "building"]
        /\ stage' = [stage EXCEPT ![s] = kind]
        /\ UNCHANGED <<queue, registry, via, into, serving, window>>
    BY DEF Begins
  <1>2. kind \in Runs \ {"working", "unslotted"} /\ kind \in Stages /\ kind # "working"
    BY DEF Runs, Stages
  <1>3. /\ \A v \in Triggers : sess'[v] = IF v = s THEN "building" ELSE sess[v]
        /\ \A u \in Triggers : stage'[u] = IF u = s THEN kind ELSE stage[u]
    BY <1>1 DEF IInv, TypeOK
  <1>4. serving[s] = s
    BY DEF IInv, ServedSound
  <1>5. TypeOK'
    BY <1>1, <1>2 DEF IInv, TypeOK, registry
  <1>6. queue' = queue /\ queue = <<>>
    BY <1>1, SessionsAssumption DEF IInv, QueueSound, TypeOK
  <1>7. QueueSound'
    BY <1>3, <1>6 DEF IInv, QueueSound
  <1>8. HoldersIn(stage') = HoldersIn(stage) \cup {s} /\ s \notin HoldersIn(stage)
    BY <1>2, <1>3 DEF HoldersIn, Unattributed, Runs
  <1>9. Cardinality(HoldersIn(stage')) = Cardinality(HoldersIn(stage)) + 1
    BY <1>8, OneMore DEF HoldersIn
  <1>10. SlotAccounting'
    BY <1>1, <1>9, SessionsAssumption DEF IInv, SlotAccounting, TypeOK
  <1>11. \A v \in Triggers : serving'[v] = IF v = s THEN s ELSE serving[v]
    BY <1>1, <1>4
  <1>12. /\ \A c \in Triggers : by'[c] = IF c = s /\ kind = "working" THEN s ELSE by[c]
         /\ window' = window /\ into' = into /\ claims' = claims
    BY <1>1, <1>2 DEF registry
  <1> QED
    BY <1>2, <1>3, <1>5, <1>7, <1>10, <1>11, <1>12, Started

LEMMA PostGood ==
    ASSUME IInv, NEW p \in Triggers, Post(p)
    PROVE  IInv'
PROOF
  <1>1. p \in Proactive /\ stage[p] = "unseen" /\ Begins(p, "posting")
    BY DEF Post
  <1>2. sess[p] = "none"
    BY <1>1 DEF IInv, RecordSound, Runs
  <1>3. ~Held(p) /\ p \notin window
    BY <1>2 DEF Held, InMemory, IInv, WindowSound
  <1>4. ASSUME NEW u \in Triggers, stage[u] = "accepting"
        PROVE  ReplyTo[u] # p
    <2>1. u \notin Proactive /\ IsReplyToSession(u)
      BY <1>4 DEF IInv, PostSound, ResumeSound
    <2> QED
      BY <1>2, <1>4, <2>1 DEF IInv, ResumeSound
  <1> QED
    BY <1>1, <1>3, <1>4, BeginsGood

LEMMA RecoverGood ==
    ASSUME IInv, NEW s \in Triggers, Recover(s)
    PROVE  IInv'
PROOF
  <1>1. sess[s] \in {"failed", "stopped"} /\ stage[s] # "closing" /\ Begins(s, "recovering")
    BY DEF Recover, Parked
  <1>2. ~Held(s) /\ s \notin window
    BY <1>1 DEF Held, InMemory, IInv, WindowSound
  <1>3. stage[s] \notin Runs
    <2>1. stage[s] \in Runs \ {"working"} => FALSE
      BY <1>2 DEF IInv, WorkSound
    <2>2. stage[s] = "working" => FALSE
      BY <1>1, <1>2 DEF IInv, WorkSound, ServedSound
    <2> QED
      BY <2>1, <2>2
  <1>4. stage[s] = "done"
    BY <1>1, <1>3 DEF IInv, RecordSound
  <1> QED
    BY <1>1, <1>2, <1>4, BeginsGood

\* A completed session runs again, in a slot or beside them, or gives back what it had
\* not read.
LEMMA ReviveGood ==
    ASSUME IInv, NEW s \in Triggers, Revive(s)
    PROVE  IInv'
PROOF
  <1> DEFINE late(u) == stage[u] = "reviving" /\ into[u] = s
  <1>1. PICK u0 \in Triggers : late(u0)
    BY DEF Revive
  <1>2. claims' = claims /\ older' = older /\ by' = by
    BY DEF Revive, registry
  <1>3. CASE s \in window
    <2> DEFINE x == IF slots < Limit THEN "revived" ELSE "unslotted"
    <2>1. /\ slots' = IF slots < Limit THEN slots + 1 ELSE slots
          /\ sess' = [sess EXCEPT ![s] = "running"]
          /\ serving' = [serving EXCEPT ![s] = s]
          /\ stage' = [u \in Triggers |-> IF late(u) THEN "read"
                                          ELSE IF u # s THEN stage[u] ELSE x]
          /\ via' = [u \in Triggers |-> IF late(u) THEN "revival" ELSE via[u]]
          /\ queue' = queue /\ into' = into /\ window' = window
      BY <1>3 DEF Revive
    <2>2. sess[s] = "completed" /\ s \notin Proactive
      BY <1>1, <1>3 DEF IInv, WindowSound
    <2>3. stage[s] = "done" /\ ~Held(s)
      BY <2>2 DEF IInv, RecordSound, Held, InMemory
    <2>4. x \in Runs \ {"working"} /\ x \in Stages /\ "read" \in Stages
          /\ x \in {"revived", "unslotted"}
      BY DEF Runs, Stages
    <2>5. /\ \A v \in Triggers : sess'[v] = IF v = s THEN "running" ELSE sess[v]
          /\ \A v \in Triggers : serving'[v] = IF v = s THEN s ELSE serving[v]
      BY <2>1 DEF IInv, TypeOK
    <2>6. /\ \A u \in Triggers : stage'[u] = IF late(u) THEN "read"
                                            ELSE IF u # s THEN stage[u] ELSE x
      BY <2>1
    <2>7. TypeOK'
      <3>1. stage' \in [Triggers -> Stages]
        <4> HIDE DEF x
        <4>1. \A u \in Triggers : stage'[u] \in Stages
          BY <2>4, <2>6 DEF IInv, TypeOK
        <4> QED
          BY <2>1, <4>1
      <3>2. via' \in [Triggers -> {None, "inbound", "redispatch", "queue", "reply",
                                   "co-reply", "revival"}]
        BY <2>1 DEF IInv, TypeOK
      <3>3. /\ sess' \in [Triggers -> {"none", "building", "running", "ending", "failing",
                               "interrupted", "completed", "discarded", "failed", "stopped"}]
            /\ serving' \in [Triggers -> Triggers] /\ slots' \in Nat
        BY <2>1 DEF IInv, TypeOK
      <3> QED
        BY <1>2, <2>1, <3>1, <3>2, <3>3 DEF IInv, TypeOK
    <2>8. QueueSound'
      <3>1. \A u \in Triggers : stage'[u] = "queued" <=> stage[u] = "queued"
        BY <2>3, <2>4, <2>6
      <3>2. queue # <<>> => slots' = Limit
        BY <2>1, SessionsAssumption DEF IInv, QueueSound, TypeOK
      <3> QED
        BY <2>1, <3>1, <3>2 DEF IInv, QueueSound
    <2>9. SlotAccounting'
      <3>1. CASE slots < Limit
        <4>1. HoldersIn(stage') = HoldersIn(stage) \cup {s} /\ s \notin HoldersIn(stage)
          BY <2>3, <2>6, <3>1 DEF HoldersIn, Unattributed, Runs
        <4>2. Cardinality(HoldersIn(stage')) = Cardinality(HoldersIn(stage)) + 1
          BY <4>1, OneMore DEF HoldersIn
        <4> QED
          BY <2>1, <3>1, <4>2, SessionsAssumption DEF IInv, SlotAccounting, TypeOK
      <3>2. CASE ~(slots < Limit)
        <4>1. HoldersIn(stage') = HoldersIn(stage)
          BY <2>3, <2>6, <3>2 DEF HoldersIn, Unattributed, Runs
        <4> QED
          BY <2>1, <3>2, <4>1 DEF IInv, SlotAccounting
      <3> QED
        BY <3>1, <3>2
    <2> HIDE DEF x
    <2>10. stage'[s] = x
      BY <2>3, <2>6
    <2>11. \A u \in Triggers \ {s} :
              stage'[u] = stage[u] \/ (stage[u] = "reviving" /\ stage'[u] = "read")
      BY <2>6
    <2>12. /\ s = s /\ x \in {"revived", "unslotted"}
           /\ \A u \in Triggers : ~(stage'[u] = "reviving" /\ into[u] = s)
      BY <2>4, <2>6
    <2>13. \A u \in Triggers \ {s} : stage[u] = "accepting" => ReplyTo[u] # s
      BY <1>3 DEF IInv, ResumeSound
    <2>14. \A c \in Triggers : by'[c] = IF c = s /\ x = "working" THEN s ELSE by[c]
      BY <1>2, <2>4
    <2> QED
      BY <1>2, <2>1, <2>2, <2>3, <2>4, <2>5, <2>7, <2>8, <2>9, <2>10, <2>11, <2>12, <2>13,
         <2>14, Started
  <1>4. CASE s \notin window
    <2>1. /\ UNCHANGED <<coordinator, registry, serving>>
          /\ window' = window /\ sess' = sess /\ via' = via
          /\ stage' = [u \in Triggers |-> IF late(u) THEN "regrouping" ELSE stage[u]]
          /\ into' = [u \in Triggers |-> IF late(u) THEN u ELSE into[u]]
      BY <1>4 DEF Revive
    <2>2. \A u \in Triggers :
              \/ stage'[u] = stage[u]
              \/ /\ stage[u] \in {"parked", "unread", "read", "reviving"}
                 /\ stage'[u] \in {"conditioning", "unread", "read", "regrouping", "dropped"}
      BY <2>1
    <2>3. \A u \in Triggers : stage'[u] \in {"parked", "reviving"} => into'[u] = into[u]
      BY <2>1
    <2>4. TypeOK'
      <3>1. \A u \in Triggers : stage'[u] \in Stages /\ into'[u] \in Triggers
        BY <2>1 DEF IInv, TypeOK, Stages
      <3>2. stage' \in [Triggers -> Stages] /\ into' \in [Triggers -> Triggers]
        BY <2>1, <3>1
      <3> QED
        BY <2>1, <3>2 DEF IInv, TypeOK, coordinator, registry
    <2> QED
      BY <2>1, <2>2, <2>3, <2>4, WaitersMove
  <1> QED
    BY <1>3, <1>4

-----------------------------------------------------------------------------
(***************************************************************************)
(* A slot is given back outside the end of a session.                      *)
(***************************************************************************)
LEMMA DrainGood ==
    ASSUME IInv, TypeOK', ClaimSound', by' = by, into' = into, UNCHANGED records,
           NEW st,
           \A u \in Triggers :
              \/ st[u] = stage[u]
              \/ stage[u] = "accepting" /\ st[u] = "lost"
              \/ stage[u] = "closing" /\ st[u] = "done",
           Passed(st, sess, window)
    PROVE  IInv'
PROOF
  <1>1. /\ \A u \in Triggers : stage[u] # "queued" => stage'[u] = st[u]
        /\ \A u \in Triggers : stage[u] = "queued" =>
              stage'[u] \in {"queued", "launching", "resuming"}
        /\ \A u \in Triggers : stage[u] = "queued" /\ stage'[u] = "resuming" =>
              IsReplyToSession(u) /\ ReplyTo[u] \notin ResumeClaims(st)
        /\ QueueSound' /\ SlotAccounting'
    BY DEF Passed
  <1>2. \A u, v \in Triggers :
              stage[u] = "queued" /\ stage'[u] = "resuming" /\ stage[v] = "queued"
                    /\ stage'[v] = "resuming" => u = v
    BY DEF Passed
  <1>3. sess' = sess /\ serving' = serving /\ window' = window
    BY DEF records
  <1>4. \A u \in Triggers : stage[u] \in {"accepting", "queued"} => u \notin Proactive
    BY DEF IInv, PostSound
  <1>5. \A u \in Triggers :
              \/ stage'[u] = stage[u]
              \/ stage[u] = "closing" /\ stage'[u] = "done"
              \/ /\ u \notin Proactive
                 /\ stage[u] \notin Runs \cup {"closing", "done", "lost", "leaked"}
                 /\ stage'[u] \notin Runs \cup {"closing", "unseen", "reviving"}
    BY <1>1, <1>4 DEF Runs
  <1>6. /\ \A u \in Triggers : stage[u] \in Unattributed =>
                                    stage'[u] \in Unattributed \cup {"lost", "leaked"}
        /\ \A u \in Triggers : stage[u] = "unseen" /\ stage'[u] # "unseen" => TargetExists(u)
    BY <1>1 DEF Unattributed
  <1>7. \A u \in Triggers : stage'[u] = "parked" => stage[u] = "parked"
    BY <1>1
  <1>8. ASSUME NEW u \in Triggers, stage'[u] \in {"resuming", "accepting"},
               stage[u] \notin {"resuming", "accepting"}
        PROVE  /\ IsReplyToSession(u)
               /\ \A v \in Triggers : stage'[v] \in {"resuming", "accepting"} /\ v # u =>
                        ReplyTo[v] # ReplyTo[u]
    <2>1. stage[u] = "queued" /\ stage'[u] = "resuming"
      BY <1>1, <1>8
    <2>2. ASSUME NEW v \in Triggers, stage'[v] \in {"resuming", "accepting"}, v # u
          PROVE  ReplyTo[v] # ReplyTo[u]
      <3>1. CASE stage[v] = "queued"
        BY <1>1, <1>2, <2>1, <2>2, <3>1
      <3>2. CASE stage[v] # "queued"
        BY <1>1, <2>1, <2>2, <3>2 DEF ResumeClaims
      <3> QED
        BY <3>1, <3>2
    <2> QED
      BY <1>1, <2>1, <2>2
  <1>9. \A u \in Triggers : stage'[u] = "accepting" => stage[u] = "accepting"
    BY <1>1
  <1> QED
    BY <1>1, <1>3, <1>5, <1>6, <1>7, <1>8, <1>9, Quiet

\* The slot of a run that failed is released after its session has settled.
LEMMA CloseGood ==
    ASSUME IInv, NEW t \in Triggers, Close(t)
    PROVE  IInv'
PROOF
  <1> DEFINE st == [stage EXCEPT ![t] = "done"]
  <1>1. /\ stage[t] = "closing" /\ Drain(st, sess, window)
        /\ UNCHANGED <<registry, into, records>>
    BY DEF Close
  <1>2. /\ \A u \in Triggers : st[u] = IF u = t THEN "done" ELSE stage[u]
        /\ st \in [Triggers -> Stages]
    BY DEF IInv, TypeOK, Stages
  <1> HIDE DEF st
  <1>3. /\ HoldersIn(st) = HoldersIn(stage) \ {t}
        /\ t \in HoldersIn(stage) /\ HoldersIn(stage) \subseteq Triggers
    BY <1>1, <1>2 DEF HoldersIn, Unattributed, Runs
  <1>4. slots = Cardinality(HoldersIn(st)) + 1 /\ slots <= Limit
    BY <1>3, OneLess, FiniteTriggers DEF IInv, SlotAccounting
  <1>5. \A u \in Triggers : st[u] = "queued" <=> stage[u] = "queued"
    BY <1>1, <1>2
  <1>6. Passed(st, sess, window)
    BY <1>1, <1>2, <1>4, <1>5, Drained DEF IInv
  <1>7. TypeOK'
    BY <1>1, <1>6 DEF IInv, TypeOK, Passed, registry, records
  <1>8. ClaimSound'
    <2>1. /\ \A u \in Triggers : stage[u] # "queued" => stage'[u] = st[u]
          /\ \A u \in Triggers : stage[u] = "queued" =>
                stage'[u] \in {"queued", "launching", "resuming"}
      BY <1>6 DEF Passed
    <2> QED
      BY <1>1, <1>2, <2>1 DEF IInv, ClaimSound, Unattributed, registry
  <1>9. /\ UNCHANGED records /\ by' = by /\ into' = into
        /\ \A u \in Triggers :
              \/ st[u] = stage[u]
              \/ stage[u] = "accepting" /\ st[u] = "lost"
              \/ stage[u] = "closing" /\ st[u] = "done"
    BY <1>1, <1>2 DEF registry
  <1> QED
    BY <1>6, <1>7, <1>8, <1>9, DrainGood

\* A launch that throws: whoever called it, no slot is counted twice.
LEMMA LaunchThrowsGood ==
    ASSUME IInv, NEW t \in Triggers, LaunchThrows(t)
    PROVE  IInv'
PROOF
  <1> DEFINE lost == [stage EXCEPT ![t] = "lost"]
  <1>1. /\ stage[t] = "accepting" /\ Unclaim({t}) /\ UNCHANGED <<into, records>>
    BY DEF LaunchThrows
  <1>2. by[t] = None /\ t \notin Proactive
    BY <1>1, SessionsAssumption DEF IInv, WorkSound, PostSound
  <1>3. /\ claims' = claims \ {t} /\ claims' \subseteq Triggers /\ by' = by /\ into' = into
        /\ older' \in [Triggers -> SUBSET Triggers]
        /\ sess' = sess /\ serving' = serving /\ window' = window
    BY <1>1, <1>2 DEF Unclaim, IInv, TypeOK, records
  <1>4. /\ \A u \in Triggers : lost[u] = IF u = t THEN "lost" ELSE stage[u]
        /\ lost \in [Triggers -> Stages]
        /\ \A u \in Triggers : lost[u] = "queued" <=> stage[u] = "queued"
    BY <1>1 DEF IInv, TypeOK, Stages
  <1>5. \/ /\ stage' = [u \in Triggers |->
                             IF stage[u] = "parked" /\ into[u] = t THEN "regrouping"
                             ELSE IF u = t THEN "leaked" ELSE stage[u]]
           /\ UNCHANGED <<coordinator, via>>
        \/ Drain(lost, sess, window)
        \/ /\ queue # <<>> /\ queue' = Tail(queue)
           /\ stage' = [lost EXCEPT ![Head(queue)] = "leaked"]
           /\ UNCHANGED <<slots, via>>
    BY DEF LaunchThrows, Drain
  <1> HIDE DEF lost
  <1>6. CASE /\ stage' = [u \in Triggers |->
                             IF stage[u] = "parked" /\ into[u] = t THEN "regrouping"
                             ELSE IF u = t THEN "leaked" ELSE stage[u]]
             /\ UNCHANGED <<coordinator, via>>
    <2>1. \A u \in Triggers :
            stage'[u] = IF stage[u] = "parked" /\ into[u] = t THEN "regrouping"
                        ELSE IF u = t THEN "leaked" ELSE stage[u]
      BY <1>6
    <2>2. stage' \in [Triggers -> Stages]
      <3>1. \A u \in Triggers : stage'[u] \in Stages
        BY <2>1 DEF IInv, TypeOK, Stages
      <3> QED
        BY <1>6, <3>1
    <2>3. TypeOK'
      BY <1>3, <1>6, <2>2 DEF IInv, TypeOK, coordinator
    <2>4. HoldersIn(stage') = HoldersIn(stage)
      BY <1>1, <2>1 DEF HoldersIn, Unattributed, Runs
    <2>5. QueueSound' /\ SlotAccounting'
      <3>1. \A u \in Triggers : stage'[u] = "queued" <=> stage[u] = "queued"
        BY <1>1, <2>1
      <3> QED
        BY <1>6, <2>4, <3>1, SlotsKept
    <2>6. ClaimSound'
      BY <1>1, <1>3, <2>1 DEF IInv, ClaimSound, Unattributed
    <2>7. \A u \in Triggers :
              \/ stage'[u] = stage[u]
              \/ stage[u] = "closing" /\ stage'[u] = "done"
              \/ /\ u \notin Proactive
                 /\ stage[u] \notin Runs \cup {"closing", "done", "lost", "leaked"}
                 /\ stage'[u] \notin Runs \cup {"closing", "unseen", "reviving"}
      BY <1>1, <1>2, <2>1 DEF IInv, PostSound, Runs
    <2>8. /\ \A u \in Triggers : stage[u] \in Unattributed =>
                                    stage'[u] \in Unattributed \cup {"lost", "leaked"}
          /\ \A u \in Triggers : stage[u] = "unseen" /\ stage'[u] # "unseen" => TargetExists(u)
          /\ \A u \in Triggers : stage'[u] = "parked" => stage[u] = "parked"
          /\ \A u \in Triggers : stage'[u] \in {"resuming", "accepting"} =>
                                    stage[u] \in {"resuming", "accepting"}
          /\ \A u \in Triggers : stage'[u] = "accepting" => stage[u] = "accepting"
      BY <1>1, <2>1 DEF Unattributed
    <2> QED
      BY <1>3, <2>3, <2>5, <2>6, <2>7, <2>8, Quiet
  <1>7. CASE Drain(lost, sess, window)
    <2>1. /\ HoldersIn(lost) = HoldersIn(stage) \ {t}
          /\ t \in HoldersIn(stage) /\ HoldersIn(stage) \subseteq Triggers
      BY <1>1, <1>4 DEF HoldersIn, Unattributed, Runs
    <2>2. slots = Cardinality(HoldersIn(lost)) + 1 /\ slots <= Limit
      BY <2>1, OneLess, FiniteTriggers DEF IInv, SlotAccounting
    <2>3. Passed(lost, sess, window)
      BY <1>4, <1>7, <2>2, Drained DEF IInv
    <2>4. /\ \A u \in Triggers : stage[u] # "queued" => stage'[u] = lost[u]
          /\ \A u \in Triggers : stage[u] = "queued" =>
                stage'[u] \in {"queued", "launching", "resuming"}
      BY <2>3 DEF Passed
    <2>5. TypeOK'
      BY <1>3, <2>3 DEF IInv, TypeOK, Passed
    <2>6. ClaimSound'
      BY <1>1, <1>3, <1>4, <2>4 DEF IInv, ClaimSound, Unattributed
    <2>7. UNCHANGED records
          /\ \A u \in Triggers :
              \/ lost[u] = stage[u]
              \/ stage[u] = "accepting" /\ lost[u] = "lost"
              \/ stage[u] = "closing" /\ lost[u] = "done"
      BY <1>1, <1>4
    <2> QED
      BY <1>3, <2>3, <2>5, <2>6, <2>7, DrainGood
  <1>8. CASE /\ queue # <<>> /\ queue' = Tail(queue)
             /\ stage' = [lost EXCEPT ![Head(queue)] = "leaked"]
             /\ UNCHANGED <<slots, via>>
    <2> DEFINE h == Head(queue)
    <2>1. "leaked" \in Stages \ {"queued"} /\ TypeOK /\ QueueSound
      BY DEF Stages, IInv
    <2>2. /\ h \in Triggers /\ stage[h] = "queued"
          /\ queue' \in Seq(Triggers) /\ Len(queue') <= MaxQueued
          /\ QueueSound'
      BY <1>4, <1>8, <2>1, HeadLeaves
    <2> HIDE DEF h
    <2>3. /\ stage' \in [Triggers -> Stages]
          /\ \A u \in Triggers : stage'[u] = IF u = h THEN "leaked"
                                            ELSE IF u = t THEN "lost" ELSE stage[u]
          /\ h # t
      BY <1>1, <1>4, <1>8, <2>1, <2>2 DEF h
    <2>4. SlotAccounting'
      <3>1. /\ HoldersIn(stage') = (HoldersIn(stage) \ {t}) \cup {h}
            /\ t \in HoldersIn(stage) /\ h \notin HoldersIn(stage) \ {t}
            /\ HoldersIn(stage) \ {t} \subseteq Triggers /\ HoldersIn(stage) \subseteq Triggers
        BY <1>1, <2>2, <2>3 DEF HoldersIn, Unattributed, Runs
      <3>2. Cardinality(HoldersIn(stage')) = Cardinality(HoldersIn(stage) \ {t}) + 1
        BY <2>2, <3>1, OneMore
      <3>3. Cardinality(HoldersIn(stage) \ {t}) = Cardinality(HoldersIn(stage)) - 1
        BY <3>1, OneLess
      <3>4. Cardinality(HoldersIn(stage)) \in Nat
        BY <3>1, FiniteTriggers
      <3> QED
        BY <1>8, <3>2, <3>3, <3>4 DEF IInv, SlotAccounting
    <2>5. TypeOK'
      BY <1>3, <1>8, <2>2, <2>3 DEF IInv, TypeOK
    <2>6. ClaimSound'
      BY <1>1, <1>3, <2>2, <2>3 DEF IInv, ClaimSound, Unattributed
    <2>7. h \notin Proactive
      BY <2>2 DEF IInv, PostSound
    <2>8. \A u \in Triggers :
              \/ stage'[u] = stage[u]
              \/ stage[u] = "closing" /\ stage'[u] = "done"
              \/ /\ u \notin Proactive
                 /\ stage[u] \notin Runs \cup {"closing", "done", "lost", "leaked"}
                 /\ stage'[u] \notin Runs \cup {"closing", "unseen", "reviving"}
      BY <1>1, <1>2, <2>2, <2>3, <2>7 DEF Runs
    <2>9. /\ \A u \in Triggers : stage[u] \in Unattributed =>
                                    stage'[u] \in Unattributed \cup {"lost", "leaked"}
          /\ \A u \in Triggers : stage[u] = "unseen" /\ stage'[u] # "unseen" => TargetExists(u)
          /\ \A u \in Triggers : stage'[u] = "parked" => stage[u] = "parked"
          /\ \A u \in Triggers : stage'[u] \in {"resuming", "accepting"} =>
                                    stage[u] \in {"resuming", "accepting"}
          /\ \A u \in Triggers : stage'[u] = "accepting" => stage[u] = "accepting"
      BY <1>1, <2>2, <2>3 DEF Unattributed
    <2> QED
      BY <1>3, <2>2, <2>4, <2>5, <2>6, <2>8, <2>9, Quiet
  <1> QED
    BY <1>5, <1>6, <1>7, <1>8

-----------------------------------------------------------------------------
(***************************************************************************)
(* A run ends.                                                             *)
(***************************************************************************)
LEMMA EndGood ==
    ASSUME IInv, NEW s \in Triggers,
           \/ BuildFails(s) \/ ResumeThrows(s) \/ Complete(s) \/ RecoveryFails(s)
           \/ InterruptedSettles(s)
    PROVE  IInv'
PROOF
  <1>1. CASE BuildFails(s)
    <2>1. Held(s) /\ Leave(s, "discarded", "done") /\ "discarded" \in Ends
      BY <1>1 DEF BuildFails, Held, InMemory, Ends
    <2> QED
      BY <2>1, LeaveGood
  <1>2. CASE ResumeThrows(s)
    <2>1. /\ Held(s) /\ Leave(s, "discarded", "regrouping") /\ serving[s] # s
          /\ "discarded" \in Ends
      BY <1>2 DEF ResumeThrows, Held, InMemory, Ends
    <2> QED
      BY <2>1, LeaveGood
  <1>3. CASE Complete(s)
    <2>1. Held(s) /\ Leave(s, "completed", "done") /\ "completed" \in Ends
      BY <1>3 DEF Complete, Held, InMemory, Ends
    <2> QED
      BY <2>1, LeaveGood
  <1>4. CASE RecoveryFails(s)
    <2>1. Held(s) /\ Leave(s, "failed", "done") /\ "failed" \in Ends
      BY <1>4 DEF RecoveryFails, Held, InMemory, Ends
    <2> QED
      BY <2>1, LeaveGood
  <1>5. CASE InterruptedSettles(s)
    <2>1. Held(s) /\ Leave(s, "stopped", "done") /\ "stopped" \in Ends
      BY <1>5 DEF InterruptedSettles, Held, InMemory, Ends
    <2> QED
      BY <2>1, LeaveGood
  <1> QED
    BY <1>1, <1>2, <1>3, <1>4, <1>5

\* A run that fails settles first and keeps its slot, if it has one, until it is closed.
LEMMA FailSettlesGood ==
    ASSUME IInv, NEW s \in Triggers, FailSettles(s)
    PROVE  IInv'
PROOF
  <1> DEFINE t == serving[s]
             after == IF stage[t] = "unslotted" THEN "done" ELSE "closing"
             st == Settled(s, "failed", after)
  <1>1. /\ sess[s] = "failing" /\ Evict(s, "failed") /\ stage' = st
        /\ UNCHANGED coordinator /\ via' = via
    BY DEF FailSettles
  <1>2. Held(s) /\ "failed" \in Ends /\ after \in {"done", "closing", "regrouping"}
    BY <1>1 DEF Held, InMemory, Ends
  <1>3. /\ t \in Triggers /\ stage[t] \in Runs /\ st \in [Triggers -> Stages]
        /\ \A u \in Triggers : st[u] = "queued" <=> stage[u] = "queued"
    BY <1>2, SettledStages
  <1>4. HoldersIn(st) = IF after = "closing" THEN HoldersIn(stage) \cup {t}
                                             ELSE HoldersIn(stage) \ {t}
    BY <1>2, SettledHolders
  <1> HIDE DEF st
  <1>5. HoldersIn(st) = HoldersIn(stage)
    BY <1>3, <1>4 DEF HoldersIn, Unattributed, Runs
  <1>6. Passed(st, sess', window')
    BY <1>1, <1>3, <1>5, NothingDrained DEF IInv, TypeOK
  <1>7. after = "closing" => "failed" = "failed"
    OBVIOUS
  <1>8. after # "regrouping"
    OBVIOUS
  <1> HIDE DEF after, t
  <1> QED
    BY <1>1, <1>2, <1>6, <1>7, <1>8, Left DEF st

-----------------------------------------------------------------------------
LEMMA InitGood == Init => IInv
PROOF
  <1> SUFFICES ASSUME Init PROVE IInv
    OBVIOUS
  <1>1. /\ slots = 0 /\ queue = <<>> /\ claims = {} /\ window = {}
        /\ \A t \in Triggers : /\ by[t] = None /\ stage[t] = "unseen" /\ sess[t] = "none"
                               /\ serving[t] = t
    BY DEF Init
  <1>2. TypeOK
    BY SessionsAssumption DEF Init, TypeOK, Stages
  <1>3. HoldersIn(stage) = {}
    BY <1>1 DEF HoldersIn, Unattributed, Runs
  <1>4. SlotAccounting
    BY <1>1, <1>3, FS_EmptySet, SessionsAssumption DEF SlotAccounting
  <1>5. QueueSound /\ RecordSound /\ ServedSound /\ WorkSound /\ WindowSound
    BY <1>1 DEF QueueSound, RecordSound, ServedSound, WorkSound, WindowSound, Held,
                InMemory, Runs
  <1>6. ResumeSound /\ PostSound /\ ClaimSound /\ ParkedHaveOwner
    BY <1>1 DEF ResumeSound, PostSound, ClaimSound, ParkedHaveOwner, Unattributed
  <1> QED
    BY <1>2, <1>4, <1>5, <1>6 DEF IInv

LEMMA NextGood == IInv /\ [Next]_vars => IInv'
PROOF
  <1> SUFFICES ASSUME IInv, [Next]_vars PROVE IInv'
    OBVIOUS
  <1>1. CASE Next
    <2>1. PICK t \in Triggers :
            \/ t \notin Proactive /\ (SteerReply(t) \/ Coalesce(t) \/ Spawn(t))
            \/ Post(t)
            \/ Recover(t)
            \/ TriggerStep(t)
            \/ LaunchThrows(t)
            \/ SpinOff(t)
            \/ SessionStep(t)
            \/ ResumeThrows(t)
            \/ Interrupt(t)
            \/ Expire(t)
      BY <1>1 DEF Next
    <2>2. CASE t \notin Proactive /\ (SteerReply(t) \/ Coalesce(t) \/ Spawn(t))
      BY <2>2, SteerReplyGood, CoalesceGood, SpawnGood
    <2>3. CASE Post(t) \/ Recover(t)
      BY <2>3, PostGood, RecoverGood
    <2>4. CASE TriggerStep(t)
      BY <2>4, GroupResolvedGood, RegroupedGood, ConditionedGood, RegisterGood,
         ResumeAwaitedGood, ResumeAcceptedGood, ResumeDeclinedGood, CloseGood DEF TriggerStep
    <2>5. CASE LaunchThrows(t) \/ SpinOff(t) \/ Interrupt(t) \/ Expire(t)
      BY <2>5, LaunchThrowsGood, SpinOffGood, InterruptGood, ExpireGood
    <2>6. CASE RolloutEnds(t)
      BY <2>6, RecordMoves DEF RolloutEnds
    <2>7. CASE RunFails(t)
      BY <2>7, RecordMoves DEF RunFails
    <2>8. CASE SessionStep(t) \/ ResumeThrows(t)
      BY <2>6, <2>7, <2>8, GoLiveGood, EndGood, ReadSteersGood, FailSettlesGood, ReviveGood
         DEF SessionStep
    <2> QED
      BY <2>1, <2>2, <2>3, <2>4, <2>5, <2>8
  <1>2. CASE UNCHANGED vars
    <2>1. /\ slots' = slots /\ queue' = queue /\ claims' = claims /\ older' = older /\ by' = by
          /\ stage' = stage /\ via' = via /\ into' = into /\ sess' = sess
          /\ serving' = serving /\ window' = window
      BY <1>2 DEF vars
    <2>2. TypeOK' /\ QueueSound' /\ SlotAccounting' /\ RecordSound'
      BY <2>1 DEF IInv, TypeOK, QueueSound, SlotAccounting, RecordSound, Held
    <2>3. ServedSound' /\ WorkSound' /\ WindowSound' /\ ResumeSound'
      BY <2>1 DEF IInv, ServedSound, WorkSound, WindowSound, ResumeSound, Held
    <2>4. PostSound' /\ ClaimSound' /\ ParkedHaveOwner'
      BY <2>1 DEF IInv, PostSound, ClaimSound, ParkedHaveOwner
    <2> QED
      BY <2>2, <2>3, <2>4 DEF IInv
  <1> QED
    BY <1>1, <1>2

\* The inductive invariant holds in every behaviour, with or without fairness.
THEOREM Invariant == Spec => []IInv
BY InitGood, NextGood, PTL DEF Spec

-----------------------------------------------------------------------------
(***************************************************************************)
(* The properties.                                                         *)
(***************************************************************************)
\* Every variable has its type, and the queue is never longer than
\* max_queued_per_timeline.
THEOREM TypeCorrect == Spec => []TypeOK
PROOF
  <1>1. IInv => TypeOK
    BY DEF IInv
  <1> QED
    BY <1>1, Invariant, PTL

\* What the inductive invariant says of the state.
LEMMA InvImplies ==
    ASSUME IInv
    PROVE  SlotAccounting /\ QueueMoves /\ ClaimsOwned /\ ParkedHaveOwner
PROOF
  <1>1. QueueMoves
    <2>1. ToSet(queue) = {queue[i] : i \in 1..Len(queue)}
      BY DEF ToSet, IInv, TypeOK
    <2>2. \A i \in 1..Len(queue) : queue[i] \in Triggers
      BY DEF IInv, TypeOK
    <2> QED
      BY <2>1, <2>2 DEF IInv, QueueSound, QueueMoves
  <1>2. ClaimsOwned
    <2>1. ASSUME NEW t \in claims, by[t] = None
          PROVE  stage[t] \in Unattributed \cup {"leaked"}
      BY <2>1, SessionsAssumption DEF IInv, TypeOK, ClaimSound, WorkSound
    <2>2. ASSUME NEW t \in claims, by[t] # None
          PROVE  InMemory(sess, by[t]) /\ serving[by[t]] = t
      BY <2>2 DEF IInv, TypeOK, WorkSound, Held
    <2> QED
      BY <2>1, <2>2 DEF IInv, ClaimSound, ClaimsOwned
  <1> QED
    BY <1>1, <1>2 DEF IInv

\* Whatever path a launch, a run, a resume or a revival takes, the number of slots taken is
\* the number of triggers that have one, and within max_concurrent.
THEOREM SlotsAccounted == Spec => []SlotAccounting
BY InvImplies, Invariant, PTL

\* Nobody waits in the queue while a slot is free.
THEOREM QueueMovesOn == Spec => []QueueMoves
BY InvImplies, Invariant, PTL

\* The registry holds the claims of the triggers under way and no others, each in the
\* hands of the session that works for its trigger.
THEOREM ClaimsAreOwned == Spec => []ClaimsOwned
BY InvImplies, Invariant, PTL

\* No co-reply is parked on a trigger nobody will launch or a session nobody builds,
\* unless a launch threw.
THEOREM ParkedAreOwned == Spec => []ParkedHaveOwner
BY InvImplies, Invariant, PTL

\* Whoever starts a run of a session finds it in nobody's hands: a reply that resumes it,
\* an operator, a revival, the launch of a fresh one.
OneRun ==
    \A s \in Triggers : Held(s) /\ InMemory(sess', s) =>
        /\ serving'[s] = serving[s]
        /\ sess'[s] = "building" => sess[s] = "building"

\* A step that hands one session at most to a run, if it was in nobody's hands.
LEMMA OneStarts ==
    ASSUME NEW s \in Triggers,
           ~Held(s) \/ ~InMemory(sess', s) \/ (sess'[s] # "building" /\ serving'[s] = serving[s]),
           \A v \in Triggers \ {s} : sess'[v] = sess[v] /\ serving'[v] = serving[v]
    PROVE  OneRun
BY DEF OneRun

LEMMA RecordsKept ==
    ASSUME UNCHANGED records
    PROVE  OneRun
BY DEF OneRun, records

LEMMA StepOneRun ==
    ASSUME IInv, NEW t \in Triggers,
           \/ t \notin Proactive /\ (SteerReply(t) \/ Coalesce(t) \/ Spawn(t))
           \/ Post(t)
           \/ Recover(t)
           \/ TriggerStep(t)
           \/ LaunchThrows(t)
           \/ SpinOff(t)
           \/ SessionStep(t)
           \/ ResumeThrows(t)
           \/ Interrupt(t)
           \/ Expire(t)
    PROVE  OneRun
PROOF
  <1>0. /\ sess \in [Triggers -> {"none", "building", "running", "ending", "failing",
                              "interrupted", "completed", "discarded", "failed", "stopped"}]
        /\ serving \in [Triggers -> Triggers]
    BY DEF IInv, TypeOK
  <1>1. CASE \/ SteerReply(t) \/ Coalesce(t) \/ Spawn(t) \/ LaunchThrows(t) \/ SpinOff(t)
             \/ GroupResolved(t) \/ Regrouped(t) \/ Conditioned(t) \/ ResumeAwaited(t)
             \/ ResumeDeclined(t) \/ Close(t) \/ ReadSteers(t)
    BY <1>1, RecordsKept DEF SteerReply, Coalesce, Spawn, LaunchThrows, SpinOff,
       GroupResolved, Regrouped, Conditioned, ResumeAwaited, ResumeDeclined, Close, ReadSteers
  <1>2. CASE Expire(t)
    BY <1>2 DEF Expire, OneRun
  <1>3. ASSUME NEW s \in Triggers, Attach(t, s), ~Held(s)
        PROVE  OneRun
    BY <1>0, <1>3, OneStarts DEF Attach
  <1>4. CASE Register(t)
    <2>1. ~Held(t)
      BY <1>4 DEF Register, IInv, RecordSound, Held, InMemory, Runs
    <2> QED
      BY <1>3, <1>4, <2>1 DEF Register
  <1>5. CASE ResumeAccepted(t)
    <2>1. ReplyTo[t] \in Triggers
      BY <1>5 DEF ResumeAccepted, IInv, ResumeSound, IsReplyToSession
    <2>2. ~Held(ReplyTo[t])
      BY <1>5 DEF ResumeAccepted, Held, InMemory
    <2> QED
      BY <1>3, <1>5, <2>1, <2>2 DEF ResumeAccepted
  <1>6. CASE Post(t) \/ Recover(t)
    <2>1. ~Held(t)
      BY <1>6 DEF Post, Recover, Parked, IInv, RecordSound, Held, InMemory, Runs
    <2>2. PICK kind : Begins(t, kind)
      BY <1>6 DEF Post, Recover
    <2> QED
      BY <1>0, <2>1, <2>2, OneStarts DEF Begins
  <1>7. ASSUME NEW status \in Ends, Evict(t, status)
        PROVE  OneRun
    BY <1>0, <1>7, OneStarts DEF Evict, InMemory, Ends
  <1>8. CASE \/ BuildFails(t) \/ ResumeThrows(t) \/ Complete(t) \/ FailSettles(t)
             \/ RecoveryFails(t) \/ InterruptedSettles(t)
    <2>1. \E status \in Ends : Evict(t, status)
      BY <1>8 DEF BuildFails, ResumeThrows, Complete, FailSettles, RecoveryFails,
         InterruptedSettles, Leave, Ends
    <2> QED
      BY <1>7, <2>1
  <1>9. CASE GoLive(t) \/ RolloutEnds(t) \/ RunFails(t) \/ Interrupt(t)
    <2>1. /\ \A v \in Triggers : serving'[v] = serving[v]
          /\ \A v \in Triggers \ {t} : sess'[v] = sess[v]
          /\ sess'[t] # "building"
      BY <1>0, <1>9 DEF GoLive, RolloutEnds, RunFails, Interrupt
    <2> QED
      BY <2>1, OneStarts
  <1>10. CASE Revive(t)
    <2>1. CASE t \in window
      <3>1. \E u \in Triggers : stage[u] = "reviving" /\ into[u] = t
        BY <1>10 DEF Revive
      <3>2. ~Held(t)
        BY <2>1, <3>1 DEF IInv, WindowSound, Held, InMemory
      <3>3. \A v \in Triggers \ {t} : sess'[v] = sess[v] /\ serving'[v] = serving[v]
        BY <1>0, <1>10, <2>1 DEF Revive
      <3> QED
        BY <3>2, <3>3, OneStarts
    <2>2. CASE t \notin window
      BY <1>10, <2>2 DEF Revive, OneRun
    <2> QED
      BY <2>1, <2>2
  <1> QED
    BY <1>1, <1>2, <1>4, <1>5, <1>6, <1>8, <1>9, <1>10 DEF TriggerStep, SessionStep

LEMMA NextOneRun == IInv /\ Next => OneRun
BY StepOneRun DEF Next

\* A session is in the hands of one run at a time, though three kinds of run may take it
\* up again.
THEOREM OneRunAtATime == Spec => OneRunPerSession
PROOF
  <1> DEFINE A == \A s \in Triggers : InMemory(sess, s) /\ InMemory(sess', s)
                    => /\ serving'[s] = serving[s]
                       /\ sess'[s] = "building" => sess[s] = "building"
  <1>1. IInv /\ Next => A
    BY NextOneRun DEF OneRun, Held
  <1>2. IInv /\ [Next]_vars => [A]_vars
    BY <1>1
  <1> QED
    BY <1>2, Invariant, PTL DEF Spec, OneRunPerSession

-----------------------------------------------------------------------------
(***************************************************************************)
(* Co-replies.  The registry is asked for the first claim on a message:    *)
(* the order of the claims is sound, so there is one.                      *)
(***************************************************************************)
OrderSound ==
    \A c \in Triggers :
        /\ older[c] \subseteq claims
        /\ c \notin older[c]
        /\ \A b \in older[c] : older[b] \subseteq older[c]

LEMMA ClaimOrdered ==
    ASSUME TypeOK, OrderSound, NEW t \in Triggers, t \notin claims, Claim(t)
    PROVE  OrderSound'
PROOF
  <1>1. \A c \in Triggers : older'[c] = IF c = t THEN claims ELSE older[c]
    BY DEF Claim, TypeOK
  <1>2. claims' = claims \cup {t} /\ claims \subseteq Triggers
    BY DEF Claim, TypeOK
  <1> QED
    BY <1>1, <1>2 DEF OrderSound, TypeOK

LEMMA UnclaimOrdered ==
    ASSUME TypeOK, OrderSound, NEW ts, Unclaim(ts)
    PROVE  OrderSound'
PROOF
  <1>1. \A c \in Triggers : older'[c] = IF c \in ts THEN {} ELSE older[c] \ ts
    BY DEF Unclaim
  <1>2. claims' = claims \ ts
    BY DEF Unclaim
  <1>3. ASSUME NEW c \in Triggers
        PROVE  /\ older'[c] \subseteq claims'
               /\ c \notin older'[c]
               /\ \A b \in older'[c] : older'[b] \subseteq older'[c]
    <2>1. older'[c] = {} \/ (c \notin ts /\ older'[c] = older[c] \ ts)
      BY <1>1
    <2>2. \A b \in older[c] \ ts : b \in Triggers /\ older'[b] = older[b] \ ts
      BY <1>1 DEF TypeOK
    <2> QED
      BY <1>2, <2>1, <2>2 DEF OrderSound
  <1> QED
    BY <1>3 DEF OrderSound

LEMMA OrderKept ==
    ASSUME OrderSound, claims' = claims, older' = older
    PROVE  OrderSound'
BY DEF OrderSound

LEMMA AcceptOrdered ==
    ASSUME TypeOK, OrderSound, NEW t \in Triggers, t \notin claims, NEW next, NEW caller,
           Accept(t, next, caller)
    PROVE  OrderSound'
PROOF
  <1>1. Claim(t) \/ UNCHANGED registry
    BY DEF Accept
  <1> QED
    BY <1>1, ClaimOrdered, OrderKept DEF registry

LEMMA StepOrdered ==
    ASSUME IInv, OrderSound, NEW t \in Triggers,
           \/ t \notin Proactive /\ (SteerReply(t) \/ Coalesce(t) \/ Spawn(t))
           \/ Post(t)
           \/ Recover(t)
           \/ TriggerStep(t)
           \/ LaunchThrows(t)
           \/ SpinOff(t)
           \/ SessionStep(t)
           \/ ResumeThrows(t)
           \/ Interrupt(t)
           \/ Expire(t)
    PROVE  OrderSound'
PROOF
  <1>0. TypeOK
    BY DEF IInv
  <1>1. CASE \/ SteerReply(t) \/ Coalesce(t) \/ Post(t) \/ Recover(t) \/ SpinOff(t)
             \/ GroupResolved(t) \/ Conditioned(t) \/ ResumeAwaited(t) \/ ResumeDeclined(t)
             \/ Register(t) \/ ResumeAccepted(t) \/ Close(t) \/ ReadSteers(t) \/ GoLive(t)
             \/ RolloutEnds(t) \/ RunFails(t) \/ Interrupt(t) \/ Expire(t) \/ Revive(t)
    <2>1. claims' = claims /\ older' = older
      BY <1>1 DEF SteerReply, Coalesce, Post, Recover, SpinOff, GroupResolved, Conditioned,
         ResumeAwaited, ResumeDeclined, Register, ResumeAccepted, Attach, Begins, Close,
         ReadSteers, GoLive, RolloutEnds, RunFails, Interrupt, Expire, Revive, registry
    <2> QED
      BY <2>1, OrderKept
  <1>2. CASE Spawn(t) \/ Regrouped(t)
    <2>1. stage[t] \in {"unseen", "regrouping"}
      BY <1>2 DEF Spawn, Regrouped
    <2>2. t \notin claims
      BY <2>1 DEF IInv, ClaimSound, Unattributed
    <2>3. \E next, caller : Accept(t, next, caller)
      BY <1>2 DEF Spawn, Regrouped
    <2> QED
      BY <1>0, <2>2, <2>3, AcceptOrdered
  <1>3. CASE LaunchThrows(t)
    <2>1. Unclaim({t})
      BY <1>3 DEF LaunchThrows
    <2> QED
      BY <1>0, <2>1, UnclaimOrdered
  <1>4. CASE \/ BuildFails(t) \/ ResumeThrows(t) \/ Complete(t) \/ FailSettles(t)
             \/ RecoveryFails(t) \/ InterruptedSettles(t)
    <2>1. \E status : Evict(t, status)
      BY <1>4 DEF BuildFails, ResumeThrows, Complete, FailSettles, RecoveryFails,
         InterruptedSettles, Leave
    <2>2. \E ts : Unclaim(ts)
      BY <2>1 DEF Evict
    <2> QED
      BY <1>0, <2>2, UnclaimOrdered
  <1> QED
    BY <1>1, <1>2, <1>3, <1>4 DEF TriggerStep, SessionStep

LEMMA OrderInit == Init => OrderSound
BY DEF Init, OrderSound

LEMMA OrderStep == IInv /\ OrderSound /\ [Next]_vars => OrderSound'
PROOF
  <1>1. IInv /\ OrderSound /\ Next => OrderSound'
    BY StepOrdered DEF Next
  <1>2. OrderSound /\ UNCHANGED vars => OrderSound'
    BY OrderKept DEF vars
  <1> QED
    BY <1>1, <1>2

LEMMA Ordered == Spec => []OrderSound
BY OrderInit, OrderStep, Invariant, PTL DEF Spec

\* Some claim on the message t replies to is the first.
LEMMA FirstExists ==
    ASSUME TypeOK, OrderSound, NEW t \in Triggers, CoTargets(t) # {}
    PROVE  \E c \in Triggers : FirstCoTarget(c, t)
PROOF
  <1> DEFINE T == CoTargets(t)
             R == StrictSubsetOrdering(Triggers)
             F == {older[c] : c \in T}
  <1>1. T \subseteq Triggers
    BY DEF CoTargets, TypeOK
  <1>2. F \subseteq SUBSET Triggers /\ F # {}
    BY <1>1 DEF TypeOK
  <1>3. IsWellFoundedOn(R, SUBSET Triggers)
    <2>1. FiniteSubsetsOf(Triggers) = SUBSET Triggers
      BY SessionsAssumption, FS_FiniteSubsetsOfFinite
    <2> QED
      BY <2>1, FS_StrictSubsetOrderingWellFounded
  <1> HIDE DEF R, F
  <1>4. PICK O \in F : \A U \in F : ~(<<U, O>> \in R)
    BY <1>2, <1>3, WFMin
  <1>5. PICK c \in T : O = older[c]
    BY <1>4 DEF F
  <1>6. ASSUME NEW b \in older[c], b \in T
        PROVE  FALSE
    <2>1. /\ older[b] \subseteq older[c] /\ older[b] # older[c]
          /\ older[b] \in SUBSET Triggers /\ older[c] \in SUBSET Triggers
      BY <1>1, <1>6 DEF OrderSound, TypeOK
    <2>2. <<older[b], older[c]>> \in R
      BY <2>1 DEF R, StrictSubsetOrdering
    <2>3. older[b] \in F
      BY <1>6 DEF F
    <2> QED
      BY <1>4, <1>5, <2>2, <2>3
  <1> QED
    BY <1>1, <1>5, <1>6 DEF FirstCoTarget

\* Nobody but the inbound handler gives a trigger that arrives a session of its own.
LEMMA ArrivesBySpawn ==
    ASSUME IInv, NEW r \in Triggers,
           \/ r \notin Proactive /\ (SteerReply(r) \/ Coalesce(r) \/ Spawn(r))
           \/ Post(r)
           \/ Recover(r)
           \/ TriggerStep(r)
           \/ LaunchThrows(r)
           \/ SpinOff(r)
           \/ SessionStep(r)
           \/ ResumeThrows(r)
           \/ Interrupt(r)
           \/ Expire(r),
           NEW t \in Triggers, stage[t] = "unseen", stage'[t] \in {"grouping", "queued"}
    PROVE  Spawn(t)
PROOF
  <1>0. stage \in [Triggers -> Stages]
    BY DEF IInv, TypeOK
  <1>1. ASSUME NEW st, DOMAIN st = Triggers, st[t] = "unseen", NEW ss, NEW win,
               Drain(st, ss, win)
        PROVE  FALSE
    <2>1. CASE queue = <<>>
      BY <1>1, <2>1 DEF Drain
    <2>2. CASE queue # <<>>
      <3>1. Head(queue) = queue[1] /\ 1 \in 1..Len(queue)
        BY <2>2 DEF IInv, TypeOK
      <3>2. Head(queue) # t
        BY <3>1 DEF IInv, QueueSound
      <3> QED
        BY <1>1, <2>2, <3>2 DEF Drain
    <2> QED
      BY <2>1, <2>2
  <1>2. ASSUME NEW s, NEW status, NEW after
        PROVE  /\ DOMAIN Settled(s, status, after) = Triggers
               /\ Settled(s, status, after)[t] = "unseen"
    BY DEF Settled, Reparked, Runs
  <1>3. CASE SteerReply(r) \/ Coalesce(r) \/ Post(r) \/ Recover(r) \/ SpinOff(r) \/ Conditioned(r)
    BY <1>0, <1>3 DEF SteerReply, Coalesce, Folded, Post, Recover, Begins, SpinOff, Conditioned
  <1>4. CASE \/ GroupResolved(r) \/ ResumeAwaited(r) \/ ResumeDeclined(r)
             \/ Register(r) \/ ResumeAccepted(r)
    BY <1>0, <1>4 DEF GroupResolved, ResumeAwaited, ResumeDeclined, Register, ResumeAccepted,
       Attach, Begun
  <1>5. CASE ReadSteers(r) \/ GoLive(r) \/ RolloutEnds(r) \/ RunFails(r)
             \/ Interrupt(r) \/ Expire(r) \/ Revive(r)
    BY <1>0, <1>5 DEF ReadSteers, GoLive, RolloutEnds, RunFails, Interrupt, Expire, Revive
  <1>6. CASE Regrouped(r)
    BY <1>0, <1>6 DEF Regrouped, Accept
  <1>7. CASE Spawn(r)
    BY <1>0, <1>7 DEF Spawn, Accept
  <1>8. CASE LaunchThrows(r)
    <2>1. r # t
      BY <1>8 DEF LaunchThrows
    <2>2. LET lost == [stage EXCEPT ![r] = "lost"]
          IN  lost[t] = "unseen" /\ DOMAIN lost = Triggers
      BY <1>0, <2>1
    <2> QED
      BY <1>0, <1>1, <1>8, <2>1, <2>2 DEF LaunchThrows
  <1>9. CASE Close(r)
    <2>1. LET done == [stage EXCEPT ![r] = "done"]
          IN  done[t] = "unseen" /\ DOMAIN done = Triggers
      BY <1>0, <1>9 DEF Close
    <2> QED
      BY <1>1, <1>9, <2>1 DEF Close
  <1>10. CASE \/ BuildFails(r) \/ ResumeThrows(r) \/ Complete(r) \/ FailSettles(r)
              \/ RecoveryFails(r) \/ InterruptedSettles(r)
    <2>1. \E s, status, after :
             \/ Drain(Settled(s, status, after), sess', window')
             \/ stage' = Settled(s, status, after)
      BY <1>10 DEF BuildFails, ResumeThrows, Complete, FailSettles, RecoveryFails,
         InterruptedSettles, Leave
    <2> QED
      BY <1>1, <1>2, <2>1
  <1> QED
    BY <1>3, <1>4, <1>5, <1>6, <1>7, <1>8, <1>9, <1>10 DEF TriggerStep, SessionStep

\* Replies to one message that come within the coalescing window of one another.  (If some
\* do not, the first claim on the message may lie outside the window of a reply and a later
\* one within it: coTargetClaim asks the first only.)
CoRepliesNear ==
    \A t, u \in Triggers : ReplyTo[t] # None /\ ReplyTo[u] = ReplyTo[t] => Near(u, t)

\* A reply that gets a session of its own has found no session that answers its message,
\* unless the one it asked has been stopped.
LEMMA SpawnAlone ==
    ASSUME IInv, OrderSound, CoRepliesNear, NEW t \in Triggers, Spawn(t)
    PROVE  ~Twin(t, Unattributed \cup {"working"})
PROOF
  <1> SUFFICES ASSUME Twin(t, Unattributed \cup {"working"}) PROVE FALSE
    OBVIOUS
  <1>1. PICK u \in Triggers : SameMessage(t, u) /\ stage[u] \in Unattributed \cup {"working"}
    BY DEF Twin
  <1>2. \A v \in Triggers : SameMessage(t, v) /\ stage[v] \in Unattributed \cup {"working"}
                            => ~Stopped(v)
    BY DEF Twin
  <1>3. u \in CoTargets(t)
    BY <1>1 DEF IInv, ClaimSound, CoTargets, SameMessage
  <1>4. PICK c \in Triggers : FirstCoTarget(c, t)
    BY <1>3, FirstExists DEF IInv
  <1>5. /\ c \in claims /\ SameMessage(t, c) /\ Near(c, t)
        /\ stage[c] \in Unattributed \cup {"working", "leaked"}
    BY <1>4 DEF FirstCoTarget, CoTargets, IInv, TypeOK, ClaimSound, CoRepliesNear, SameMessage
  <1>6. Coalescing(c, t) = "spawn"
    BY <1>4 DEF Spawn
  <1>7. by[c] # None /\ sess[by[c]] # "building" /\ ~Live(by[c])
    BY <1>5, <1>6 DEF Coalescing, SteerableSoon
  <1>8. stage[c] = "working" /\ Held(by[c])
    BY <1>7 DEF IInv, WorkSound
  <1>9. sess[by[c]] = "interrupted"
    BY <1>7, <1>8 DEF Held, InMemory, Live
  <1>10. Stopped(c)
    BY <1>7, <1>9 DEF Stopped
  <1> QED
    BY <1>2, <1>5, <1>8, <1>10

\* Nobody becomes a twin in a step: only a reply that gets a session of its own could.
LEMMA StepTwins ==
    ASSUME CoRepliesNear, IInv, OrderSound, Next
    PROVE  \A t \in Triggers : ~Twin(t, Unattributed \cup {"working"})
PROOF
  <1> SUFFICES ASSUME NEW t \in Triggers
               PROVE  ~Twin(t, Unattributed \cup {"working"})
    OBVIOUS
  <1>1. Twin(t, Unattributed \cup {"working"}) => Spawn(t)
    BY ArrivesBySpawn DEF Next, Twin
  <1> QED
    BY <1>1, SpawnAlone

\* Two replies to the same message, within the coalescing window, are never answered by two
\* sessions: the registry knows of the other at every moment of its launch, its wait in the
\* queue, its build and its run.
THEOREM NoTwins ==
    ASSUME CoRepliesNear
    PROVE  Spec => NoTwin
PROOF
  <1> DEFINE A == \A t \in Triggers : ~Twin(t, Unattributed \cup {"working"})
  <1>1. IInv /\ OrderSound /\ [Next]_vars => [A]_vars
    BY StepTwins
  <1> QED
    BY <1>1, Invariant, Ordered, PTL DEF Spec, NoTwin

-----------------------------------------------------------------------------
(***************************************************************************)
(* What a launch that throws leaves behind is left behind by nothing else. *)
(***************************************************************************)
NoneLost == \A t \in Triggers : stage[t] \notin {"lost", "leaked"}

LEMMA StepLosesNone ==
    ASSUME IInv, NoneLost, "launch_throws" \notin Events, NEW r \in Triggers,
           \/ r \notin Proactive /\ (SteerReply(r) \/ Coalesce(r) \/ Spawn(r))
           \/ Post(r)
           \/ Recover(r)
           \/ TriggerStep(r)
           \/ LaunchThrows(r)
           \/ SpinOff(r)
           \/ SessionStep(r)
           \/ ResumeThrows(r)
           \/ Interrupt(r)
           \/ Expire(r)
    PROVE  NoneLost'
PROOF
  <1>0. stage \in [Triggers -> Stages]
    BY DEF IInv, TypeOK
  <1>1. ASSUME NEW st, DOMAIN st = Triggers, \A t \in Triggers : st[t] \notin {"lost", "leaked"},
               NEW ss, NEW win, Drain(st, ss, win)
        PROVE  NoneLost'
    BY <1>1 DEF Drain, Begun, NoneLost
  <1>2. ASSUME NEW s, NEW status, NEW after \in {"done", "closing", "regrouping"}
        PROVE  /\ DOMAIN Settled(s, status, after) = Triggers
               /\ \A t \in Triggers : Settled(s, status, after)[t] \notin {"lost", "leaked"}
    <2>1. ASSUME NEW t \in Triggers
          PROVE  Settled(s, status, after)[t] \in {after, "regrouping", "dropped", "reviving",
                                                   "done", stage[t]}
      BY DEF Settled, Unread
    <2> QED
      BY <2>1 DEF Settled, NoneLost
  <1>3. CASE SteerReply(r) \/ Coalesce(r) \/ Post(r) \/ Recover(r) \/ SpinOff(r) \/ Conditioned(r)
    BY <1>0, <1>3 DEF SteerReply, Coalesce, Folded, Post, Recover, Begins, SpinOff, Conditioned,
       NoneLost
  <1>4. CASE \/ GroupResolved(r) \/ ResumeAwaited(r) \/ ResumeDeclined(r)
             \/ Register(r) \/ ResumeAccepted(r)
    BY <1>0, <1>4 DEF GroupResolved, ResumeAwaited, ResumeDeclined, Register, ResumeAccepted,
       Attach, Begun, NoneLost
  <1>5. CASE ReadSteers(r) \/ GoLive(r) \/ RolloutEnds(r) \/ RunFails(r)
             \/ Interrupt(r) \/ Expire(r) \/ Revive(r)
    BY <1>0, <1>5 DEF ReadSteers, GoLive, RolloutEnds, RunFails, Interrupt, Expire, Revive,
       NoneLost
  <1>6. CASE Spawn(r) \/ Regrouped(r)
    BY <1>0, <1>6 DEF Spawn, Regrouped, Accept, Begun, NoneLost
  <1>7. ~LaunchThrows(r)
    BY DEF LaunchThrows
  <1>8. CASE Close(r)
    <2>1. LET done == [stage EXCEPT ![r] = "done"]
          IN  DOMAIN done = Triggers /\ \A t \in Triggers : done[t] \notin {"lost", "leaked"}
      BY <1>0 DEF NoneLost
    <2> QED
      BY <1>1, <1>8, <2>1 DEF Close
  <1>9. CASE \/ BuildFails(r) \/ ResumeThrows(r) \/ Complete(r) \/ FailSettles(r)
             \/ RecoveryFails(r) \/ InterruptedSettles(r)
    <2>1. \E s, status : \E after \in {"done", "closing", "regrouping"} :
             \/ Drain(Settled(s, status, after), sess', window')
             \/ stage' = Settled(s, status, after)
      BY <1>9 DEF BuildFails, ResumeThrows, Complete, FailSettles, RecoveryFails,
         InterruptedSettles, Leave
    <2>2. ASSUME NEW s, NEW status, NEW after \in {"done", "closing", "regrouping"},
                 \/ Drain(Settled(s, status, after), sess', window')
                 \/ stage' = Settled(s, status, after)
          PROVE  NoneLost'
      <3>1. CASE stage' = Settled(s, status, after)
        BY <1>2, <3>1 DEF NoneLost
      <3> QED
        BY <1>1, <1>2, <2>2, <3>1
    <2> QED
      BY <2>1, <2>2
  <1> QED
    BY <1>3, <1>4, <1>5, <1>6, <1>7, <1>8, <1>9 DEF TriggerStep, SessionStep

\* Only a launch that throws leaks a claim.
THEOREM OnlyThrowsLeak ==
    ASSUME "launch_throws" \notin Events
    PROVE  Spec => []NoClaimLeaks
PROOF
  <1>1. Init => NoneLost
    BY DEF Init, NoneLost
  <1>2. IInv /\ NoneLost /\ [Next]_vars => NoneLost'
    <2>1. IInv /\ NoneLost /\ Next => NoneLost'
      BY StepLosesNone DEF Next
    <2>2. NoneLost /\ UNCHANGED vars => NoneLost'
      BY DEF vars, NoneLost
    <2> QED
      BY <2>1, <2>2
  <1>3. IInv /\ NoneLost => NoClaimLeaks
    BY DEF NoneLost, NoClaimLeaks, IInv, TypeOK
  <1> QED
    BY <1>1, <1>2, <1>3, Invariant, PTL DEF Spec
=============================================================================
