-------------------------- MODULE ComponentsProofs --------------------------
(***************************************************************************)
(* What the proofs about the components say of the instances MCComponents  *)
(* checks: each theorem of a component's proof module, proved there for    *)
(* every value of the constants, is carried over to the composition.  A    *)
(* step of the composition is a step of one component and leaves the       *)
(* variables of the others alone.                                          *)
(***************************************************************************)
EXTENDS MCComponents, TLAPS

-----------------------------------------------------------------------------
\* The proof module of the store's components: of the two pools with the constants of
\* Enrichment, of the two diaries with those of Diary.
Events == INSTANCE StoreProofs WITH
    Jobs <- {j1, j2}, WorkerCount <- 2, MaxRetries <- 2, CountsAtClaim <- FALSE,
    MaxEdits <- 1, MaxRejects <- 1, MaxRestarts <- 1, MaxRetriedByHand <- 0,
    DiaryRows <- {j1}, Diarists <- 1, MaxDiaryRetries <- 1, MaxDiaryRejects <- 1,
    MaxDiaryRestarts <- 1, MaxDiaryByHand <- 1, MaxDiaryRedos <- 1,
    MaxFileEdits <- 0, MaxDirect <- 0,
    Edits <- 2, MaxAttempts <- 2, BatchSize <- 1, Window <- 1, MaxSweepRestarts <- 1,
    SummaryRows <- {j1}, SummaryRetries <- 1, MaxSummaryRejects <- 3, MaxSummaryRestarts <- 1,
    MaxSummaryRetriedByHand <- 1, MaxRedos <- 1,
    FetchJobs <- 1..2, Stamp <- <<9, 4, 2, 3>>, Held <- 1, PageSize <- 2, Targets <- {0, 2},
    SafetyCap <- 2, MaxFaults <- 1, MaxDrains <- 1, MaxOrders <- 1

\* Enrichment and the pool of Events are the same.
LEMMA SameEnrichment ==
    /\ Enrichment!WorkerPoolAssumption <=> Events!Pool!WorkerPoolAssumption
    /\ Enrichment!Init <=> Events!Pool!Init
    /\ Enrichment!Next <=> Events!Pool!Next
    /\ Enrichment!WorkersBounded <=> Events!Pool!WorkersBounded
    /\ Enrichment!OneWorkerPerJob <=> Events!Pool!OneWorkerPerJob
    /\ Enrichment!ProcessingIsHeld <=> Events!Pool!ProcessingIsHeld
    /\ Enrichment!LoopAlive <=> Events!Pool!LoopAlive
    /\ Enrichment!AttemptsBounded <=> Events!Pool!AttemptsBounded
    /\ Enrichment!EditsEnriched <=> Events!Pool!EditsEnriched
PROOF
  <1>1. Enrichment!WorkerPoolAssumption <=> Events!Pool!WorkerPoolAssumption
    BY Zenon DEF Enrichment!WorkerPoolAssumption, Enrichment!IsFiniteSet,
                 Events!Pool!WorkerPoolAssumption, Events!Pool!IsFiniteSet
  <1>2. Enrichment!Init <=> Events!Pool!Init
    BY Zenon DEF Enrichment!Init, Events!Pool!Init
  <1>3. Enrichment!Next <=> Events!Pool!Next
    BY Zenon DEF Enrichment!Next, Enrichment!Start, Enrichment!Exit, Enrichment!Stop,
                 Enrichment!Retry, Enrichment!Edit, Enrichment!Store, Enrichment!Notify,
                 Enrichment!SomeWorkerEnds, Enrichment!WorkerEnds, Enrichment!FailsForGood,
                 Enrichment!Fails, Enrichment!Succeeds, Enrichment!Leaves,
                 Enrichment!WriteRejects, Enrichment!RemoveAt, Enrichment!Budget,
                 Enrichment!loopVars, Enrichment!SleepEnds, Enrichment!ClaimRejects,
                 Enrichment!Sleep, Enrichment!rowVars, Enrichment!Claim, Enrichment!SetToSeq,
                 Enrichment!IsInjective, Enrichment!Cardinality, Enrichment!Polls,
                 Enrichment!SchedulePoll, Enrichment!Running, Enrichment!Available,
                 Enrichment!Held, Enrichment!Pending, Enrichment!boundVars, Events!Pool!Next,
                 Events!Pool!Start, Events!Pool!Exit, Events!Pool!Stop, Events!Pool!Retry,
                 Events!Pool!Edit, Events!Pool!Store, Events!Pool!Notify,
                 Events!Pool!SomeWorkerEnds, Events!Pool!WorkerEnds, Events!Pool!FailsForGood,
                 Events!Pool!Fails, Events!Pool!Succeeds, Events!Pool!Leaves,
                 Events!Pool!WriteRejects, Events!Pool!RemoveAt, Events!Pool!Budget,
                 Events!Pool!loopVars, Events!Pool!SleepEnds, Events!Pool!ClaimRejects,
                 Events!Pool!Sleep, Events!Pool!rowVars, Events!Pool!Claim,
                 Events!Pool!SetToSeq, Events!Pool!IsInjective, Events!Pool!Cardinality,
                 Events!Pool!Polls, Events!Pool!SchedulePoll, Events!Pool!Running,
                 Events!Pool!Available, Events!Pool!Held, Events!Pool!Pending,
                 Events!Pool!boundVars
  <1>4. Enrichment!WorkersBounded <=> Events!Pool!WorkersBounded
    BY Zenon DEF Enrichment!WorkersBounded, Events!Pool!WorkersBounded
  <1>5. Enrichment!OneWorkerPerJob <=> Events!Pool!OneWorkerPerJob
    BY Zenon DEF Enrichment!OneWorkerPerJob, Events!Pool!OneWorkerPerJob
  <1>6. Enrichment!ProcessingIsHeld <=> Events!Pool!ProcessingIsHeld
    BY Zenon DEF Enrichment!ProcessingIsHeld, Enrichment!Held, Enrichment!Running,
                 Events!Pool!ProcessingIsHeld, Events!Pool!Held, Events!Pool!Running
  <1>7. Enrichment!LoopAlive <=> Events!Pool!LoopAlive
    BY Zenon DEF Enrichment!LoopAlive, Enrichment!Running, Events!Pool!LoopAlive,
                 Events!Pool!Running
  <1>8. Enrichment!AttemptsBounded <=> Events!Pool!AttemptsBounded
    BY Zenon DEF Enrichment!AttemptsBounded, Events!Pool!AttemptsBounded
  <1>9. Enrichment!EditsEnriched <=> Events!Pool!EditsEnriched
    BY Zenon DEF Enrichment!EditsEnriched, Events!Pool!EditsEnriched
  <1> QED
    BY <1>1, <1>2, <1>3, <1>4, <1>5, <1>6, <1>7, <1>8, <1>9

-----------------------------------------------------------------------------
\* Message and the one of Events are the same.
LEMMA SameMessage ==
    /\ Message!MessageEditsAssumption <=> Events!Message!MessageEditsAssumption
    /\ Message!Init <=> Events!Message!Init
    /\ Message!Next <=> Events!Message!Next
    /\ Message!ShowsNewest <=> Events!Message!ShowsNewest
    /\ Message!PlaceholdersStand <=> Events!Message!PlaceholdersStand
PROOF
  <1>1. Message!MessageEditsAssumption <=> Events!Message!MessageEditsAssumption
    BY Zenon DEF Message!MessageEditsAssumption, Events!Message!MessageEditsAssumption
  <1>2. Message!Init <=> Events!Message!Init
    BY Zenon DEF Message!Init, Message!Events, Events!Message!Init, Events!Message!Events
  <1>3. Message!Next <=> Events!Message!Next
    BY Zenon DEF Message!Next, Message!Sweeps, Message!PlaceholderGoes, Message!ProbeFindsEdit,
                 Message!ProbeDecrypts, Message!ProbeFails, Message!Counted, Message!Probed,
                 Message!IsNext, Message!Tick, Message!IsDue, Message!Rotation, Message!Oldest,
                 Message!Cardinality, Message!Restart, Message!BackoffElapses,
                 Message!ArriveEdit, Message!ApplyEdit, Message!IsStale, Message!Parking,
                 Message!Max, Message!ArriveMessage, Message!Append0, Message!KeyArrives,
                 Message!historyVars, Message!sweepVars, Message!storeVars, Message!Events,
                 Events!Message!Next, Events!Message!Sweeps, Events!Message!PlaceholderGoes,
                 Events!Message!ProbeFindsEdit, Events!Message!ProbeDecrypts,
                 Events!Message!ProbeFails, Events!Message!Counted, Events!Message!Probed,
                 Events!Message!IsNext, Events!Message!Tick, Events!Message!IsDue,
                 Events!Message!Rotation, Events!Message!Oldest, Events!Message!Cardinality,
                 Events!Message!Restart, Events!Message!BackoffElapses,
                 Events!Message!ArriveEdit, Events!Message!ApplyEdit, Events!Message!IsStale,
                 Events!Message!Parking, Events!Message!Max, Events!Message!ArriveMessage,
                 Events!Message!Append0, Events!Message!KeyArrives, Events!Message!historyVars,
                 Events!Message!sweepVars, Events!Message!storeVars, Events!Message!Events
  <1>4. Message!ShowsNewest <=> Events!Message!ShowsNewest
    BY Zenon DEF Message!ShowsNewest, Message!Max, Events!Message!ShowsNewest,
                 Events!Message!Max
  <1>5. Message!PlaceholdersStand <=> Events!Message!PlaceholdersStand
    BY Zenon DEF Message!PlaceholdersStand, Message!Events, Events!Message!PlaceholdersStand,
                 Events!Message!Events
  <1> QED
    BY <1>1, <1>2, <1>3, <1>4, <1>5

EditsInv == part = "edits" => Events!MessageInv

\* While the part that runs is the edits, what was parked, shown and heard agrees.
THEOREM EditsInvHolds == Spec => []EditsInv
PROOF
  <1> USE DEF EditsInv
  <1>1. Init => EditsInv
    <2>1. Init => Message!Init
      BY DEF Init
    <2> QED
      BY <2>1, SameMessage, MessageAssumption, Events!MessageInit
  <1>2. EditsInv /\ [Next]_vars => EditsInv'
    <2> SUFFICES ASSUME EditsInv, [Next]_vars PROVE EditsInv'
      OBVIOUS
    <2>1. CASE part = "edits" /\ Message!Next /\ MessageOnly
      BY <2>1, SameMessage, MessageAssumption, Events!MessageStep
    <2>2. CASE part' = part /\ (part # "edits" \/ UNCHANGED messageVars)
      BY <2>2, SameMessage, MessageAssumption, Events!MessageStep
         DEF Events!Message!vars, Events!Message!storeVars, Events!Message!sweepVars,
             Events!Message!historyVars, messageVars
    <2>3. CASE UNCHANGED vars
      BY <2>2, <2>3 DEF vars, messageVars
    <2> QED
      BY <2>1, <2>2, <2>3 DEF Next, PoolOnly, SummaryOnly, DiaryOnly, LimiterOnly, BackfetchOnly,
         RpcOnly, ResidentOnly, FoldingOnly, RunnerOnly
  <1> QED
    BY <1>1, <1>2, PTL DEF Spec

\* The message shows the newest of its edits.
THEOREM EditsStay == Spec => []EditsKept
PROOF
  <1>1. EditsInv => EditsKept
    <2>1. Events!MessageInv => Events!Message!ShowsNewest
      BY Events!MessageSafe
    <2>2. Events!Message!ShowsNewest => Message!ShowsNewest
      BY SameMessage
    <2> QED
      BY <2>1, <2>2 DEF EditsKept, EditsInv
  <1> QED
    BY <1>1, EditsInvHolds, PTL

-----------------------------------------------------------------------------
\* Summary and the one of Events are the same.
LEMMA SameSummary ==
    /\ Summary!SummaryJobsAssumption <=> Events!Summary!SummaryJobsAssumption
    /\ Summary!Init <=> Events!Summary!Init
    /\ Summary!Next <=> Events!Summary!Next
    /\ Summary!NotStranded <=> Events!Summary!NotStranded
    /\ Summary!OneSummary <=> Events!Summary!OneSummary
    /\ Summary!AttemptsBounded <=> Events!Summary!AttemptsBounded
    /\ Summary!DraftSalvaged <=> Events!Summary!DraftSalvaged
    /\ Summary!EscalationCleared <=> Events!Summary!EscalationCleared
PROOF
  <1>1. Summary!SummaryJobsAssumption <=> Events!Summary!SummaryJobsAssumption
    BY Zenon DEF Summary!SummaryJobsAssumption, Events!Summary!SummaryJobsAssumption
  <1>2. Summary!Init <=> Events!Summary!Init
    BY Zenon DEF Summary!Init, Events!Summary!Init
  <1>3. Summary!Next <=> Events!Summary!Next
    BY Zenon DEF Summary!Next, Summary!Work, Summary!Tell, Summary!LastResort,
                 Summary!Terminalize, Summary!GiveUp, Summary!End, Summary!SaveDraft,
                 Summary!ReturnToPending, Summary!InsertSummary, Summary!SessionWritten,
                 Summary!RunEnds, Summary!Resolve, Summary!Start, Summary!Exit, Summary!Busy,
                 Summary!Stop, Summary!RetryByHand, Summary!EscalateThen, Summary!Ended,
                 Summary!Escalate, Summary!WriteRejects, Summary!Escaping, Summary!AfterClosing,
                 Summary!Guarded, Summary!RunJudged, Summary!jobVars, Summary!Claim,
                 Summary!GoesTo, Summary!Enqueue, Summary!Becomes, Summary!Running,
                 Summary!boundVars, Summary!processVars, Summary!priorityVars,
                 Events!Summary!Next, Events!Summary!Work, Events!Summary!Tell,
                 Events!Summary!LastResort, Events!Summary!Terminalize, Events!Summary!GiveUp,
                 Events!Summary!End, Events!Summary!SaveDraft, Events!Summary!ReturnToPending,
                 Events!Summary!InsertSummary, Events!Summary!SessionWritten,
                 Events!Summary!RunEnds, Events!Summary!Resolve, Events!Summary!Start,
                 Events!Summary!Exit, Events!Summary!Busy, Events!Summary!Stop,
                 Events!Summary!RetryByHand, Events!Summary!EscalateThen, Events!Summary!Ended,
                 Events!Summary!Escalate, Events!Summary!WriteRejects, Events!Summary!Escaping,
                 Events!Summary!AfterClosing, Events!Summary!Guarded, Events!Summary!RunJudged,
                 Events!Summary!jobVars, Events!Summary!Claim, Events!Summary!GoesTo,
                 Events!Summary!Enqueue, Events!Summary!Becomes, Events!Summary!Running,
                 Events!Summary!boundVars, Events!Summary!processVars,
                 Events!Summary!priorityVars
  <1>4. Summary!NotStranded <=> Events!Summary!NotStranded
    BY Zenon DEF Summary!NotStranded, Summary!Running, Events!Summary!NotStranded,
                 Events!Summary!Running
  <1>5. Summary!OneSummary <=> Events!Summary!OneSummary
    BY Zenon DEF Summary!OneSummary, Events!Summary!OneSummary
  <1>6. Summary!AttemptsBounded <=> Events!Summary!AttemptsBounded
    BY Zenon DEF Summary!AttemptsBounded, Events!Summary!AttemptsBounded
  <1>7. Summary!DraftSalvaged <=> Events!Summary!DraftSalvaged
    BY Zenon DEF Summary!DraftSalvaged, Events!Summary!DraftSalvaged
  <1>8. Summary!EscalationCleared <=> Events!Summary!EscalationCleared
    BY Zenon DEF Summary!EscalationCleared, Events!Summary!EscalationCleared
  <1> QED
    BY <1>1, <1>2, <1>3, <1>4, <1>5, <1>6, <1>7, <1>8

SummariesInv == part = "summarization" => Events!SummaryInv

\* While summarization runs, its invariant holds.
THEOREM SummariesInvHolds == Spec => []SummariesInv
PROOF
  <1> USE DEF SummariesInv
  <1>1. Init => SummariesInv
    <2>1. Init => Summary!Init
      BY DEF Init
    <2> QED
      BY <2>1, SameSummary, SummaryAssumption, Events!SummaryInit
  <1>2. SummariesInv /\ [Next]_vars => SummariesInv'
    <2> SUFFICES ASSUME SummariesInv, [Next]_vars PROVE SummariesInv'
      OBVIOUS
    <2>1. CASE part = "summarization" /\ Summary!Next /\ SummaryOnly
      BY <2>1, SameSummary, SummaryAssumption, Events!SummaryStep
    <2>2. CASE part' = part /\ (part # "summarization" \/ UNCHANGED summaryVars)
      BY <2>2, SameSummary, SummaryAssumption, Events!SummaryStep
         DEF Events!Summary!vars, summaryVars
    <2>3. CASE UNCHANGED vars
      BY <2>2, <2>3 DEF vars, summaryVars
    <2> QED
      BY <2>1, <2>2, <2>3 DEF Next, PoolOnly, DiaryOnly, LimiterOnly, MessageOnly, BackfetchOnly,
         RpcOnly, ResidentOnly, FoldingOnly, RunnerOnly
  <1> QED
    BY <1>1, <1>2, PTL DEF Spec

\* No summarization job is stranded or summarized twice, and nothing it drafted is lost.
THEOREM SummariesKeep == Spec => []SummarySafe
PROOF
  <1>1. SummariesInv => SummarySafe
    BY SameSummary, SummaryAssumption, Events!SummarySafe DEF SummarySafe, SummariesInv
  <1> QED
    BY <1>1, SummariesInvHolds, PTL

-----------------------------------------------------------------------------
\* The deep backfetch of the run and that of Events are the same.
LEMMA SameBackfetch ==
    /\ Backfetch!BackfetchJobAssumption <=> Events!Backfetch!BackfetchJobAssumption
    /\ Backfetch!Init <=> Events!Backfetch!Init
    /\ Backfetch!Next <=> Events!Backfetch!Next
    /\ Backfetch!OneRunPerRoom <=> Events!Backfetch!OneRunPerRoom
    /\ Backfetch!NothingSkipped <=> Events!Backfetch!NothingSkipped
    /\ Backfetch!CountKept <=> Events!Backfetch!CountKept
    /\ Backfetch!BelowFloor <=> Events!Backfetch!BelowFloor
    /\ Backfetch!StopsWithinAPage <=> Events!Backfetch!StopsWithinAPage
PROOF
  <1>1. Backfetch!BackfetchJobAssumption <=> Events!Backfetch!BackfetchJobAssumption
    BY Zenon DEF Backfetch!BackfetchJobAssumption, Backfetch!History,
                 Events!Backfetch!BackfetchJobAssumption, Events!Backfetch!History
  <1>2. Backfetch!Init <=> Events!Backfetch!Init
    BY Zenon DEF Backfetch!Init, Events!Backfetch!Init
  <1>3. Backfetch!Next <=> Events!Backfetch!Next
    BY Zenon DEF Backfetch!Next, Backfetch!WriteRejects, Backfetch!Restart, Backfetch!Crash,
                 Backfetch!Exit,
                 Backfetch!Down, Backfetch!Drain, Backfetch!runVars, Backfetch!ResumeAll,
                 Backfetch!Resumable, Backfetch!Resume, Backfetch!Cancel, Backfetch!Pause,
                 Backfetch!Order, Backfetch!Ordered, Backfetch!Start, Backfetch!Occupied,
                 Backfetch!Active, Backfetch!Launch, Backfetch!Runs, Backfetch!Check,
                 Backfetch!Told, Backfetch!PageDone, Backfetch!Finish, Backfetch!LookAt,
                 Backfetch!Pinned, Backfetch!PageEnd, Backfetch!Read, Backfetch!historyVars,
                 Backfetch!tableVars, Backfetch!Begin, Backfetch!Ends, Backfetch!Forgotten,
                 Backfetch!Oldest, Backfetch!Before, Backfetch!Allowance, Backfetch!Min,
                 Backfetch!processVars, Events!Backfetch!Next,
                 Events!Backfetch!WriteRejects, Events!Backfetch!Restart,
                 Events!Backfetch!Crash, Events!Backfetch!Exit, Events!Backfetch!Down,
                 Events!Backfetch!Drain, Events!Backfetch!runVars, Events!Backfetch!ResumeAll,
                 Events!Backfetch!Resumable, Events!Backfetch!Resume, Events!Backfetch!Cancel,
                 Events!Backfetch!Pause, Events!Backfetch!Order, Events!Backfetch!Ordered,
                 Events!Backfetch!Start, Events!Backfetch!Occupied, Events!Backfetch!Active,
                 Events!Backfetch!Launch, Events!Backfetch!Runs, Events!Backfetch!Check,
                 Events!Backfetch!Told, Events!Backfetch!PageDone, Events!Backfetch!Finish,
                 Events!Backfetch!LookAt, Events!Backfetch!Pinned, Events!Backfetch!PageEnd,
                 Events!Backfetch!Read, Events!Backfetch!historyVars,
                 Events!Backfetch!tableVars, Events!Backfetch!Begin, Events!Backfetch!Ends,
                 Events!Backfetch!Forgotten, Events!Backfetch!Oldest, Events!Backfetch!Before,
                 Events!Backfetch!Allowance, Events!Backfetch!Min, Events!Backfetch!processVars
  <1>4. Backfetch!OneRunPerRoom <=> Events!Backfetch!OneRunPerRoom
    BY Zenon DEF Backfetch!OneRunPerRoom, Backfetch!Cardinality, Events!Backfetch!OneRunPerRoom,
                 Events!Backfetch!Cardinality
  <1>5. Backfetch!NothingSkipped <=> Events!Backfetch!NothingSkipped
    BY Zenon DEF Backfetch!NothingSkipped, Backfetch!Seen, Backfetch!Before, Backfetch!History,
                 Events!Backfetch!NothingSkipped, Events!Backfetch!Seen,
                 Events!Backfetch!Before, Events!Backfetch!History
  <1>6. Backfetch!CountKept <=> Events!Backfetch!CountKept
    BY Zenon DEF Backfetch!CountKept, Backfetch!Cardinality, Events!Backfetch!CountKept,
                 Events!Backfetch!Cardinality
  <1>7. Backfetch!BelowFloor <=> Events!Backfetch!BelowFloor
    BY Zenon DEF Backfetch!BelowFloor, Backfetch!Before, Events!Backfetch!BelowFloor,
                 Events!Backfetch!Before
  <1>8. Backfetch!StopsWithinAPage <=> Events!Backfetch!StopsWithinAPage
    BY Zenon DEF Backfetch!StopsWithinAPage, Events!Backfetch!StopsWithinAPage
  <1> QED
    BY <1>1, <1>2, <1>3, <1>4, <1>5, <1>6, <1>7, <1>8

BackfetchInv == part = "backfetch" => Events!FetchInv

\* While a deep backfetch runs, its invariant holds.
THEOREM BackfetchInvHolds == Spec => []BackfetchInv
PROOF
  <1> USE DEF BackfetchInv
  <1>1. Init => BackfetchInv
    <2>1. Init => Backfetch!Init
      BY DEF Init
    <2> QED
      BY <2>1, SameBackfetch, BackfetchAssumption, Events!FetchInit
  <1>2. BackfetchInv /\ [Next]_vars => BackfetchInv'
    <2> SUFFICES ASSUME BackfetchInv, [Next]_vars PROVE BackfetchInv'
      OBVIOUS
    <2>1. CASE part = "backfetch" /\ Backfetch!Next /\ BackfetchOnly
      BY <2>1, SameBackfetch, BackfetchAssumption, Events!FetchStep
    <2>2. CASE part' = part /\ (part # "backfetch" \/ UNCHANGED fetchVars)
      BY <2>2, SameBackfetch, BackfetchAssumption, Events!FetchStep
         DEF Events!Backfetch!vars, fetchVars, Events!Backfetch!tableVars,
             Events!Backfetch!runVars,
             Events!Backfetch!processVars, Events!Backfetch!historyVars
    <2>3. CASE UNCHANGED vars
      BY <2>2, <2>3 DEF vars, fetchVars
    <2> QED
      BY <2>1, <2>2, <2>3 DEF Next, PoolOnly, DiaryOnly, LimiterOnly, MessageOnly, SummaryOnly,
         RpcOnly, ResidentOnly, FoldingOnly, RunnerOnly
  <1> QED
    BY <1>1, <1>2, PTL DEF Spec

\* Deep backfetch leaves no hole, loses no count, renders nothing it stored and stops when told.
THEOREM BackfetchKeeps == Spec => []BackfetchSafe
PROOF
  <1>1. BackfetchInv => BackfetchSafe
    BY SameBackfetch, BackfetchAssumption, Events!FetchSafe DEF BackfetchSafe, BackfetchInv
  <1> QED
    BY <1>1, BackfetchInvHolds, PTL

-----------------------------------------------------------------------------
\* Diary and that of Events are the same.
LEMMA SameDiary ==
    /\ Diary!DiaryJobsAssumption <=> Events!Diary!DiaryJobsAssumption
    /\ Diary!Init <=> Events!Diary!Init
    /\ Diary!Next <=> Events!Diary!Next
    /\ Diary!TextsKept <=> Events!Diary!TextsKept
    /\ Diary!DoneIsWritten <=> Events!Diary!DoneIsWritten
    /\ Diary!EntriesOnce <=> Events!Diary!EntriesOnce
    /\ Diary!NotStranded <=> Events!Diary!NotStranded
    /\ Diary!AttemptsBounded <=> Events!Diary!AttemptsBounded
PROOF
  <1>1. Diary!DiaryJobsAssumption <=> Events!Diary!DiaryJobsAssumption
    BY Zenon DEF Diary!DiaryJobsAssumption, Diary!IsFiniteSet, Events!Diary!DiaryJobsAssumption,
                 Events!Diary!IsFiniteSet
  <1>2. Diary!Init <=> Events!Diary!Init
    BY Zenon DEF Diary!Init, Diary!Nothing, Diary!Writers, Events!Diary!Init,
                 Events!Diary!Nothing, Events!Diary!Writers
  <1>3. Diary!Next <=> Events!Diary!Next
    BY Zenon DEF Diary!Next, Diary!SomeClaim, Diary!Claim, Diary!Cardinality, Diary!GoesOn,
                 Diary!FileStep, Diary!WriteFile, Diary!AppendFile, Diary!Ensure, Diary!Ensured,
                 Diary!Work, Diary!StatusWritten, Diary!Retriable, Diary!SessionWritten,
                 Diary!Append_Enqueue, Diary!RunEnds, Diary!Resolve, Diary!Start, Diary!Exit,
                 Diary!Busy, Diary!Stop, Diary!RetryByHand, Diary!Becomes, Diary!FileRejects,
                 Diary!Settles, Diary!Nothing, Diary!ReadFile, Diary!Overlaps, Diary!Mid,
                 Diary!MayRun, Diary!WriteMemory, Diary!Proceeds, Diary!jobVars,
                 Diary!WriteRejects, Diary!Escaping, Diary!AfterClosing, Diary!Guarded,
                 Diary!RunJudged, Diary!GoesTo, Diary!Running, Diary!boundVars,
                 Diary!processVars, Diary!fileVars, Diary!Writers, Events!Diary!Next,
                 Events!Diary!SomeClaim, Events!Diary!Claim, Events!Diary!Cardinality,
                 Events!Diary!GoesOn, Events!Diary!FileStep, Events!Diary!WriteFile,
                 Events!Diary!AppendFile, Events!Diary!Ensure, Events!Diary!Ensured,
                 Events!Diary!Work, Events!Diary!StatusWritten, Events!Diary!Retriable,
                 Events!Diary!SessionWritten, Events!Diary!Append_Enqueue, Events!Diary!RunEnds,
                 Events!Diary!Resolve, Events!Diary!Start, Events!Diary!Exit, Events!Diary!Busy,
                 Events!Diary!Stop, Events!Diary!RetryByHand, Events!Diary!Becomes,
                 Events!Diary!FileRejects, Events!Diary!Settles, Events!Diary!Nothing,
                 Events!Diary!ReadFile, Events!Diary!Overlaps, Events!Diary!Mid,
                 Events!Diary!MayRun, Events!Diary!WriteMemory, Events!Diary!Proceeds,
                 Events!Diary!jobVars, Events!Diary!WriteRejects, Events!Diary!Escaping,
                 Events!Diary!AfterClosing, Events!Diary!Guarded, Events!Diary!RunJudged,
                 Events!Diary!GoesTo, Events!Diary!Running, Events!Diary!boundVars,
                 Events!Diary!processVars, Events!Diary!fileVars, Events!Diary!Writers
  <1>4. Diary!TextsKept <=> Events!Diary!TextsKept
    BY Zenon DEF Diary!TextsKept, Diary!Writers, Events!Diary!TextsKept, Events!Diary!Writers
  <1>5. Diary!DoneIsWritten <=> Events!Diary!DoneIsWritten
    BY Zenon DEF Diary!DoneIsWritten, Events!Diary!DoneIsWritten
  <1>6. Diary!EntriesOnce <=> Events!Diary!EntriesOnce
    BY Zenon DEF Diary!EntriesOnce, Events!Diary!EntriesOnce
  <1>7. Diary!NotStranded <=> Events!Diary!NotStranded
    BY Zenon DEF Diary!NotStranded, Diary!Running, Events!Diary!NotStranded,
                 Events!Diary!Running
  <1>8. Diary!AttemptsBounded <=> Events!Diary!AttemptsBounded
    BY Zenon DEF Diary!AttemptsBounded, Events!Diary!AttemptsBounded
  <1> QED
    BY <1>1, <1>2, <1>3, <1>4, <1>5, <1>6, <1>7, <1>8

-----------------------------------------------------------------------------
\* The same with the constants of Captioning and of Memory.
Assets == INSTANCE StoreProofs WITH
    Jobs <- {j1, j2}, WorkerCount <- 2, MaxRetries <- 2, CountsAtClaim <- TRUE,
    MaxEdits <- 1, MaxRejects <- 1, MaxRestarts <- 1, MaxRetriedByHand <- 1,
    DiaryRows <- {j1}, Diarists <- 1, MaxDiaryRetries <- 0, MaxDiaryRejects <- 0,
    MaxDiaryRestarts <- 1, MaxDiaryByHand <- 0, MaxDiaryRedos <- 0,
    MaxFileEdits <- 1, MaxDirect <- 1,
    Edits <- 2, MaxAttempts <- 2, BatchSize <- 1, Window <- 1, MaxSweepRestarts <- 1,
    SummaryRows <- {j1}, SummaryRetries <- 1, MaxSummaryRejects <- 3, MaxSummaryRestarts <- 1,
    MaxSummaryRetriedByHand <- 1, MaxRedos <- 1,
    FetchJobs <- 1..2, Stamp <- <<9, 4, 2, 3>>, Held <- 1, PageSize <- 2, Targets <- {0, 2},
    SafetyCap <- 2, MaxFaults <- 1, MaxDrains <- 1, MaxOrders <- 1

\* Memory and the diary of Assets are the same.
LEMMA SameMemory ==
    /\ Memory!DiaryJobsAssumption <=> Assets!Diary!DiaryJobsAssumption
    /\ Memory!Init <=> Assets!Diary!Init
    /\ Memory!Next <=> Assets!Diary!Next
    /\ Memory!TextsKept <=> Assets!Diary!TextsKept
    /\ Memory!DoneIsWritten <=> Assets!Diary!DoneIsWritten
    /\ Memory!EntriesOnce <=> Assets!Diary!EntriesOnce
    /\ Memory!NotStranded <=> Assets!Diary!NotStranded
    /\ Memory!AttemptsBounded <=> Assets!Diary!AttemptsBounded
PROOF
  <1>1. Memory!DiaryJobsAssumption <=> Assets!Diary!DiaryJobsAssumption
    BY Zenon DEF Memory!DiaryJobsAssumption, Memory!IsFiniteSet,
                 Assets!Diary!DiaryJobsAssumption, Assets!Diary!IsFiniteSet
  <1>2. Memory!Init <=> Assets!Diary!Init
    BY Zenon DEF Memory!Init, Memory!Nothing, Memory!Writers, Assets!Diary!Init,
                 Assets!Diary!Nothing, Assets!Diary!Writers
  <1>3. Memory!Next <=> Assets!Diary!Next
    BY Zenon DEF Memory!Next, Memory!SomeClaim, Memory!Claim, Memory!Cardinality, Memory!GoesOn,
                 Memory!FileStep, Memory!WriteFile, Memory!AppendFile, Memory!Ensure,
                 Memory!Ensured, Memory!Work, Memory!StatusWritten, Memory!Retriable,
                 Memory!SessionWritten, Memory!Append_Enqueue, Memory!RunEnds, Memory!Resolve,
                 Memory!Start, Memory!Exit, Memory!Busy, Memory!Stop, Memory!RetryByHand,
                 Memory!Becomes, Memory!FileRejects, Memory!Settles, Memory!Nothing,
                 Memory!ReadFile, Memory!Overlaps, Memory!Mid, Memory!MayRun,
                 Memory!WriteMemory, Memory!Proceeds, Memory!jobVars, Memory!WriteRejects,
                 Memory!Escaping, Memory!AfterClosing, Memory!Guarded, Memory!RunJudged,
                 Memory!GoesTo, Memory!Running, Memory!boundVars, Memory!processVars,
                 Memory!fileVars, Memory!Writers, Assets!Diary!Next, Assets!Diary!SomeClaim,
                 Assets!Diary!Claim, Assets!Diary!Cardinality, Assets!Diary!GoesOn,
                 Assets!Diary!FileStep, Assets!Diary!WriteFile, Assets!Diary!AppendFile,
                 Assets!Diary!Ensure, Assets!Diary!Ensured, Assets!Diary!Work,
                 Assets!Diary!StatusWritten, Assets!Diary!Retriable,
                 Assets!Diary!SessionWritten, Assets!Diary!Append_Enqueue, Assets!Diary!RunEnds,
                 Assets!Diary!Resolve, Assets!Diary!Start, Assets!Diary!Exit, Assets!Diary!Busy,
                 Assets!Diary!Stop, Assets!Diary!RetryByHand, Assets!Diary!Becomes,
                 Assets!Diary!FileRejects, Assets!Diary!Settles, Assets!Diary!Nothing,
                 Assets!Diary!ReadFile, Assets!Diary!Overlaps, Assets!Diary!Mid,
                 Assets!Diary!MayRun, Assets!Diary!WriteMemory, Assets!Diary!Proceeds,
                 Assets!Diary!jobVars, Assets!Diary!WriteRejects, Assets!Diary!Escaping,
                 Assets!Diary!AfterClosing, Assets!Diary!Guarded, Assets!Diary!RunJudged,
                 Assets!Diary!GoesTo, Assets!Diary!Running, Assets!Diary!boundVars,
                 Assets!Diary!processVars, Assets!Diary!fileVars, Assets!Diary!Writers
  <1>4. Memory!TextsKept <=> Assets!Diary!TextsKept
    BY Zenon DEF Memory!TextsKept, Memory!Writers, Assets!Diary!TextsKept, Assets!Diary!Writers
  <1>5. Memory!DoneIsWritten <=> Assets!Diary!DoneIsWritten
    BY Zenon DEF Memory!DoneIsWritten, Assets!Diary!DoneIsWritten
  <1>6. Memory!EntriesOnce <=> Assets!Diary!EntriesOnce
    BY Zenon DEF Memory!EntriesOnce, Assets!Diary!EntriesOnce
  <1>7. Memory!NotStranded <=> Assets!Diary!NotStranded
    BY Zenon DEF Memory!NotStranded, Memory!Running, Assets!Diary!NotStranded,
                 Assets!Diary!Running
  <1>8. Memory!AttemptsBounded <=> Assets!Diary!AttemptsBounded
    BY Zenon DEF Memory!AttemptsBounded, Assets!Diary!AttemptsBounded
  <1> QED
    BY <1>1, <1>2, <1>3, <1>4, <1>5, <1>6, <1>7, <1>8

DiaryInv == (part = "diary" => Events!DiaryInv) /\ (part = "memory" => Assets!DiaryInv)

\* While a diary runs, its invariant holds.
THEOREM DiaryInvHolds == Spec => []DiaryInv
PROOF
  <1> USE DEF DiaryInv
  <1>1. Init => DiaryInv
    <2>1. Init => Diary!Init
      BY DEF Init
    <2>2. Diary!Init => Events!Diary!Init
      BY SameDiary
    <2>3. Diary!Init => Memory!Init
      BY Zenon DEF Diary!Init, Memory!Init, Diary!Nothing, Memory!Nothing, Diary!Writers,
                   Memory!Writers
    <2> QED
      BY <2>1, <2>2, <2>3, SameDiary, SameMemory, DiaryAssumption, Events!DiaryInit,
         Assets!DiaryInit
  <1>2. DiaryInv /\ [Next]_vars => DiaryInv'
    <2> SUFFICES ASSUME DiaryInv, [Next]_vars PROVE DiaryInv'
      OBVIOUS
    <2>1. CASE part = "diary" /\ Diary!Next /\ DiaryOnly
      BY <2>1, SameDiary, DiaryAssumption, Events!DiaryStep DEF DiaryOnly
    <2>2. CASE part = "memory" /\ Memory!Next /\ DiaryOnly
      BY <2>2, SameMemory, DiaryAssumption, Assets!DiaryStep DEF DiaryOnly
    <2>3. CASE part' = part /\ (part \notin {"diary", "memory"} \/ UNCHANGED diaryVars)
      BY <2>3, SameDiary, SameMemory, DiaryAssumption, Events!DiaryStep, Assets!DiaryStep
         DEF Events!Diary!vars, Assets!Diary!vars, diaryVars
    <2>4. CASE UNCHANGED vars
      BY <2>3, <2>4 DEF vars, diaryVars
    <2> QED
      BY <2>1, <2>2, <2>3, <2>4 DEF Next, PoolOnly, SummaryOnly, LimiterOnly, MessageOnly,
                                    BackfetchOnly,
         RpcOnly, ResidentOnly, FoldingOnly, RunnerOnly
  <1> QED
    BY <1>1, <1>2, PTL DEF Spec

\* The diary writes each entry once, loses no text and strands no job.
THEOREM DiaryKept == Spec => []DiarySafe
PROOF
  <1>1. DiaryInv => DiarySafe
    BY SameDiary, SameMemory, DiaryAssumption, Events!DiarySafe, Assets!DiarySafe DEF DiarySafe,
                                                                                      DiaryInv
  <1> QED
    BY <1>1, DiaryInvHolds, PTL

-----------------------------------------------------------------------------
\* Captioning and the pool of Assets are the same.
LEMMA SameCaptioning ==
    /\ Captioning!WorkerPoolAssumption <=> Assets!Pool!WorkerPoolAssumption
    /\ Captioning!Init <=> Assets!Pool!Init
    /\ Captioning!Next <=> Assets!Pool!Next
    /\ Captioning!WorkersBounded <=> Assets!Pool!WorkersBounded
    /\ Captioning!OneWorkerPerJob <=> Assets!Pool!OneWorkerPerJob
    /\ Captioning!ProcessingIsHeld <=> Assets!Pool!ProcessingIsHeld
    /\ Captioning!LoopAlive <=> Assets!Pool!LoopAlive
    /\ Captioning!AttemptsBounded <=> Assets!Pool!AttemptsBounded
    /\ Captioning!EditsEnriched <=> Assets!Pool!EditsEnriched
PROOF
  <1>1. Captioning!WorkerPoolAssumption <=> Assets!Pool!WorkerPoolAssumption
    BY Zenon DEF Captioning!WorkerPoolAssumption, Captioning!IsFiniteSet,
                 Assets!Pool!WorkerPoolAssumption, Assets!Pool!IsFiniteSet
  <1>2. Captioning!Init <=> Assets!Pool!Init
    BY Zenon DEF Captioning!Init, Assets!Pool!Init
  <1>3. Captioning!Next <=> Assets!Pool!Next
    BY Zenon DEF Captioning!Next, Captioning!Start, Captioning!Exit, Captioning!Stop,
                 Captioning!Retry, Captioning!Edit, Captioning!Store, Captioning!Notify,
                 Captioning!SomeWorkerEnds, Captioning!WorkerEnds, Captioning!FailsForGood,
                 Captioning!Fails, Captioning!Succeeds, Captioning!Leaves,
                 Captioning!WriteRejects, Captioning!RemoveAt, Captioning!Budget,
                 Captioning!loopVars, Captioning!SleepEnds, Captioning!ClaimRejects,
                 Captioning!Sleep, Captioning!rowVars, Captioning!Claim, Captioning!SetToSeq,
                 Captioning!IsInjective, Captioning!Cardinality, Captioning!Polls,
                 Captioning!SchedulePoll, Captioning!Running, Captioning!Available,
                 Captioning!Held, Captioning!Pending, Captioning!boundVars, Assets!Pool!Next,
                 Assets!Pool!Start, Assets!Pool!Exit, Assets!Pool!Stop, Assets!Pool!Retry,
                 Assets!Pool!Edit, Assets!Pool!Store, Assets!Pool!Notify,
                 Assets!Pool!SomeWorkerEnds, Assets!Pool!WorkerEnds, Assets!Pool!FailsForGood,
                 Assets!Pool!Fails, Assets!Pool!Succeeds, Assets!Pool!Leaves,
                 Assets!Pool!WriteRejects, Assets!Pool!RemoveAt, Assets!Pool!Budget,
                 Assets!Pool!loopVars, Assets!Pool!SleepEnds, Assets!Pool!ClaimRejects,
                 Assets!Pool!Sleep, Assets!Pool!rowVars, Assets!Pool!Claim,
                 Assets!Pool!SetToSeq, Assets!Pool!IsInjective, Assets!Pool!Cardinality,
                 Assets!Pool!Polls, Assets!Pool!SchedulePoll, Assets!Pool!Running,
                 Assets!Pool!Available, Assets!Pool!Held, Assets!Pool!Pending,
                 Assets!Pool!boundVars
  <1>4. Captioning!WorkersBounded <=> Assets!Pool!WorkersBounded
    BY Zenon DEF Captioning!WorkersBounded, Assets!Pool!WorkersBounded
  <1>5. Captioning!OneWorkerPerJob <=> Assets!Pool!OneWorkerPerJob
    BY Zenon DEF Captioning!OneWorkerPerJob, Assets!Pool!OneWorkerPerJob
  <1>6. Captioning!ProcessingIsHeld <=> Assets!Pool!ProcessingIsHeld
    BY Zenon DEF Captioning!ProcessingIsHeld, Captioning!Held, Captioning!Running,
                 Assets!Pool!ProcessingIsHeld, Assets!Pool!Held, Assets!Pool!Running
  <1>7. Captioning!LoopAlive <=> Assets!Pool!LoopAlive
    BY Zenon DEF Captioning!LoopAlive, Captioning!Running, Assets!Pool!LoopAlive,
                 Assets!Pool!Running
  <1>8. Captioning!AttemptsBounded <=> Assets!Pool!AttemptsBounded
    BY Zenon DEF Captioning!AttemptsBounded, Assets!Pool!AttemptsBounded
  <1>9. Captioning!EditsEnriched <=> Assets!Pool!EditsEnriched
    BY Zenon DEF Captioning!EditsEnriched, Assets!Pool!EditsEnriched
  <1> QED
    BY <1>1, <1>2, <1>3, <1>4, <1>5, <1>6, <1>7, <1>8, <1>9

\* The two pools start alike, and their properties do not tell them apart.
LEMMA PoolsAlike ==
    /\ Enrichment!Init = Captioning!Init
    /\ Captioning!WorkersBounded = Enrichment!WorkersBounded
    /\ Captioning!OneWorkerPerJob = Enrichment!OneWorkerPerJob
    /\ Captioning!ProcessingIsHeld = Enrichment!ProcessingIsHeld
    /\ Captioning!LoopAlive = Enrichment!LoopAlive
    /\ Captioning!AttemptsBounded = Enrichment!AttemptsBounded
    /\ Captioning!EditsEnriched = Enrichment!EditsEnriched
PROOF
  <1>1. Captioning!Running = Enrichment!Running
    BY Zenon DEF Captioning!Running, Enrichment!Running
  <1>2. ASSUME NEW c PROVE Captioning!Held(c) = Enrichment!Held(c)
    BY Zenon DEF Captioning!Held, Enrichment!Held
  <1>3. Enrichment!Init = Captioning!Init
    BY Zenon DEF Enrichment!Init, Captioning!Init
  <1>4. Captioning!WorkersBounded = Enrichment!WorkersBounded
    BY Zenon DEF Captioning!WorkersBounded, Enrichment!WorkersBounded
  <1>5. Captioning!OneWorkerPerJob = Enrichment!OneWorkerPerJob
    BY Zenon DEF Captioning!OneWorkerPerJob, Enrichment!OneWorkerPerJob
  <1>6. Captioning!ProcessingIsHeld = Enrichment!ProcessingIsHeld
    BY <1>1, <1>2, Zenon DEF Captioning!ProcessingIsHeld, Enrichment!ProcessingIsHeld
  <1>7. Captioning!LoopAlive = Enrichment!LoopAlive
    BY <1>1, Zenon DEF Captioning!LoopAlive, Enrichment!LoopAlive
  <1>8. Captioning!AttemptsBounded = Enrichment!AttemptsBounded
    BY Zenon DEF Captioning!AttemptsBounded, Enrichment!AttemptsBounded
  <1>9. Captioning!EditsEnriched = Enrichment!EditsEnriched
    BY Zenon DEF Captioning!EditsEnriched, Enrichment!EditsEnriched
  <1> QED
    BY <1>3, <1>4, <1>5, <1>6, <1>7, <1>8, <1>9

PoolsInv ==
    /\ part = "enrichment" => Events!PoolInv
    /\ part = "captioning" => Assets!PoolInv

\* While a pool runs, its invariant holds.
THEOREM PoolsInvHolds == Spec => []PoolsInv
PROOF
  <1> USE DEF PoolsInv
  <1>1. Init => PoolsInv
    <2>1. Init => Enrichment!Init /\ Captioning!Init
      BY PoolsAlike, Zenon DEF Init
    <2> QED
      BY <2>1, SameEnrichment, SameCaptioning, PoolAssumption, Events!PoolInit, Assets!PoolInit
  <1>2. PoolsInv /\ [Next]_vars => PoolsInv'
    <2> SUFFICES ASSUME PoolsInv, [Next]_vars PROVE PoolsInv'
      OBVIOUS
    <2>1. CASE part = "enrichment" /\ Enrichment!Next /\ PoolOnly
      BY <2>1, SameEnrichment, PoolAssumption, Events!PoolStep DEF PoolOnly
    <2>2. CASE part = "captioning" /\ Captioning!Next /\ PoolOnly
      BY <2>2, SameCaptioning, PoolAssumption, Assets!PoolStep DEF PoolOnly
    <2>3. CASE part' = part /\ (part \notin {"enrichment", "captioning"} \/ UNCHANGED poolVars)
      BY <2>3, SameEnrichment, SameCaptioning, PoolAssumption, Events!PoolStep, Assets!PoolStep
         DEF Events!Pool!vars, Assets!Pool!vars, poolVars
    <2>4. CASE UNCHANGED vars
      BY <2>3, <2>4 DEF vars, poolVars
    <2> QED
      BY <2>1, <2>2, <2>3, <2>4 DEF Next, SummaryOnly, DiaryOnly, LimiterOnly, MessageOnly,
         BackfetchOnly, RpcOnly, ResidentOnly, FoldingOnly, RunnerOnly
  <1> QED
    BY <1>1, <1>2, PTL DEF Spec

\* Each pool keeps to its workers, loses no row and bounds its attempts.
THEOREM PoolsKeep == Spec => []PoolSafe
PROOF
  <1>1. PoolsInv => PoolSafe
    BY SameEnrichment, SameCaptioning, PoolsAlike, PoolAssumption, Events!PoolSafe,
       Assets!PoolSafe
       DEF PoolSafe, PoolsInv
  <1> QED
    BY <1>1, PoolsInvHolds, PTL

-----------------------------------------------------------------------------
\* The types of the instances are those of the proofs' instances.
LEMMA SameTypes ==
    /\ Diary!TypeOK <=> Events!Diary!TypeOK
    /\ Memory!TypeOK <=> Assets!Diary!TypeOK
    /\ Enrichment!TypeOK <=> Events!Pool!TypeOK
    /\ Captioning!TypeOK <=> Assets!Pool!TypeOK
    /\ Message!TypeOK <=> Events!Message!TypeOK
    /\ Summary!TypeOK <=> Events!Summary!TypeOK
    /\ Backfetch!TypeOK <=> Events!Backfetch!TypeOK
PROOF
  <1>1. Diary!TypeOK <=> Events!Diary!TypeOK
    BY Zenon DEF Diary!TypeOK, Diary!Stages, Diary!Escaping, Diary!AfterClosing, Diary!Guarded,
                 Diary!Ended, Diary!Writers, Events!Diary!TypeOK, Events!Diary!Stages,
                 Events!Diary!Escaping, Events!Diary!AfterClosing, Events!Diary!Guarded,
                 Events!Diary!Ended, Events!Diary!Writers
  <1>2. Memory!TypeOK <=> Assets!Diary!TypeOK
    BY Zenon DEF Memory!TypeOK, Memory!Stages, Memory!Escaping, Memory!AfterClosing,
                 Memory!Guarded, Memory!Ended, Memory!Writers, Assets!Diary!TypeOK,
                 Assets!Diary!Stages, Assets!Diary!Escaping, Assets!Diary!AfterClosing,
                 Assets!Diary!Guarded, Assets!Diary!Ended, Assets!Diary!Writers
  <1>3. Enrichment!TypeOK <=> Events!Pool!TypeOK
    BY Zenon DEF Enrichment!TypeOK, Events!Pool!TypeOK
  <1>4. Captioning!TypeOK <=> Assets!Pool!TypeOK
    BY Zenon DEF Captioning!TypeOK, Assets!Pool!TypeOK
  <1>5. Message!TypeOK <=> Events!Message!TypeOK
    BY Zenon DEF Message!TypeOK, Message!Events, Events!Message!TypeOK, Events!Message!Events
  <1>6. Summary!TypeOK <=> Events!Summary!TypeOK
    BY Zenon DEF Summary!TypeOK, Summary!Stages, Summary!Escaping, Summary!AfterClosing,
                 Summary!Guarded, Events!Summary!TypeOK, Events!Summary!Stages,
                 Events!Summary!Escaping, Events!Summary!AfterClosing, Events!Summary!Guarded
  <1>7. Backfetch!TypeOK <=> Events!Backfetch!TypeOK
    BY Zenon DEF Backfetch!TypeOK, Backfetch!Active, Backfetch!History, Events!Backfetch!TypeOK,
                 Events!Backfetch!Active, Events!Backfetch!History
  <1> QED
    BY <1>1, <1>2, <1>3, <1>4, <1>5, <1>6, <1>7

-----------------------------------------------------------------------------
\* The proof module of the agent's components: of the two sessions with the constants of
\* the one that is corrected and steered.
Agent == INSTANCE AgentProofs WITH
    Callers <- {a, b1, b2, b3}, Classes <- <<"interactive", "background">>,
    ClassOf <- [c \in {a, b1, b2, b3} |-> IF c = a THEN "interactive" ELSE "background"],
    MaxInFlight <- 2, MinInterval <- 2,
    Replies <- {r1, r2}, Mentions <- {m1}, Bare <- {}, Media <- {m1},
    MaxResumes <- 1, MaxRevivals <- 1,
    Sends <- {s1}, Notes <- {n1},
    MaxRetries <- 0, Tries <- 1, MaxRedos <- 1, MaxCorrections <- 1, MaxStops <- 1,
    MaxCalls <- 3,
    Blocks <- 1..3, Indexed <- {1}, WindowSize <- 2, Page <- 1, Load <- 1, MaxDeaths <- 2

\* The limiter and that of Agent are the same, definition by definition.
LEMMA SameLimiter ==
    /\ Limiter!PacedLimiterAssumption <=> Agent!Limiter!PacedLimiterAssumption
    /\ Limiter!Init <=> Agent!Limiter!Init
    /\ Limiter!Next <=> Agent!Limiter!Next
    /\ Limiter!InFlightBounded <=> Agent!Limiter!InFlightBounded
    /\ Limiter!NoSlotLost <=> Agent!Limiter!NoSlotLost
    /\ Limiter!StartsPaced <=> Agent!Limiter!StartsPaced
    /\ Limiter!TypeOK <=> Agent!Limiter!TypeOK
PROOF
  <1>1. Limiter!PacedLimiterAssumption <=> Agent!Limiter!PacedLimiterAssumption
    BY Zenon DEF Limiter!PacedLimiterAssumption, Limiter!IsFiniteSet, Limiter!ToSet,
                 Agent!Limiter!PacedLimiterAssumption, Agent!Limiter!IsFiniteSet,
                 Agent!Limiter!ToSet
  <1>2. Limiter!Init <=> Agent!Limiter!Init
    BY Zenon DEF Limiter!Init, Limiter!ToSet, Agent!Limiter!Init, Agent!Limiter!ToSet
  <1>3. Limiter!Next <=> Agent!Limiter!Next
    BY Zenon DEF Limiter!Next, Limiter!Tick, Limiter!Release, Limiter!NextClass,
                 Limiter!SelectInSeq, Limiter!Min, Limiter!Max, Limiter!Start, Limiter!Resume,
                 Limiter!Acquire, Limiter!Reserve, Limiter!Starts, Limiter!Waiting,
                 Limiter!ToSet, Agent!Limiter!Next, Agent!Limiter!Tick, Agent!Limiter!Release,
                 Agent!Limiter!NextClass, Agent!Limiter!SelectInSeq, Agent!Limiter!Min,
                 Agent!Limiter!Max, Agent!Limiter!Start, Agent!Limiter!Resume,
                 Agent!Limiter!Acquire, Agent!Limiter!Reserve, Agent!Limiter!Starts,
                 Agent!Limiter!Waiting, Agent!Limiter!ToSet
  <1>4. Limiter!InFlightBounded <=> Agent!Limiter!InFlightBounded
    BY Zenon DEF Limiter!InFlightBounded, Limiter!Cardinality, Limiter!Holders,
                 Agent!Limiter!InFlightBounded, Agent!Limiter!Cardinality, Agent!Limiter!Holders
  <1>5. Limiter!NoSlotLost <=> Agent!Limiter!NoSlotLost
    BY Zenon DEF Limiter!NoSlotLost, Limiter!Cardinality, Limiter!Holders, Limiter!Waiting,
                 Limiter!ToSet, Agent!Limiter!NoSlotLost, Agent!Limiter!Cardinality,
                 Agent!Limiter!Holders, Agent!Limiter!Waiting, Agent!Limiter!ToSet
  <1>6. Limiter!StartsPaced <=> Agent!Limiter!StartsPaced
    BY Zenon DEF Limiter!StartsPaced, Agent!Limiter!StartsPaced
  <1>7. Limiter!TypeOK <=> Agent!Limiter!TypeOK
    BY Zenon DEF Limiter!TypeOK, Limiter!ToSet, Agent!Limiter!TypeOK, Agent!Limiter!ToSet
  <1> QED
    BY <1>1, <1>2, <1>3, <1>4, <1>5, <1>6, <1>7

PacingInv == part = "limiter" => Agent!LimiterInv

\* While the limiter runs, its invariant holds.
THEOREM PacingInvHolds == Spec => []PacingInv
PROOF
  <1> USE DEF PacingInv
  <1>1. Init => PacingInv
    <2>1. Init => Limiter!Init
      BY DEF Init
    <2> QED
      BY <2>1, SameLimiter, LimiterAssumption, Agent!LimiterInit
  <1>2. PacingInv /\ [Next]_vars => PacingInv'
    <2> SUFFICES ASSUME PacingInv, [Next]_vars PROVE PacingInv'
      OBVIOUS
    <2>1. CASE part = "limiter" /\ Limiter!Next /\ LimiterOnly
      BY <2>1, SameLimiter, LimiterAssumption, Agent!LimiterStep
    <2>2. CASE part' = part /\ (part # "limiter" \/ UNCHANGED limiterVars)
      BY <2>2, SameLimiter, LimiterAssumption, Agent!LimiterStep DEF Agent!Limiter!vars,
                                                                     limiterVars
    <2>3. CASE UNCHANGED vars
      BY <2>2, <2>3 DEF vars, limiterVars
    <2> QED
      BY <2>1, <2>2, <2>3 DEF Next, PoolOnly, SummaryOnly, DiaryOnly, MessageOnly, BackfetchOnly,
         RpcOnly, ResidentOnly, FoldingOnly, RunnerOnly
  <1> QED
    BY <1>1, <1>2, PTL DEF Spec

\* The limiter paces its callers.
THEOREM LimiterPaces == Spec => []PacingSafe
PROOF
  <1>1. PacingInv => PacingSafe
    BY SameLimiter, Agent!LimiterSafe DEF PacingSafe, PacingInv
  <1> QED
    BY <1>1, PacingInvHolds, PTL

-----------------------------------------------------------------------------
\* The folding of the run and that of Agent are the same.
LEMMA SameFolding ==
    /\ Folding!FollowUpsAssumption <=> Agent!Folding!FollowUpsAssumption
    /\ Folding!Init <=> Agent!Folding!Init
    /\ Folding!Next <=> Agent!Folding!Next
    /\ Folding!AnsweredOnce <=> Agent!Folding!AnsweredOnce
    /\ Folding!NoTriggerLost <=> Agent!Folding!NoTriggerLost
    /\ Folding!TypeOK <=> Agent!Folding!TypeOK
PROOF
  <1>1. Folding!FollowUpsAssumption <=> Agent!Folding!FollowUpsAssumption
    BY Zenon DEF Folding!FollowUpsAssumption, Agent!Folding!FollowUpsAssumption
  <1>2. Folding!Init <=> Agent!Folding!Init
    BY Zenon DEF Folding!Init, Folding!Messages, Agent!Folding!Init, Agent!Folding!Messages
  <1>3. Folding!Next <=> Agent!Folding!Next
    BY Zenon DEF Folding!Next, Folding!UnderWay, Folding!RevivalFails, Folding!Revived,
                 Folding!Completed, Folding!RolloutEnds, Folding!Read, Folding!BuildFails,
                 Folding!GoLive, Folding!Fetched, Folding!LateReply, Folding!TwinReply,
                 Folding!Resume, Folding!Expire, Folding!Correct, Folding!Dies, Folding!Placed,
                 Folding!SpinOff, Folding!Fold, Folding!Native, Folding!Active,
                 Folding!RawReply, Folding!Steerable, Folding!Put, Folding!session,
                 Folding!bounds, Folding!fates, Folding!Messages, Agent!Folding!Next,
                 Agent!Folding!UnderWay, Agent!Folding!RevivalFails, Agent!Folding!Revived,
                 Agent!Folding!Completed, Agent!Folding!RolloutEnds, Agent!Folding!Read,
                 Agent!Folding!BuildFails, Agent!Folding!GoLive, Agent!Folding!Fetched,
                 Agent!Folding!LateReply, Agent!Folding!TwinReply, Agent!Folding!Resume,
                 Agent!Folding!Expire, Agent!Folding!Correct, Agent!Folding!Dies,
                 Agent!Folding!Placed, Agent!Folding!SpinOff, Agent!Folding!Fold,
                 Agent!Folding!Native, Agent!Folding!Active, Agent!Folding!RawReply,
                 Agent!Folding!Steerable, Agent!Folding!Put, Agent!Folding!session,
                 Agent!Folding!bounds, Agent!Folding!fates, Agent!Folding!Messages
  <1>4. Folding!AnsweredOnce <=> Agent!Folding!AnsweredOnce
    BY Zenon DEF Folding!AnsweredOnce, Folding!Messages, Agent!Folding!AnsweredOnce,
                 Agent!Folding!Messages
  <1>5. Folding!NoTriggerLost <=> Agent!Folding!NoTriggerLost
    BY Zenon DEF Folding!NoTriggerLost, Folding!Messages, Agent!Folding!NoTriggerLost,
                 Agent!Folding!Messages
  <1>6. Folding!TypeOK <=> Agent!Folding!TypeOK
    BY Zenon DEF Folding!TypeOK, Folding!Placed, Folding!Messages, Agent!Folding!TypeOK,
                 Agent!Folding!Placed, Agent!Folding!Messages
  <1> QED
    BY <1>1, <1>2, <1>3, <1>4, <1>5, <1>6

FollowUpsInv == part = "folding" => Agent!FoldInv

\* While the folding runs, its invariant holds.
THEOREM FollowUpsInvHolds == Spec => []FollowUpsInv
PROOF
  <1> USE DEF FollowUpsInv
  <1>1. Init => FollowUpsInv
    <2>1. Init => Folding!Init
      BY DEF Init
    <2> QED
      BY <2>1, SameFolding, FoldingAssumption, Agent!FoldInit
  <1>2. FollowUpsInv /\ [Next]_vars => FollowUpsInv'
    <2> SUFFICES ASSUME FollowUpsInv, [Next]_vars PROVE FollowUpsInv'
      OBVIOUS
    <2>1. CASE part = "folding" /\ Folding!Next /\ FoldingOnly
      BY <2>1, SameFolding, FoldingAssumption, Agent!FoldStep
    <2>2. CASE part' = part /\ (part # "folding" \/ UNCHANGED foldVars)
      BY <2>2, SameFolding, FoldingAssumption, Agent!FoldStep
         DEF Agent!Folding!vars, foldVars, Agent!Folding!session, Agent!Folding!fates,
             Agent!Folding!bounds
    <2>3. CASE UNCHANGED vars
      BY <2>2, <2>3 DEF vars, foldVars
    <2> QED
      BY <2>1, <2>2, <2>3 DEF Next, PoolOnly, SummaryOnly, DiaryOnly, LimiterOnly, MessageOnly,
                              BackfetchOnly,
         RpcOnly, ResidentOnly, RunnerOnly
  <1> QED
    BY <1>1, <1>2, PTL DEF Spec

\* No message folded into a session is answered twice, and no trigger is lost.
THEOREM FollowUpsAnswered == Spec => []FollowUpsSafe
PROOF
  <1>1. FollowUpsInv => FollowUpsSafe
    BY SameFolding, FoldingAssumption, Agent!FoldSafe DEF FollowUpsSafe, FollowUpsInv
  <1> QED
    BY <1>1, FollowUpsInvHolds, PTL

-----------------------------------------------------------------------------
\* The worker process of the run and that of Agent are the same.
LEMMA SameRpc ==
    /\ Rpc!WorkerRpcAssumption <=> Agent!Rpc!WorkerRpcAssumption
    /\ Rpc!Init <=> Agent!Rpc!Init
    /\ Rpc!Next <=> Agent!Rpc!Next
    /\ Rpc!TypeOK <=> Agent!Rpc!TypeOK
    /\ Rpc!GraceIsTheHeads <=> Agent!Rpc!GraceIsTheHeads
    /\ Rpc!StuckIsNoticed <=> Agent!Rpc!StuckIsNoticed
    /\ Rpc!NoneLeftBehind <=> Agent!Rpc!NoneLeftBehind
PROOF
  <1>1. Rpc!WorkerRpcAssumption <=> Agent!Rpc!WorkerRpcAssumption
    BY Zenon DEF Rpc!WorkerRpcAssumption, Agent!Rpc!WorkerRpcAssumption
  <1>2. Rpc!Init <=> Agent!Rpc!Init
    BY Zenon DEF Rpc!Init, Rpc!Ids, Agent!Rpc!Init, Agent!Rpc!Ids
  <1>3. Rpc!Next <=> Agent!Rpc!Next
    BY Zenon DEF Rpc!Next, Rpc!SomeTimer, Rpc!TimerFires, Rpc!Closed, Rpc!ExitSeen, Rpc!Fail,
                 Rpc!ReplyArrives, Rpc!ChildDies, Rpc!ChildAnswers, Rpc!ChildStarts,
                 Rpc!ChildReads, Rpc!parentVars, Rpc!Abort, Rpc!Armed, Rpc!Oldest, Rpc!Close,
                 Rpc!Call, Rpc!Issue, Rpc!Send, Rpc!childVars, Rpc!Ids, Agent!Rpc!Next,
                 Agent!Rpc!SomeTimer, Agent!Rpc!TimerFires, Agent!Rpc!Closed,
                 Agent!Rpc!ExitSeen, Agent!Rpc!Fail, Agent!Rpc!ReplyArrives,
                 Agent!Rpc!ChildDies, Agent!Rpc!ChildAnswers, Agent!Rpc!ChildStarts,
                 Agent!Rpc!ChildReads, Agent!Rpc!parentVars, Agent!Rpc!Abort, Agent!Rpc!Armed,
                 Agent!Rpc!Oldest, Agent!Rpc!Close, Agent!Rpc!Call, Agent!Rpc!Issue,
                 Agent!Rpc!Send, Agent!Rpc!childVars, Agent!Rpc!Ids
  <1>4. Rpc!TypeOK <=> Agent!Rpc!TypeOK
    BY Zenon DEF Rpc!TypeOK, Rpc!Ids, Agent!Rpc!TypeOK, Agent!Rpc!Ids
  <1>5. Rpc!GraceIsTheHeads <=> Agent!Rpc!GraceIsTheHeads
    BY Zenon DEF Rpc!GraceIsTheHeads, Rpc!InChild, Rpc!Ids, Agent!Rpc!GraceIsTheHeads,
                 Agent!Rpc!InChild, Agent!Rpc!Ids
  <1>6. Rpc!StuckIsNoticed <=> Agent!Rpc!StuckIsNoticed
    BY Zenon DEF Rpc!StuckIsNoticed, Rpc!InChild, Rpc!Ids, Agent!Rpc!StuckIsNoticed,
                 Agent!Rpc!InChild, Agent!Rpc!Ids
  <1>7. Rpc!NoneLeftBehind <=> Agent!Rpc!NoneLeftBehind
    BY Zenon DEF Rpc!NoneLeftBehind, Rpc!Late, Rpc!Ids, Agent!Rpc!NoneLeftBehind,
                 Agent!Rpc!Late, Agent!Rpc!Ids
  <1> QED
    BY <1>1, <1>2, <1>3, <1>4, <1>5, <1>6, <1>7

\* The resident window of the run and that of Agent are the same.
LEMMA SameResident ==
    /\ Resident!LateWindowAssumption <=> Agent!Resident!LateWindowAssumption
    /\ Resident!Init <=> Agent!Resident!Init
    /\ Resident!Next <=> Agent!Resident!Next
    /\ Resident!TypeOK <=> Agent!Resident!TypeOK
    /\ Resident!WindowWhole <=> Agent!Resident!WindowWhole
    /\ Resident!KeyHonest <=> Agent!Resident!KeyHonest
    /\ Resident!RequestsServed <=> Agent!Resident!RequestsServed
PROOF
  <1>1. Resident!LateWindowAssumption <=> Agent!Resident!LateWindowAssumption
    BY Zenon DEF Resident!LateWindowAssumption, Resident!IsFiniteSet,
                 Agent!Resident!LateWindowAssumption, Agent!Resident!IsFiniteSet
  <1>2. Resident!Init <=> Agent!Resident!Init
    BY Zenon DEF Resident!Init, Resident!None, Agent!Resident!Init, Agent!Resident!None
  <1>3. Resident!Next <=> Agent!Resident!Next
    BY Zenon DEF Resident!Next, Resident!WorkerDies, Resident!Removed, Resident!Added,
                 Resident!Opened, Resident!NextBatch, Resident!Respawned, Resident!SendRefused,
                 Resident!Spawns, Resident!ReadPage, Resident!Look, Resident!TakePage,
                 Resident!StartsFrom, Resident!Commit, Resident!WindowTorn, Resident!Newest,
                 Resident!Cardinality, Resident!Ends, Resident!TimerFires, Resident!Query,
                 Resident!indexVars, Resident!Bump, Resident!Store, Resident!locals,
                 Resident!workerVars, Agent!Resident!Next, Agent!Resident!WorkerDies,
                 Agent!Resident!Removed, Agent!Resident!Added, Agent!Resident!Opened,
                 Agent!Resident!NextBatch, Agent!Resident!Respawned, Agent!Resident!SendRefused,
                 Agent!Resident!Spawns, Agent!Resident!ReadPage, Agent!Resident!Look,
                 Agent!Resident!TakePage, Agent!Resident!StartsFrom, Agent!Resident!Commit,
                 Agent!Resident!WindowTorn, Agent!Resident!Newest, Agent!Resident!Cardinality,
                 Agent!Resident!Ends, Agent!Resident!TimerFires, Agent!Resident!Query,
                 Agent!Resident!indexVars, Agent!Resident!Bump, Agent!Resident!Store,
                 Agent!Resident!locals, Agent!Resident!workerVars
  <1>4. Resident!TypeOK <=> Agent!Resident!TypeOK
    BY Zenon DEF Resident!TypeOK, Resident!Cardinality, Agent!Resident!TypeOK,
                 Agent!Resident!Cardinality
  <1>5. Resident!WindowWhole <=> Agent!Resident!WindowWhole
    BY Zenon DEF Resident!WindowWhole, Resident!Filling, Resident!Hidden,
                 Agent!Resident!WindowWhole, Agent!Resident!Filling, Agent!Resident!Hidden
  <1>6. Resident!KeyHonest <=> Agent!Resident!KeyHonest
    BY Zenon DEF Resident!KeyHonest, Resident!Newest, Resident!Cardinality,
                 Agent!Resident!KeyHonest, Agent!Resident!Newest, Agent!Resident!Cardinality
  <1>7. Resident!RequestsServed <=> Agent!Resident!RequestsServed
    BY Zenon DEF Resident!RequestsServed, Agent!Resident!RequestsServed
  <1> QED
    BY <1>1, <1>2, <1>3, <1>4, <1>5, <1>6, <1>7

RetrievalInv ==
    /\ part = "rpc" => Agent!RpcInv
    /\ part = "window" => Agent!WindowInv

\* While the worker process or its resident window runs, its invariant holds.
THEOREM RetrievalInvHolds == Spec => []RetrievalInv
PROOF
  <1> USE DEF RetrievalInv
  <1>1. Init => RetrievalInv
    <2>1. Init => Rpc!Init /\ Resident!Init
      BY DEF Init
    <2> QED
      BY <2>1, SameRpc, SameResident, RpcAssumption, ResidentAssumption, Agent!RpcInit,
         Agent!WindowInit
  <1>2. RetrievalInv /\ [Next]_vars => RetrievalInv'
    <2> SUFFICES ASSUME RetrievalInv, [Next]_vars PROVE RetrievalInv'
      OBVIOUS
    <2>1. CASE part = "rpc" /\ Rpc!Next /\ RpcOnly
      BY <2>1, SameRpc, RpcAssumption, Agent!RpcStep DEF RpcOnly
    <2>2. CASE part = "window" /\ Resident!Next /\ ResidentOnly
      BY <2>2, SameResident, ResidentAssumption, Agent!WindowStep DEF ResidentOnly
    <2>3. CASE part' = part /\ (part # "rpc" \/ UNCHANGED rpcVars)
                            /\ (part # "window" \/ UNCHANGED windowVars)
      <3>1. UNCHANGED rpcVars => UNCHANGED Agent!Rpc!vars
        BY DEF rpcVars, Agent!Rpc!vars
      <3>2. UNCHANGED windowVars => UNCHANGED Agent!Resident!vars
        BY DEF windowVars, Agent!Resident!vars
      <3> QED
        BY <2>3, <3>1, <3>2, SameRpc, SameResident, RpcAssumption, ResidentAssumption,
           Agent!RpcStep, Agent!WindowStep
    <2>4. CASE UNCHANGED vars
      BY <2>3, <2>4 DEF vars, rpcVars, windowVars
    <2> QED
      BY <2>1, <2>2, <2>3, <2>4 DEF Next, PoolOnly, SummaryOnly, DiaryOnly, LimiterOnly,
         MessageOnly, BackfetchOnly, FoldingOnly, RunnerOnly, RpcOnly, ResidentOnly
  <1> QED
    BY <1>1, <1>2, PTL DEF Spec

\* A child is not killed for an abort it has not come to, a stuck one is, no request survives
\* it; and the window it keeps loaded is whole where it is read, and updated when asked to be.
THEOREM RetrievalKeeps == Spec => []RetrievalSafe
PROOF
  <1>1. RetrievalInv => RetrievalSafe
    BY SameRpc, SameResident, RpcAssumption, ResidentAssumption, Agent!RpcSafety,
       Agent!WindowSafety DEF RetrievalInv, RetrievalSafe
  <1> QED
    BY <1>1, RetrievalInvHolds, PTL

-----------------------------------------------------------------------------
\* The corrected session of the run and that of Agent are the same.
LEMMA SameCorrected ==
    /\ Corrected!SessionRunnerAssumption <=> Agent!Runner!SessionRunnerAssumption
    /\ Corrected!Init <=> Agent!Runner!Init
    /\ Corrected!Next <=> Agent!Runner!Next
    /\ Corrected!DeliveredKept <=> Agent!Runner!DeliveredKept
    /\ Corrected!NotesKept <=> Agent!Runner!NotesKept
    /\ Corrected!RefusalsRedone <=> Agent!Runner!RefusalsRedone
    /\ Corrected!StopHeeded <=> Agent!Runner!StopHeeded
    /\ Corrected!TypeOK <=> Agent!Runner!TypeOK
    /\ Corrected!NoneStale <=> Agent!Runner!NoneStale
PROOF
  <1>1. Corrected!SessionRunnerAssumption <=> Agent!Runner!SessionRunnerAssumption
    BY Zenon DEF Corrected!SessionRunnerAssumption, Agent!Runner!SessionRunnerAssumption
  <1>2. Corrected!Init <=> Agent!Runner!Init
    BY Zenon DEF Corrected!Init, Corrected!NoRedo, Agent!Runner!Init, Agent!Runner!NoRedo
  <1>3. Corrected!Next <=> Agent!Runner!Next
    BY Zenon DEF Corrected!Next, Corrected!GoesOn, Corrected!Turns, Corrected!Aborted,
                 Corrected!ToolsDone, Corrected!Stops, Corrected!Call, Corrected!Answer,
                 Corrected!EndTurn, Corrected!Continue, Corrected!CanContinue,
                 Corrected!RebuildEnds, Corrected!Rebuilt, Corrected!Rebuild,
                 Corrected!CancelRun, Corrected!Applied, Corrected!GiveUp, Corrected!ApplyRedo,
                 Corrected!Forked, Corrected!ForkKeeps, Corrected!NotesOf, Corrected!Ending,
                 Corrected!ContractRedo, Corrected!FailurePoint, Corrected!Refused,
                 Corrected!Advanced, Corrected!Verdict, Corrected!Passes, Corrected!Nudge,
                 Corrected!Report, Corrected!Ends, Corrected!WasAborted, Corrected!Cardinality,
                 Corrected!TerminallyValid, Corrected!Fail, Corrected!Failed, Corrected!LastIs,
                 Corrected!LastAssistant, Corrected!LastOf, Corrected!Max,
                 Corrected!FromAssistant, Corrected!Over, Corrected!TakeRedo, Corrected!Redo,
                 Corrected!TakesRedo, Corrected!Reads, Corrected!Settled, Corrected!Start,
                 Corrected!Issue, Corrected!TakeStep, Corrected!Request, Corrected!NoRedo,
                 Corrected!LatePending, Corrected!Stop, Corrected!lateVars, Corrected!Correct,
                 Corrected!Abort, Corrected!Steer, Corrected!Entry, Corrected!budgets,
                 Agent!Runner!Next, Agent!Runner!GoesOn, Agent!Runner!Turns,
                 Agent!Runner!Aborted, Agent!Runner!ToolsDone, Agent!Runner!Stops,
                 Agent!Runner!Call, Agent!Runner!Answer, Agent!Runner!EndTurn,
                 Agent!Runner!Continue, Agent!Runner!CanContinue, Agent!Runner!RebuildEnds,
                 Agent!Runner!Rebuilt, Agent!Runner!Rebuild, Agent!Runner!CancelRun,
                 Agent!Runner!Applied, Agent!Runner!GiveUp, Agent!Runner!ApplyRedo,
                 Agent!Runner!Forked, Agent!Runner!ForkKeeps, Agent!Runner!NotesOf,
                 Agent!Runner!Ending, Agent!Runner!ContractRedo, Agent!Runner!FailurePoint,
                 Agent!Runner!Refused, Agent!Runner!Advanced, Agent!Runner!Verdict,
                 Agent!Runner!Passes, Agent!Runner!Nudge, Agent!Runner!Report,
                 Agent!Runner!Ends, Agent!Runner!WasAborted, Agent!Runner!Cardinality,
                 Agent!Runner!TerminallyValid, Agent!Runner!Fail, Agent!Runner!Failed,
                 Agent!Runner!LastIs, Agent!Runner!LastAssistant, Agent!Runner!LastOf,
                 Agent!Runner!Max, Agent!Runner!FromAssistant, Agent!Runner!Over,
                 Agent!Runner!TakeRedo, Agent!Runner!Redo, Agent!Runner!TakesRedo,
                 Agent!Runner!Reads, Agent!Runner!Settled, Agent!Runner!Start,
                 Agent!Runner!Issue, Agent!Runner!TakeStep, Agent!Runner!Request,
                 Agent!Runner!NoRedo, Agent!Runner!LatePending, Agent!Runner!Stop,
                 Agent!Runner!lateVars, Agent!Runner!Correct, Agent!Runner!Abort,
                 Agent!Runner!Steer, Agent!Runner!Entry, Agent!Runner!budgets
  <1>4. Corrected!DeliveredKept <=> Agent!Runner!DeliveredKept
    BY Zenon DEF Corrected!DeliveredKept, Corrected!IdsOf, Agent!Runner!DeliveredKept,
                 Agent!Runner!IdsOf
  <1>5. Corrected!NotesKept <=> Agent!Runner!NotesKept
    BY Zenon DEF Corrected!NotesKept, Corrected!IdsOf, Agent!Runner!NotesKept,
                 Agent!Runner!IdsOf
  <1>6. Corrected!RefusalsRedone <=> Agent!Runner!RefusalsRedone
    BY Zenon DEF Corrected!RefusalsRedone, Agent!Runner!RefusalsRedone
  <1>7. Corrected!StopHeeded <=> Agent!Runner!StopHeeded
    BY Zenon DEF Corrected!StopHeeded, Agent!Runner!StopHeeded
  <1>8. Corrected!TypeOK <=> Agent!Runner!TypeOK
    BY Zenon DEF Corrected!TypeOK, Agent!Runner!TypeOK
  <1>9. Corrected!NoneStale <=> Agent!Runner!NoneStale
    BY Zenon DEF Corrected!NoneStale, Corrected!LatePending, Agent!Runner!NoneStale,
                 Agent!Runner!LatePending
  <1> QED
    BY <1>1, <1>2, <1>3, <1>4, <1>5, <1>6, <1>7, <1>8, <1>9

-----------------------------------------------------------------------------
\* The same with the session that is nudged.
NudgedAgent == INSTANCE AgentProofs WITH
    Callers <- {a, b1, b2, b3}, Classes <- <<"interactive", "background">>,
    ClassOf <- [c \in {a, b1, b2, b3} |-> IF c = a THEN "interactive" ELSE "background"],
    MaxInFlight <- 2, MinInterval <- 2,
    Replies <- {r1, r2}, Mentions <- {m1}, Bare <- {}, Media <- {m1},
    MaxResumes <- 1, MaxRevivals <- 1,
    Sends <- {s1, s2}, Notes <- {},
    MaxRetries <- 1, Tries <- 1, MaxRedos <- 0, MaxCorrections <- 0, MaxStops <- 1,
    MaxCalls <- 3,
    Blocks <- 1..3, Indexed <- {1}, WindowSize <- 2, Page <- 1, Load <- 1, MaxDeaths <- 2

\* The nudged session of the run and that of NudgedAgent are the same.
LEMMA SameNudged ==
    /\ Nudged!SessionRunnerAssumption <=> NudgedAgent!Runner!SessionRunnerAssumption
    /\ Nudged!Init <=> NudgedAgent!Runner!Init
    /\ Nudged!Next <=> NudgedAgent!Runner!Next
    /\ Nudged!DeliveredKept <=> NudgedAgent!Runner!DeliveredKept
    /\ Nudged!NotesKept <=> NudgedAgent!Runner!NotesKept
    /\ Nudged!RefusalsRedone <=> NudgedAgent!Runner!RefusalsRedone
    /\ Nudged!StopHeeded <=> NudgedAgent!Runner!StopHeeded
    /\ Nudged!TypeOK <=> NudgedAgent!Runner!TypeOK
    /\ Nudged!NoneStale <=> NudgedAgent!Runner!NoneStale
PROOF
  <1>1. Nudged!SessionRunnerAssumption <=> NudgedAgent!Runner!SessionRunnerAssumption
    BY Zenon DEF Nudged!SessionRunnerAssumption, NudgedAgent!Runner!SessionRunnerAssumption
  <1>2. Nudged!Init <=> NudgedAgent!Runner!Init
    BY Zenon DEF Nudged!Init, Nudged!NoRedo, NudgedAgent!Runner!Init, NudgedAgent!Runner!NoRedo
  <1>3. Nudged!Next <=> NudgedAgent!Runner!Next
    BY Zenon DEF Nudged!Next, Nudged!GoesOn, Nudged!Turns, Nudged!Aborted, Nudged!ToolsDone,
                 Nudged!Stops, Nudged!Call, Nudged!Answer, Nudged!EndTurn, Nudged!Continue,
                 Nudged!CanContinue, Nudged!RebuildEnds, Nudged!Rebuilt, Nudged!Rebuild,
                 Nudged!CancelRun, Nudged!Applied, Nudged!GiveUp, Nudged!ApplyRedo,
                 Nudged!Forked, Nudged!ForkKeeps, Nudged!NotesOf, Nudged!Ending,
                 Nudged!ContractRedo, Nudged!FailurePoint, Nudged!Refused, Nudged!Advanced,
                 Nudged!Verdict, Nudged!Passes, Nudged!Nudge, Nudged!Report, Nudged!Ends,
                 Nudged!WasAborted, Nudged!Cardinality, Nudged!TerminallyValid, Nudged!Fail,
                 Nudged!Failed, Nudged!LastIs, Nudged!LastAssistant, Nudged!LastOf, Nudged!Max,
                 Nudged!FromAssistant, Nudged!Over, Nudged!TakeRedo, Nudged!Redo,
                 Nudged!TakesRedo, Nudged!Reads, Nudged!Settled, Nudged!Start, Nudged!Issue,
                 Nudged!TakeStep, Nudged!Request, Nudged!NoRedo, Nudged!LatePending,
                 Nudged!Stop, Nudged!lateVars, Nudged!Correct, Nudged!Abort, Nudged!Steer,
                 Nudged!Entry, Nudged!budgets, NudgedAgent!Runner!Next,
                 NudgedAgent!Runner!GoesOn, NudgedAgent!Runner!Turns,
                 NudgedAgent!Runner!Aborted, NudgedAgent!Runner!ToolsDone,
                 NudgedAgent!Runner!Stops, NudgedAgent!Runner!Call, NudgedAgent!Runner!Answer,
                 NudgedAgent!Runner!EndTurn, NudgedAgent!Runner!Continue,
                 NudgedAgent!Runner!CanContinue, NudgedAgent!Runner!RebuildEnds,
                 NudgedAgent!Runner!Rebuilt, NudgedAgent!Runner!Rebuild,
                 NudgedAgent!Runner!CancelRun, NudgedAgent!Runner!Applied,
                 NudgedAgent!Runner!GiveUp, NudgedAgent!Runner!ApplyRedo,
                 NudgedAgent!Runner!Forked, NudgedAgent!Runner!ForkKeeps,
                 NudgedAgent!Runner!NotesOf, NudgedAgent!Runner!Ending,
                 NudgedAgent!Runner!ContractRedo, NudgedAgent!Runner!FailurePoint,
                 NudgedAgent!Runner!Refused, NudgedAgent!Runner!Advanced,
                 NudgedAgent!Runner!Verdict, NudgedAgent!Runner!Passes,
                 NudgedAgent!Runner!Nudge, NudgedAgent!Runner!Report, NudgedAgent!Runner!Ends,
                 NudgedAgent!Runner!WasAborted, NudgedAgent!Runner!Cardinality,
                 NudgedAgent!Runner!TerminallyValid, NudgedAgent!Runner!Fail,
                 NudgedAgent!Runner!Failed, NudgedAgent!Runner!LastIs,
                 NudgedAgent!Runner!LastAssistant, NudgedAgent!Runner!LastOf,
                 NudgedAgent!Runner!Max, NudgedAgent!Runner!FromAssistant,
                 NudgedAgent!Runner!Over, NudgedAgent!Runner!TakeRedo, NudgedAgent!Runner!Redo,
                 NudgedAgent!Runner!TakesRedo, NudgedAgent!Runner!Reads,
                 NudgedAgent!Runner!Settled, NudgedAgent!Runner!Start, NudgedAgent!Runner!Issue,
                 NudgedAgent!Runner!TakeStep, NudgedAgent!Runner!Request,
                 NudgedAgent!Runner!NoRedo, NudgedAgent!Runner!LatePending,
                 NudgedAgent!Runner!Stop, NudgedAgent!Runner!lateVars,
                 NudgedAgent!Runner!Correct, NudgedAgent!Runner!Abort, NudgedAgent!Runner!Steer,
                 NudgedAgent!Runner!Entry, NudgedAgent!Runner!budgets
  <1>4. Nudged!DeliveredKept <=> NudgedAgent!Runner!DeliveredKept
    BY Zenon DEF Nudged!DeliveredKept, Nudged!IdsOf, NudgedAgent!Runner!DeliveredKept,
                 NudgedAgent!Runner!IdsOf
  <1>5. Nudged!NotesKept <=> NudgedAgent!Runner!NotesKept
    BY Zenon DEF Nudged!NotesKept, Nudged!IdsOf, NudgedAgent!Runner!NotesKept,
                 NudgedAgent!Runner!IdsOf
  <1>6. Nudged!RefusalsRedone <=> NudgedAgent!Runner!RefusalsRedone
    BY Zenon DEF Nudged!RefusalsRedone, NudgedAgent!Runner!RefusalsRedone
  <1>7. Nudged!StopHeeded <=> NudgedAgent!Runner!StopHeeded
    BY Zenon DEF Nudged!StopHeeded, NudgedAgent!Runner!StopHeeded
  <1>8. Nudged!TypeOK <=> NudgedAgent!Runner!TypeOK
    BY Zenon DEF Nudged!TypeOK, NudgedAgent!Runner!TypeOK
  <1>9. Nudged!NoneStale <=> NudgedAgent!Runner!NoneStale
    BY Zenon DEF Nudged!NoneStale, Nudged!LatePending, NudgedAgent!Runner!NoneStale,
                 NudgedAgent!Runner!LatePending
  <1> QED
    BY <1>1, <1>2, <1>3, <1>4, <1>5, <1>6, <1>7, <1>8, <1>9

\* The two sessions begin alike, and what is promised of them does not mention the constants.
LEMMA RunsAlike ==
    /\ Corrected!Init <=> Nudged!Init
    /\ Corrected!DeliveredKept <=> Nudged!DeliveredKept
    /\ Corrected!NotesKept <=> Nudged!NotesKept
    /\ Corrected!RefusalsRedone <=> Nudged!RefusalsRedone
    /\ Corrected!StopHeeded <=> Nudged!StopHeeded
    /\ Corrected!NoneStale <=> Nudged!NoneStale
PROOF
  <1>1. Corrected!Init <=> Nudged!Init
    BY Zenon DEF Corrected!Init, Corrected!NoRedo, Nudged!Init, Nudged!NoRedo
  <1>2. Corrected!DeliveredKept <=> Nudged!DeliveredKept
    BY Zenon DEF Corrected!DeliveredKept, Corrected!IdsOf, Nudged!DeliveredKept, Nudged!IdsOf
  <1>3. Corrected!NotesKept <=> Nudged!NotesKept
    BY Zenon DEF Corrected!NotesKept, Corrected!IdsOf, Nudged!NotesKept, Nudged!IdsOf
  <1>4. Corrected!RefusalsRedone <=> Nudged!RefusalsRedone
    BY Zenon DEF Corrected!RefusalsRedone, Nudged!RefusalsRedone
  <1>5. Corrected!StopHeeded <=> Nudged!StopHeeded
    BY Zenon DEF Corrected!StopHeeded, Nudged!StopHeeded
  <1>6. Corrected!NoneStale <=> Nudged!NoneStale
    BY Zenon DEF Corrected!NoneStale, Corrected!LatePending, Nudged!NoneStale,
                 Nudged!LatePending
  <1> QED
    BY <1>1, <1>2, <1>3, <1>4, <1>5, <1>6

RunsInv ==
    /\ part = "corrected" => Agent!RunInv
    /\ part = "nudged" => NudgedAgent!RunInv

\* While the run of a session runs, its invariant holds.
THEOREM RunsInvHolds == Spec => []RunsInv
PROOF
  <1> USE DEF RunsInv
  <1>1. Init => RunsInv
    <2>1. Init => Corrected!Init
      BY DEF Init
    <2>2. Corrected!Init => Agent!RunInv
      BY SameCorrected, RunnerAssumption, Agent!RunInit
    <2>3. Nudged!Init => NudgedAgent!RunInv
      BY SameNudged, RunnerAssumption, NudgedAgent!RunInit
    <2> QED
      BY <2>1, <2>2, <2>3, RunsAlike
  <1>2. RunsInv /\ [Next]_vars => RunsInv'
    <2> SUFFICES ASSUME RunsInv, [Next]_vars PROVE RunsInv'
      OBVIOUS
    <2>1. CASE part = "corrected" /\ Corrected!Next /\ RunnerOnly
      BY <2>1, SameCorrected, RunnerAssumption, Agent!RunStep DEF RunnerOnly
    <2>2. CASE part = "nudged" /\ Nudged!Next /\ RunnerOnly
      BY <2>2, SameNudged, RunnerAssumption, NudgedAgent!RunStep DEF RunnerOnly
    <2>3. CASE part' = part /\ (part \notin {"corrected", "nudged"} \/ UNCHANGED runVars)
      <3>1. CASE UNCHANGED runVars
        <4>1. UNCHANGED Agent!Runner!vars
          BY <3>1 DEF runVars, Agent!Runner!vars, Agent!Runner!budgets, Agent!Runner!lateVars
        <4>2. UNCHANGED NudgedAgent!Runner!vars
          BY <3>1 DEF runVars, NudgedAgent!Runner!vars, NudgedAgent!Runner!budgets,
                      NudgedAgent!Runner!lateVars
        <4>3. Agent!RunInv => Agent!RunInv'
          BY <4>1, SameCorrected, RunnerAssumption, Agent!RunStep
        <4>4. NudgedAgent!RunInv => NudgedAgent!RunInv'
          BY <4>2, SameNudged, RunnerAssumption, NudgedAgent!RunStep
        <4> QED
          BY <2>3, <4>3, <4>4
      <3> QED
        BY <2>3, <3>1
    <2>4. CASE UNCHANGED vars
      BY <2>3, <2>4 DEF vars, runVars
    <2> QED
      BY <2>1, <2>2, <2>3, <2>4 DEF Next, PoolOnly, SummaryOnly, DiaryOnly, LimiterOnly,
         MessageOnly, BackfetchOnly, RpcOnly, ResidentOnly, FoldingOnly
  <1> QED
    BY <1>1, <1>2, PTL DEF Spec

\* Neither session's forks discard what was delivered or forget what was steered, no refused
\* output stands as its answer, and a Stop is heeded.
THEOREM RunsHonest == Spec => []RunSafe
PROOF
  <1>1. RunsInv => RunSafe
    <2>1. Agent!RunInv => RunSafe
      BY SameCorrected, RunnerAssumption, Agent!RunSafety DEF RunSafe, RunsInv
    <2>2. NudgedAgent!RunInv => RunSafe
      BY SameNudged, RunsAlike, RunnerAssumption, NudgedAgent!RunSafety DEF RunSafe, RunsInv
    <2> QED
      BY <2>1, <2>2 DEF RunSafe, RunsInv
  <1> QED
    BY <1>1, RunsInvHolds, PTL

-----------------------------------------------------------------------------
\* No step removes a placeholder before its edit was heard, or issues a request that a
\* correction has made stale.
THEOREM StepsTaken == Spec => StepsSound
PROOF
  <1>1. ASSUME EditsInv, Next, part = "edits" PROVE Message!PlaceholdersStand
    <2>1. Message!Next /\ Events!MessageInv
      BY <1>1 DEF EditsInv, Next
    <2> QED
      BY <2>1, SameMessage, Events!PlaceholderStays
  <1>2. ASSUME Next, part = "corrected" PROVE Corrected!NoneStale
    <2>1. Corrected!Next
      BY <1>2 DEF Next
    <2> QED
      BY <2>1, SameCorrected, Agent!IssuesLook
  <1>3. ASSUME Next, part = "nudged" PROVE Corrected!NoneStale
    <2>1. Nudged!Next
      BY <1>3 DEF Next
    <2> QED
      BY <2>1, SameNudged, RunsAlike, NudgedAgent!IssuesLook
  <1>4. EditsInv /\ [Next]_vars =>
          [/\ part = "edits" => Message!PlaceholdersStand
           /\ part \in {"corrected", "nudged"} => Corrected!NoneStale]_vars
    BY <1>1, <1>2, <1>3
  <1> QED
    BY <1>4, EditsInvHolds, PTL DEF Spec, StepsSound

\* Each component keeps its types: what every state TLC visits is made of, whichever part runs.
THEOREM TypesKeep == Spec => []TypeOK
PROOF
  <1>1. part \in {"enrichment", "captioning"} /\ PoolsInv => Captioning!TypeOK
    <2>1. part = "enrichment" /\ PoolsInv => Enrichment!TypeOK
      BY SameTypes DEF PoolsInv, Events!PoolInv
    <2>2. Enrichment!TypeOK => Captioning!TypeOK
      BY DEF Enrichment!TypeOK, Captioning!TypeOK
    <2>3. part = "captioning" /\ PoolsInv => Captioning!TypeOK
      BY SameTypes DEF PoolsInv, Assets!PoolInv
    <2> QED
      BY <2>1, <2>2, <2>3
  <1>2. part = "summarization" /\ SummariesInv => Summary!TypeOK
    BY SameTypes DEF SummariesInv, Events!SummaryInv
  <1>3. /\ part = "diary" /\ DiaryInv => Diary!TypeOK
        /\ part = "memory" /\ DiaryInv => Memory!TypeOK
    BY SameTypes DEF DiaryInv, Events!DiaryInv, Assets!DiaryInv
  <1>4. part = "limiter" /\ PacingInv => Limiter!TypeOK
    BY SameLimiter DEF PacingInv, Agent!LimiterInv
  <1>5. part = "edits" /\ EditsInv => Message!TypeOK
    BY SameTypes DEF EditsInv, Events!MessageInv
  <1>6. part = "backfetch" /\ BackfetchInv => Backfetch!TypeOK
    BY SameTypes DEF BackfetchInv, Events!FetchInv
  <1>7. /\ part = "rpc" /\ RetrievalInv => Rpc!TypeOK
        /\ part = "window" /\ RetrievalInv => Resident!TypeOK
    BY SameRpc, SameResident, RpcAssumption, ResidentAssumption, Agent!RpcSafety,
       Agent!WindowSafety DEF RetrievalInv
  <1>8. part = "folding" /\ FollowUpsInv => Folding!TypeOK
    BY SameFolding DEF FollowUpsInv, Agent!FoldInv
  <1>9. /\ part = "corrected" /\ RunsInv => Corrected!TypeOK
        /\ part = "nudged" /\ RunsInv => Nudged!TypeOK
    BY SameCorrected, SameNudged, RunnerAssumption, Agent!RunSafety, NudgedAgent!RunSafety
       DEF RunsInv
  <1>10. /\ PoolsInv /\ SummariesInv /\ DiaryInv /\ PacingInv /\ EditsInv
         /\ BackfetchInv /\ RetrievalInv /\ FollowUpsInv /\ RunsInv
         => TypeOK
    BY <1>1, <1>2, <1>3, <1>4, <1>5, <1>6, <1>7, <1>8, <1>9 DEF TypeOK
  <1> QED
    BY <1>10, PoolsInvHolds, SummariesInvHolds, DiaryInvHolds, PacingInvHolds, EditsInvHolds,
       BackfetchInvHolds, RetrievalInvHolds, FollowUpsInvHolds, RunsInvHolds, PTL
=============================================================================
