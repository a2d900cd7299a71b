---------------------------- MODULE MessageEdits ----------------------------
(***************************************************************************)
(* One stored message, its edits, and the sweep that decrypts what arrived *)
(* before its key (src/timeline/store.ts, src/redecryption/index.ts, and   *)
(* the edit and undecryptable-row statements of src/storage/database.ts).  *)
(*                                                                         *)
(* The message is event 0; its edits are 1..Edits in the order of their    *)
(* timestamps, and an edit's number is the version of the body it carries. *)
(* Any event may arrive at any time and again and again: live, from the    *)
(* gap backfetch, the initial backfill and a deep backfetch.  An event     *)
(* whose key is missing is stored as an undecryptable row of its own.      *)
(* Deletions, threads and enrichment states are left out.                  *)
(***************************************************************************)
EXTENDS Naturals, FiniteSetsExt

CONSTANTS
    Edits,          \* number of edits
    MaxAttempts,    \* MAX_REDECRYPT_ATTEMPTS
    BatchSize,      \* rows probed in a tick
    Window,         \* rows a tick looks at (four batches in the code)
    MaxRestarts     \* bound

Events == 0..Edits

MessageEditsAssumption ==
    /\ Edits \in Nat
    /\ {MaxAttempts, BatchSize, Window} \subseteq Nat \ {0}
    /\ MaxRestarts \in Nat

VARIABLES
    key,            \* events whose megolm key is known
    renderable,     \* the message is one: not a sticker, a poll, a reaction
    row,            \* what is stored under each event's id
    shown,          \* the version in the body of row 0
    last,           \* its last_edit_timestamp, 0 for null
    parked,         \* the version in pending_edits, 0 for none
    attempts,       \* redecrypt_attempts
    backoff,        \* the sweeper's map: none, waiting, due
    todo,           \* the rows this tick has yet to probe, the oldest first
    applied,        \* the edit probed was applied, its placeholder stands
    restarts,
    heard,          \* history: edits whose content was applied or parked
    blind           \* history: an edit was put on the undecryptable message

storeVars == <<row, shown, last, parked>>
sweepVars == <<backoff, todo, applied>>
historyVars == <<heard, blind>>
vars == <<key, renderable, storeVars, attempts, sweepVars, restarts, historyVars>>

-----------------------------------------------------------------------------

KeyArrives(e) ==
    /\ e \notin key
    /\ key' = key \cup {e}
    /\ UNCHANGED <<renderable, storeVars, attempts, sweepVars, restarts, historyVars>>

\* Mutant: a parked edit is replaced by whichever comes later.
Parking_LastComes(e) == e

\* applyEditToTarget: the upsert of pending_edits
Parking(e) == Max({parked, e})

\* Mutant: the last arrival wins.
IsStale_Never(e) == FALSE

\* applyEditToTarget: a newer edit has been applied already
IsStale(e) == e < last

\* applyEditToTarget: one write, from every path.  The row is not asked whether it is
\* undecryptable.
ApplyEdit(e) ==
    /\ heard' = heard \cup {e}
    /\ \/ /\ row[0] = "absent"
          /\ parked' = Parking(e)
          /\ UNCHANGED <<shown, last, blind>>
       \/ /\ row[0] # "absent" /\ IsStale(e)
          /\ UNCHANGED <<shown, last, parked, blind>>
       \/ /\ row[0] # "absent" /\ ~IsStale(e)
          /\ shown' = e /\ last' = e
          /\ blind' = (row[0] = "utd")
          /\ UNCHANGED parked

\* Mutant: the edit that waited for the message is not looked up.
Append_NoReplay(kind) ==
    /\ row' = [row EXCEPT ![0] = kind]
    /\ shown' = 0
    /\ UNCHANGED <<last, parked, blind>>

\* appendIfMissing of the message: a parked edit is replayed in the same write.
Append0(kind) ==
    /\ row' = [row EXCEPT ![0] = kind]
    /\ shown' = parked /\ last' = parked
    /\ parked' = 0
    /\ blind' = (kind = "utd" /\ parked > 0)

\* The message is delivered; a duplicate changes nothing, not even an undecryptable row.
ArriveMessage ==
    /\ row[0] = "absent"
    /\ \/ 0 \in key /\ renderable /\ Append0("message")
       \/ 0 \notin key /\ Append0("utd")
    /\ UNCHANGED <<key, renderable, attempts, sweepVars, restarts, heard>>

\* An edit is delivered: applied, or stored like any event that cannot be read.
ArriveEdit(e) ==
    /\ \/ /\ e \in key
          /\ ApplyEdit(e)
          /\ UNCHANGED row
       \/ /\ e \notin key /\ row[e] = "absent"
          /\ row' = [row EXCEPT ![e] = "utd"]
          /\ UNCHANGED <<shown, last, parked, heard, blind>>
    /\ UNCHANGED <<key, renderable, attempts, sweepVars, restarts>>

-----------------------------------------------------------------------------
(***************************************************************************)
(* The sweeper.                                                            *)
(***************************************************************************)

Oldest(S, n) == {e \in S : Cardinality({f \in S : f < e}) < n}

\* getUndecryptedEvents: the oldest, without those given up
Rotation == Oldest({e \in Events : row[e] = "utd" /\ attempts[e] < MaxAttempts}, Window)

IsDue(e) == backoff[e] = "due" \/ (backoff[e] = "none" /\ attempts[e] = 0)

\* tick: prune the map to the rotation, take what is due
Tick ==
    /\ todo = {}
    /\ todo' = Oldest({e \in Rotation : IsDue(e)}, BatchSize)
    /\ backoff' = [e \in Events |->
            IF e \notin Rotation THEN "none"
            ELSE IF ~IsDue(e) THEN "waiting"
            ELSE backoff[e]]
    /\ UNCHANGED <<key, renderable, storeVars, attempts, applied, restarts, historyVars>>

BackoffElapses(e) ==
    /\ backoff[e] = "waiting"
    /\ backoff' = [backoff EXCEPT ![e] = "due"]
    /\ UNCHANGED <<key, renderable, storeVars, attempts, todo, applied, restarts, historyVars>>

IsNext(e) == e \in todo /\ \A f \in todo : e <= f

Probed(e) == IsNext(e) /\ ~applied

\* Mutant: a failed probe is not written down.
Counted_InMemory(e) == attempts

\* recordRedecryptFailure
Counted(e) == [attempts EXCEPT ![e] = @ + 1]

\* The event could not be fetched, or its key is still missing.
ProbeFails(e) ==
    /\ Probed(e)
    /\ attempts' = Counted(e)
    /\ backoff' = [backoff EXCEPT ![e] = "waiting"]
    /\ todo' = todo \ {e}
    /\ UNCHANGED <<key, renderable, storeVars, applied, restarts, historyVars>>

\* replaceUndecryptedEvent with the message as it was sent, or deleteUndecryptedEvent
ProbeDecrypts ==
    /\ Probed(0) /\ 0 \in key
    /\ IF renderable
       THEN row' = [row EXCEPT ![0] = "message"] /\ shown' = 0
       ELSE row' = [row EXCEPT ![0] = "absent"] /\ UNCHANGED shown
    /\ backoff' = [backoff EXCEPT ![0] = "none"]
    /\ todo' = todo \ {0}
    /\ UNCHANGED <<key, renderable, last, parked, attempts, applied, restarts, historyVars>>

\* Mutant: the placeholder is deleted before the edit is applied.
ProbeFindsEdit_DeletesFirst(e) ==
    /\ Probed(e) /\ e > 0 /\ e \in key
    /\ row' = [row EXCEPT ![e] = "absent"]
    /\ applied' = TRUE
    /\ UNCHANGED <<shown, last, parked, heard, blind>>
    /\ UNCHANGED <<key, renderable, attempts, backoff, todo, restarts>>

\* applyDecryptedEdit: its first write
ProbeFindsEdit(e) ==
    /\ Probed(e) /\ e > 0 /\ e \in key
    /\ ApplyEdit(e)
    /\ applied' = TRUE
    /\ UNCHANGED <<key, renderable, row, attempts, backoff, todo, restarts>>

\* applyDecryptedEdit: its second, the placeholder goes
PlaceholderGoes(e) ==
    /\ IsNext(e) /\ applied
    /\ row' = [row EXCEPT ![e] = "absent"]
    /\ backoff' = [backoff EXCEPT ![e] = "none"]
    /\ todo' = todo \ {e}
    /\ applied' = FALSE
    /\ UNCHANGED <<key, renderable, shown, last, parked, attempts, restarts, historyVars>>

\* The process is restarted, wherever it was.
Restart ==
    /\ restarts < MaxRestarts
    /\ restarts' = restarts + 1
    /\ backoff' = [e \in Events |-> "none"]
    /\ todo' = {} /\ applied' = FALSE
    /\ UNCHANGED <<key, renderable, storeVars, attempts, historyVars>>

-----------------------------------------------------------------------------

Init ==
    /\ key = {}
    /\ renderable \in BOOLEAN
    /\ row = [e \in Events |-> "absent"]
    /\ shown = 0 /\ last = 0 /\ parked = 0
    /\ attempts = [e \in Events |-> 0]
    /\ backoff = [e \in Events |-> "none"]
    /\ todo = {} /\ applied = FALSE
    /\ restarts = 0
    /\ heard = {} /\ blind = FALSE

Sweeps == Tick \/ ProbeDecrypts
          \/ \E e \in Events : ProbeFails(e) \/ ProbeFindsEdit(e) \/ PlaceholderGoes(e)

Next ==
    \/ \E e \in Events : KeyArrives(e) \/ BackoffElapses(e)
    \/ ArriveMessage \/ \E e \in Events \ {0} : ArriveEdit(e)
    \/ Sweeps
    \/ Restart

\* The timer of the sweep fires, a fetch is answered or fails, time passes.
Fairness == WF_vars(Sweeps) /\ \A e \in Events : WF_vars(BackoffElapses(e))

Spec == Init /\ [][Next]_vars /\ Fairness

(***************************************************************************)
(* Properties.                                                             *)
(***************************************************************************)
TypeOK ==
    /\ key \in SUBSET Events /\ renderable \in BOOLEAN
    /\ row \in [Events -> {"absent", "utd", "message"}]
    /\ {shown, last, parked} \subseteq Events
    /\ attempts \in [Events -> 0..MaxAttempts]
    /\ backoff \in [Events -> {"none", "waiting", "due"}]
    /\ todo \in SUBSET Events /\ applied \in BOOLEAN
    /\ restarts \in 0..MaxRestarts
    /\ heard \in SUBSET Events /\ blind \in BOOLEAN

\* In whatever order a message and its edits arrive, by whatever paths and how often, the
\* message shows the newest edit heard of, and one that is not stored yet has it parked;
\* unless an edit was put on the message while that could not be decrypted, which the
\* decrypted original then replaces.
ShowsNewest ==
    /\ row[0] = "message" /\ ~blind => shown = Max(heard \cup {0})
    /\ row[0] = "absent" /\ renderable => parked = Max(heard \cup {0})

\* (Of a step.)  The placeholder of an edit does not go before what it stands for was heard:
\* the process may be restarted between its two writes.
PlaceholdersStand ==
    \A e \in Events \ {0} : row[e] = "utd" /\ row'[e] = "absent" => e \in heard

\* (Again and again.)  Everything undecryptable has been decrypted, has gone or is given up: old
\* rows that never decrypt do not keep the sweeper from the newer ones.
RowsSettled == \A e \in Events : row[e] = "utd" => attempts[e] >= MaxAttempts
=============================================================================
