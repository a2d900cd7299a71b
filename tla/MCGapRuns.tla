----------------------------- MODULE MCGapRuns ------------------------------
(***************************************************************************)
(* Two instances of GapBackfetch in one run.  A behaviour belongs to one   *)
(* of them for good:                                                       *)
(*   restarts    the constants of the configuration: crashes, shutdowns    *)
(*               and what the operator and the users do;                   *)
(*   faults      every event, a rejected read or write and the expiry of a *)
(*               parked deletion included, over a shorter history.         *)
(***************************************************************************)
EXTENDS MCGapBackfetch

VARIABLE instance

FaultEvents == {"crash", "drain", "erase", "unrecorded_cap", "release", "read_error",
                "write_error", "send", "lapse"}

Faulty == INSTANCE GapBackfetch WITH
    MaxMessages <- 3, Events <- FaultEvents

RunsInit ==
    \/ instance = "restarts" /\ Init
    \/ instance = "faults" /\ Faulty!Init

RunsNext ==
    /\ UNCHANGED instance
    /\ \/ instance = "restarts" /\ Next
       \/ instance = "faults" /\ Faulty!Next

runsVars == <<instance, vars>>

\* Only what the faults instance promises needs the fairness.
RunsSpec == RunsInit /\ [][RunsNext]_runsVars /\ Faulty!Fairness

-----------------------------------------------------------------------------
(***************************************************************************)
(* The properties of GapBackfetch that do not hold, or are not claimed, in *)
(* both instances.  After a rejected read or write a gap may be buried:    *)
(* see the run gap_failed_read.                                            *)
(***************************************************************************)
\* No gap is buried by crashes, shutdowns, caps and releases.
GapsStayOpen == instance = "restarts" => NoBuriedGap

\* The stored history is only ever extended at its end, whatever restarts it goes through.
HistoryKept ==
    /\ \A u \in Units : History(u)!Init
    /\ [][\A u \in Units : instance = "restarts" =>
            [History(u)!Next]_<<posted[u], stored[u], Excused(u)>>]_runsVars

\* No step moves the high-water of a frozen unit, or handles a live message before an
\* earlier one.
StepsSound == [][instance = "restarts" => HighWaterFrozen /\ HandledInOrder]_runsVars

\* With every fault, each unit leaves its freeze and each live message is handled.
EverythingSettles == []<>(instance = "faults" => Faulty!UnitsSettled)
=============================================================================
