----------------------------- MODULE LateWindow -----------------------------
(***************************************************************************)
(* The resident window of one agent (src/retrieval/late): the newest       *)
(* blocks that have vectors, kept loaded in the worker process of the      *)
(* exact scorer.  LateStage keeps the record of what is loaded, updates it *)
(* in the background, and leaves the window's members out of what a query  *)
(* reads itself; ExactMaxSimScorer respawns a worker that died.            *)
(*                                                                         *)
(* A block is its position: a larger one is newer.  The scan and the exact *)
(* scorer are the same worker here (no quantised scan).  A call into the   *)
(* worker is one step from "sent" to its reply (how it settles is module   *)
(* WorkerRpc); the recency list is left out of the key.                    *)
(***************************************************************************)
EXTENDS Naturals, FiniteSets

CONSTANTS
    Blocks,         \* blocks that are stored sooner or later
    Indexed,        \* those with vectors at the start
    WindowSize,     \* exhaustive_blocks
    Page,           \* rows read at once from the index
    Load,           \* blocks sent to the worker at once
    MaxDeaths       \* bound: deaths of the worker

LateWindowAssumption ==
    /\ Blocks \subseteq Nat /\ IsFiniteSet(Blocks) /\ Indexed \subseteq Blocks
    /\ WindowSize \in Nat \ {0} /\ Page \in Nat \ {0} /\ Load \in Nat \ {0} /\ MaxDeaths \in Nat

None == [key |-> 0, members |-> {}, torn |-> FALSE]  \* no window was built yet

VARIABLES
    stored,         \* blocks with vectors in the index
    unbumped,       \* some were stored for which the version has not been raised yet
    version,        \* LateIndexWorker.version, from 1
    window,         \* `windows`: the key and the members of the last update that got there
    resident,       \* the scorer takes the window to be loaded
    loaded,         \* what the worker's window holds
    alive,          \* the scorer has a live worker
    timer,          \* an update is requested
    rerun,          \* ... while one was running
    at,             \* where the running update stands, or "idle"
    key, members, base, todo,   \* its locals
    had,            \* its scanHas
    torn,           \* history: the worker has died since, unnoticed by this update
    failed,         \* history: the last update failed
    deaths

vars == <<stored, unbumped, version, window, resident, loaded, alive, timer, rerun, at,
          key, members, base, todo, had, torn, failed, deaths>>
indexVars == <<stored, unbumped, version>>
workerVars == <<resident, loaded, alive, deaths>>
locals == <<key, members, base, todo, had, torn>>

\* The newest n of a set.
Newest(S, n) == {b \in S : Cardinality({c \in S : c > b}) < n}

-----------------------------------------------------------------------------
(***************************************************************************)
(* The index: vectors are written, then the version is raised and every    *)
(* window's update requested.                                              *)
(***************************************************************************)
Store(b) ==
    /\ b \notin stored
    /\ stored' = stored \cup {b} /\ unbumped' = TRUE
    /\ UNCHANGED <<version, window, workerVars, timer, rerun, at, locals, failed>>

Bump ==
    /\ unbumped
    /\ unbumped' = FALSE /\ version' = version + 1
    /\ timer' = TRUE
    /\ UNCHANGED <<stored, window, workerVars, rerun, at, locals, failed>>

\* A query requests an update as well, and respawns a dead worker if it has to score.
Query ==
    /\ \/ ~timer /\ timer' = TRUE /\ UNCHANGED alive
       \/ ~alive /\ alive' = TRUE /\ UNCHANGED timer
    /\ UNCHANGED <<indexVars, window, resident, loaded, deaths, rerun, at, locals, failed>>

-----------------------------------------------------------------------------
(***************************************************************************)
(* An update.                                                              *)
(***************************************************************************)
\* The update ends; one requested meanwhile begins.
Ends(failing) ==
    /\ at' = IF rerun THEN "recency" ELSE "idle"
    /\ rerun' = FALSE /\ failed' = failing

\* Mutant: a request during an update is taken for the running one.
TimerFires_Dropped ==
    /\ timer /\ timer' = FALSE
    /\ at' = IF at = "idle" THEN "recency" ELSE at
    /\ UNCHANGED <<indexVars, window, workerVars, rerun, locals, failed>>

\* refreshWindow: one update at a time.
TimerFires ==
    /\ timer /\ timer' = FALSE
    /\ at' = IF at = "idle" THEN "recency" ELSE at
    /\ rerun' = (rerun \/ at # "idle")
    /\ UNCHANGED <<indexVars, window, workerVars, locals, failed>>

\* A window loaded after its worker died, from a record of what the dead one held.
WindowTorn(h, t) == t \/ (h /\ window.torn)

\* Mutant: the record gets the key of the time it is set.
Commit_KeyAtEnd(k, ms, bs, t) ==
    /\ window' = [key |-> version, members |-> ms, torn |-> t]
    /\ IF bs \ ms # {} /\ resident'
       THEN at' = "removing" /\ UNCHANGED <<rerun, failed>>
       ELSE Ends(FALSE)

\* All is loaded: the record is set, then what left the window is removed.
Commit(k, ms, bs, t) ==
    /\ window' = [key |-> k, members |-> ms, torn |-> t]
    /\ IF bs \ ms # {} /\ resident'
       THEN at' = "removing" /\ UNCHANGED <<rerun, failed>>
       ELSE Ends(FALSE)

\* Mutant: a rebuild also starts from what the record says is loaded.
StartsFrom_Record(h) == window.members

\* What is taken to be loaded when the rows are known: the record, if the scorer had it.
StartsFrom(h) == IF h THEN window.members ELSE {}

\* One page of rows, newest first, below those already read; after the last one the
\* difference is taken.
TakePage(k, before, h, t) ==
    LET older == {b \in stored : \A c \in before : b < c}
        got == Newest(older, Page)
        all == Newest(before \cup got, WindowSize)
        last == Cardinality(all) = WindowSize \/ Cardinality(got) < Page
    IN  /\ key' = k /\ members' = all /\ had' = h /\ torn' = t
        /\ base' = IF last THEN StartsFrom(h) ELSE {}
        /\ todo' = IF last THEN all \ base' ELSE {}
        /\ IF last /\ resident /\ todo' = {}
           THEN Commit(k, all, base', WindowTorn(h, t))
           ELSE /\ at' = IF ~last THEN "rows" ELSE IF resident THEN "adding" ELSE "opening"
                /\ UNCHANGED <<window, rerun, failed>>

\* The recency list is there: the key is fixed, a window with that key is left alone, and
\* otherwise the first page is read.
Look ==
    /\ at = "recency"
    /\ IF window.key = version /\ resident
       THEN Ends(FALSE) /\ UNCHANGED <<window, locals>>
       ELSE TakePage(version, {}, resident, FALSE)
    /\ UNCHANGED <<indexVars, workerVars, timer>>

ReadPage ==
    /\ at = "rows"
    /\ TakePage(key, members, had, torn)
    /\ UNCHANGED <<indexVars, workerVars, timer>>

\* addToWindow: a dead worker is respawned, or is still backing off.
Spawns == ~alive /\ at \in {"opening", "yield"}

SendRefused ==
    /\ Spawns
    /\ Ends(TRUE)
    /\ UNCHANGED <<indexVars, window, workerVars, timer, locals>>

Respawned ==
    /\ Spawns
    /\ alive' = TRUE
    /\ at' = "opening"
    /\ UNCHANGED <<indexVars, window, resident, loaded, deaths, timer, rerun, locals, failed>>

\* After a batch and a yield to the event loop, the next one is sent.
NextBatch ==
    /\ at = "yield" /\ alive
    /\ at' = IF resident THEN "adding" ELSE "opening"
    /\ UNCHANGED <<indexVars, window, workerVars, timer, rerun, locals, failed>>

\* An empty window is opened in the worker.
Opened ==
    /\ at = "opening" /\ alive
    /\ resident' = TRUE
    /\ IF todo = {} THEN Commit(key, members, base, WindowTorn(had, torn))
       ELSE at' = "adding" /\ UNCHANGED <<window, rerun, failed>>
    /\ UNCHANGED <<indexVars, loaded, alive, deaths, timer, locals>>

Added ==
    /\ at = "adding"
    /\ LET batch == Newest(todo, Load)
       IN  /\ loaded' = loaded \cup batch
           /\ todo' = todo \ batch
    /\ UNCHANGED resident
    /\ IF todo' = {} THEN Commit(key, members, base, WindowTorn(had, torn))
       ELSE at' = "yield" /\ UNCHANGED <<window, rerun, failed>>
    /\ UNCHANGED <<indexVars, alive, deaths, timer, key, members, base, had, torn>>

Removed ==
    /\ at = "removing"
    /\ loaded' = loaded \ (base \ members)
    /\ Ends(FALSE)
    /\ UNCHANGED <<indexVars, window, resident, alive, deaths, timer, locals>>

\* Mutant: the windows of a dead worker are remembered.
WorkerDies_Remembered ==
    /\ alive /\ deaths < MaxDeaths
    /\ alive' = FALSE /\ loaded' = {} /\ deaths' = deaths + 1
    /\ IF at \in {"adding", "removing"} \/ (at = "opening" /\ todo # {})
       THEN Ends(TRUE)
       ELSE UNCHANGED <<at, rerun, failed>>
    /\ torn' = (torn \/ at = "yield" \/ (at = "rows" /\ had))
    /\ UNCHANGED <<indexVars, window, resident, timer, key, members, base, todo, had>>

\* The worker dies: its windows are gone, and a call in flight rejects.
WorkerDies ==
    /\ alive /\ deaths < MaxDeaths
    /\ alive' = FALSE /\ resident' = FALSE /\ loaded' = {} /\ deaths' = deaths + 1
    /\ IF at \in {"opening", "adding", "removing"}
       THEN Ends(TRUE)
       ELSE UNCHANGED <<at, rerun, failed>>
    /\ torn' = (torn \/ at = "yield" \/ (at = "rows" /\ had))
    /\ UNCHANGED <<indexVars, window, timer, key, members, base, todo, had>>

-----------------------------------------------------------------------------
Init ==
    /\ stored = Indexed /\ unbumped = FALSE /\ version = 1
    /\ window = None /\ resident = FALSE /\ loaded = {} /\ alive = TRUE
    /\ timer = FALSE /\ rerun = FALSE /\ at = "recency"
    /\ key = 0 /\ members = {} /\ base = {} /\ todo = {} /\ had = FALSE
    /\ torn = FALSE /\ failed = FALSE /\ deaths = 0

Next ==
    \/ \E b \in Blocks : Store(b)
    \/ Bump
    \/ Query
    \/ TimerFires
    \/ Look
    \/ ReadPage
    \/ SendRefused
    \/ Respawned
    \/ NextBatch
    \/ Opened
    \/ Added
    \/ Removed
    \/ WorkerDies

Spec == Init /\ [][Next]_vars

-----------------------------------------------------------------------------
TypeOK ==
    /\ stored \subseteq Blocks /\ loaded \subseteq Blocks
    /\ version \in 1..(1 + Cardinality(Blocks))
    /\ window.key \in 0..version /\ window.members \subseteq Blocks
    /\ at \in {"idle", "recency", "rows", "opening", "yield", "adding", "removing"}
    /\ members \subseteq Blocks /\ base \subseteq Blocks /\ todo \subseteq members
    /\ (resident => alive) /\ (rerun => at # "idle")

\* Blocks a query takes from the window although the window has not got them: they are
\* scored by nobody.
Hidden == IF resident THEN window.members \ loaded ELSE {}

\* An update that fills a new window under the old record, or that lost its worker unnoticed.
Filling == at \notin {"idle", "recency"} /\ (~had \/ torn)

\* No query misses a block: additions are loaded before the record names them, removals
\* come off the record first, and a window that is lost is not used.  Excepted are a
\* rebuild under way and a window whose worker died unnoticed between two steps of its
\* update: the rest is loaded into a new worker and the whole recorded as loaded.
WindowWhole == ~Filling /\ ~window.torn => Hidden = {}

\* A window whose key is current has the newest blocks: the key is taken before the rows
\* are read, and raised after they are written.
KeyHonest == window.key = version /\ ~unbumped => window.members = Newest(stored, WindowSize)

\* No request for an update is forgotten, also one that comes while another runs.
RequestsServed == at = "idle" /\ ~timer /\ ~failed => window.key = version
=============================================================================
