----------------------------- MODULE McpEngine -----------------------------
(***************************************************************************)
(* The engine slot of the MCP server (server.rs: ensure_engine,            *)
(* with_engine, status; engine.rs: the poison-recovering locks): a mutex   *)
(* over an optional engine that tool calls, watcher jobs and status share, *)
(* a second mutex that makes construction single-flight, and the flag      *)
(* catalog_ready.  Every step between two lock operations is its own       *)
(* action; a holder can panic.                                             *)
(***************************************************************************)
EXTENDS Integers, FiniteSets

CONSTANTS
    Tools,          \* threads that run data-plane tool calls
    Jobs,           \* watcher jobs
    MaxEngineCalls, \* bound: calls of one thread
    MaxEngines      \* bound: engines built

VARIABLES
    slot,       \* Mutex<Option<Engine>>: engine, holder, poison; and catalog_ready
    initLock,   \* engine_initialization
    caller,     \* per thread: where it is, the engine it built, calls left
    built       \* engines built, and those whose catalog was made ready

engineVars == <<slot, initLock, caller, built>>

Status == "status"
Threads == Tools \cup Jobs \cup {Status}
NoEngine == 0

EngineInit ==
    /\ slot = [engine |-> NoEngine, holder |-> "none", poisoned |-> FALSE, ready |-> FALSE]
    /\ initLock = "none"
    /\ caller = [t \in Threads |-> [at |-> "idle", mine |-> NoEngine, left |-> MaxEngineCalls]]
    /\ built = [count |-> 0, booted |-> {}]

At(t, pc) == caller[t].at = pc
Goto(t, pc) == caller' = [caller EXCEPT ![t].at = pc]
Holds(t) == slot.holder = t

\* recover_poisoned_engine: the engine is dropped, the flag cleared
Recovered == IF slot.poisoned THEN [slot EXCEPT !.engine = NoEngine, !.poisoned = FALSE] ELSE slot

\* lock_engine_recovering_poison, and try_lock_engine_recovering_poison once the lock is free
LockedBy(t) == [Recovered EXCEPT !.holder = t]
CanLock == slot.holder = "none"
Unlocked == [slot EXCEPT !.holder = "none"]

-----------------------------------------------------------------------------
(* ensure_engine                                                           *)

BeginCall(t) ==
    /\ At(t, "idle") /\ caller[t].left > 0
    /\ caller' = [caller EXCEPT ![t].at = "ensure", ![t].left = @ - 1]
    /\ UNCHANGED <<slot, initLock, built>>

\* Mutant: the engine lock is still held when the single-flight lock is taken.
EnsureKeepsLock(t) ==
    /\ At(t, "ensure") /\ CanLock
    /\ slot' = LockedBy(t)
    /\ Goto(t, IF Recovered.engine # NoEngine THEN "run" ELSE "single_flight")
    /\ UNCHANGED <<initLock, built>>

\* The fast path: the lock is kept when there is an engine
EnsureFast(t) ==
    /\ At(t, "ensure") /\ CanLock
    /\ IF Recovered.engine # NoEngine
       THEN slot' = LockedBy(t) /\ Goto(t, "run")
       ELSE slot' = Recovered /\ Goto(t, "single_flight")
    /\ UNCHANGED <<initLock, built>>

TakeInitLock(t) ==
    /\ At(t, "single_flight") /\ initLock = "none"
    /\ initLock' = t /\ Goto(t, "recheck")
    /\ UNCHANGED <<slot, built>>

\* Mutant: no second look at the slot once the single-flight lock is held.
NoRecheck(t) ==
    /\ At(t, "recheck") /\ CanLock
    /\ slot' = Recovered /\ Goto(t, "build")
    /\ UNCHANGED <<initLock, built>>

\* A competing initializer may have been faster
Recheck(t) ==
    /\ At(t, "recheck") /\ CanLock
    /\ IF Recovered.engine # NoEngine
       THEN slot' = LockedBy(t) /\ initLock' = "none" /\ Goto(t, "run")
       ELSE slot' = Recovered /\ Goto(t, "build") /\ UNCHANGED initLock
    /\ UNCHANGED built

\* Engine::new and replay_all, outside the engine lock
Build(t) ==
    /\ At(t, "build") /\ built.count < MaxEngines
    /\ built' = [built EXCEPT !.count = @ + 1]
    /\ caller' = [caller EXCEPT ![t].at = "publish", ![t].mine = built.count + 1]
    /\ UNCHANGED <<slot, initLock>>

\* Construction fails or panics; the single-flight lock is free again either way
BuildFails(t) ==
    /\ At(t, "build")
    /\ initLock' = "none" /\ Goto(t, "idle")
    /\ UNCHANGED <<slot, built>>

\* Mutant: the new engine keeps the catalog_ready of the one before it.
PublishKeepsReady(t) ==
    /\ At(t, "publish") /\ CanLock
    /\ slot' = [LockedBy(t) EXCEPT !.engine = caller[t].mine]
    /\ initLock' = "none" /\ Goto(t, "run")
    /\ UNCHANGED built

Publish(t) ==
    /\ At(t, "publish") /\ CanLock
    /\ slot' = [LockedBy(t) EXCEPT !.engine = caller[t].mine, !.ready = FALSE]
    /\ initLock' = "none" /\ Goto(t, "run")
    /\ UNCHANGED built

-----------------------------------------------------------------------------
(* with_engine                                                             *)

\* ensure_catalog_ready
BootCatalog(t) ==
    /\ At(t, "run")
    /\ slot' = [slot EXCEPT !.ready = TRUE]
    /\ built' = [built EXCEPT !.booted = IF slot.ready THEN @ ELSE @ \cup {slot.engine}]
    /\ Goto(t, "call") /\ UNCHANGED initLock

\* The tool's closure returns; a lost connection or a panic discards the engine
CallReturns(t) ==
    /\ At(t, "call")
    /\ slot' = Unlocked /\ Goto(t, "heartbeat")
    /\ UNCHANGED <<initLock, built>>

DiscardsEngine(t) ==
    /\ At(t, "call") \/ At(t, "run")
    /\ t \in Tools
    /\ slot' = [Unlocked EXCEPT !.engine = NoEngine, !.ready = FALSE]
    /\ Goto(t, "heartbeat")
    /\ UNCHANGED <<initLock, built>>

\* maybe_send_heartbeat or report_hyperd_error_to_daemon, after the lock is released
Heartbeat(t) == At(t, "heartbeat") /\ Goto(t, "idle") /\ UNCHANGED <<slot, initLock, built>>

-----------------------------------------------------------------------------
(* Watcher jobs and status: they never build an engine                     *)

JobLocks(t) ==
    /\ At(t, "idle") /\ caller[t].left > 0 /\ CanLock
    /\ slot' = IF Recovered.engine = NoEngine THEN Recovered ELSE LockedBy(t)
    /\ caller' = [caller EXCEPT ![t].at = IF Recovered.engine = NoEngine THEN "idle" ELSE "upsert", ![t].left = @ - 1]
    /\ UNCHANGED <<initLock, built>>

\* The catalog row is written; a panic in there poisons the mutex
JobUpserts(t) ==
    /\ At(t, "upsert")
    /\ slot' \in {Unlocked, [Unlocked EXCEPT !.poisoned = TRUE]}
    /\ Goto(t, "idle")
    /\ UNCHANGED <<initLock, built>>

\* status never waits: a lock that is held, or an empty slot, makes it degraded
StatusTries ==
    /\ At(Status, "idle") /\ caller[Status].left > 0
    /\ LET full == CanLock /\ Recovered.engine # NoEngine
       IN  /\ slot' = IF full THEN LockedBy(Status) ELSE IF CanLock THEN Recovered ELSE slot
           /\ caller' = [caller EXCEPT ![Status].at = IF full THEN "run" ELSE "idle", ![Status].left = @ - 1]
    /\ UNCHANGED <<initLock, built>>

\* A panic in its catalog bootstrap is caught: the engine stays, the flag is taken back
StatusDegraded ==
    /\ At(Status, "run")
    /\ slot' = [Unlocked EXCEPT !.ready = FALSE] /\ Goto(Status, "idle")
    /\ UNCHANGED <<initLock, built>>

StatusReports ==
    /\ At(Status, "call")
    /\ slot' = Unlocked /\ Goto(Status, "idle")
    /\ UNCHANGED <<initLock, built>>

-----------------------------------------------------------------------------

ToolStep(t) ==
    \/ EnsureFast(t) \/ TakeInitLock(t) \/ Recheck(t) \/ Build(t) \/ BuildFails(t) \/ Publish(t)
    \/ BootCatalog(t) \/ CallReturns(t) \/ DiscardsEngine(t) \/ Heartbeat(t)

EngineNext ==
    \/ \E t \in Tools : BeginCall(t) \/ ToolStep(t)
    \/ \E t \in Jobs : JobLocks(t) \/ JobUpserts(t)
    \/ StatusTries \/ BootCatalog(Status) \/ StatusDegraded \/ StatusReports

EngineFairness ==
    /\ \A t \in Tools : WF_engineVars(ToolStep(t))
    /\ \A t \in Jobs : WF_engineVars(JobUpserts(t))
    /\ WF_engineVars(BootCatalog(Status)) /\ WF_engineVars(StatusReports)

EngineSpec == EngineInit /\ [][EngineNext]_engineVars /\ EngineFairness

-----------------------------------------------------------------------------
(* Properties                                                              *)

(* server.rs:1471: the debug_assert of the single-flight initializer.  An engine that
   others use is never overwritten: its drop would delete the ephemeral database. *)
EngineNotOverwritten == \A t \in Tools : At(t, "publish") => slot.engine = NoEngine \/ slot.poisoned

(* server.rs:1479-1482, 1523-1541: catalog_ready is about the engine in the slot: when it
   is set, that engine's catalog was created and reconciled, however the engine
   before it went (a lost connection, a panic, poison recovered by a job).       *)
ReadyIsOfThisEngine ==
    (slot.ready /\ slot.engine # NoEngine /\ ~slot.poisoned) => slot.engine \in built.booted

(* engine.rs:2337-2365, server.rs:1411-1488: the two locks, a panic under either, and engines
   that cannot be built leave no tool call waiting for ever.                     *)
ToolCallsEnd == \A t \in Tools : ~At(t, "idle") ~> At(t, "idle")

\* The slot holds one engine that nobody replaces under its users, and
\* catalog_ready speaks of that engine, through panics and rebuilds.
SlotIsCoherent == EngineNotOverwritten /\ ReadyIsOfThisEngine
=============================================================================
