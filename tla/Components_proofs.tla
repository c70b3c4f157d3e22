------------------------- MODULE Components_proofs -------------------------
(***************************************************************************)
(* Proofs about components that stand on their own: the engine slot of the *)
(* MCP server (McpEngine), the hyperd processes of a program               *)
(* (HyperProcess), query statistics (QueryStats) and the resources of the  *)
(* MCP server (McpResources).  Each part gives the inductive invariant of  *)
(* one component and the theorem that follows from it.                     *)
(***************************************************************************)
EXTENDS McpEngine, HyperProcess, QueryStats, McpResources, WellFoundedInduction, TLAPS

-----------------------------------------------------------------------------
(* The engine slot                                                         *)

\* A thread is one thing only, and the number of its calls is a number.
ThreadsAreDistinct ==
    /\ Tools \cap Jobs = {}
    /\ Status \notin Tools \cup Jobs
    /\ "none" \notin Threads
    /\ MaxEngineCalls \in Nat

Places == {"idle", "ensure", "single_flight", "recheck", "build", "publish",
           "run", "call", "heartbeat", "upsert"}

CallerType == [at : Places, mine : Nat, left : Int]

SlotType == [engine : Nat, holder : Threads \cup {"none"}, poisoned : BOOLEAN,
             ready : BOOLEAN]

BuiltType == [count : Nat, booted : SUBSET Nat]

EngineTypes ==
    /\ slot \in SlotType
    /\ initLock \in Threads \cup {"none"}
    /\ caller \in [Threads -> CallerType]
    /\ built \in BuiltType

\* The engine lock is held exactly by the thread that is inside its guard.
OneHolder ==
    \A t \in Threads : (slot.holder = t) <=> (caller[t].at \in {"run", "call", "upsert"})

\* The single-flight lock is held exactly by the thread that initializes.
OneInitializer ==
    \A t \in Threads : (initLock = t) <=> (caller[t].at \in {"recheck", "build", "publish"})

\* Who holds the engine lock has an engine under it.
HeldIsFull ==
    slot.holder # "none" => slot.engine # NoEngine /\ ~slot.poisoned

\* While an engine is being built, there is none that others could use.
BuildsIntoEmptySlot ==
    \A t \in Threads : caller[t].at \in {"build", "publish"} =>
                          slot.engine = NoEngine \/ slot.poisoned

PublishesItsOwn ==
    \A t \in Threads : caller[t].at = "publish" => caller[t].mine # NoEngine

EngineInv ==
    /\ EngineTypes
    /\ OneHolder
    /\ OneInitializer
    /\ HeldIsFull
    /\ BuildsIntoEmptySlot
    /\ PublishesItsOwn
    /\ ReadyIsOfThisEngine

\* What recover_poisoned_engine leaves.
LEMMA RecoveredSlot ==
    ASSUME EngineTypes
    PROVE  /\ Recovered \in SlotType /\ ~Recovered.poisoned
           /\ Recovered.holder = slot.holder /\ Recovered.ready = slot.ready
           /\ Recovered.engine = IF slot.poisoned THEN NoEngine ELSE slot.engine
  BY DEF EngineTypes, SlotType, Recovered, NoEngine

\* What a lock operation makes of the slot.
LEMMA LockedSlot ==
    ASSUME EngineTypes, NEW t \in Threads
    PROVE  /\ LockedBy(t) \in SlotType /\ ~LockedBy(t).poisoned
           /\ LockedBy(t).holder = t /\ LockedBy(t).ready = slot.ready
           /\ LockedBy(t).engine = Recovered.engine
           /\ Unlocked \in SlotType /\ Unlocked.holder = "none"
           /\ Unlocked.engine = slot.engine /\ Unlocked.poisoned = slot.poisoned
           /\ Unlocked.ready = slot.ready
<1>1. LockedBy(t) \in SlotType /\ Unlocked \in SlotType
  BY RecoveredSlot DEF EngineTypes, SlotType, LockedBy, Unlocked
<1>2. /\ ~LockedBy(t).poisoned
      /\ LockedBy(t).holder = t /\ LockedBy(t).ready = slot.ready
      /\ LockedBy(t).engine = Recovered.engine
  BY RecoveredSlot DEF SlotType, LockedBy
<1>3. /\ Unlocked.holder = "none"
      /\ Unlocked.engine = slot.engine /\ Unlocked.poisoned = slot.poisoned
      /\ Unlocked.ready = slot.ready
  BY DEF EngineTypes, SlotType, Unlocked
<1> QED
  BY <1>1, <1>2, <1>3

\* A thread goes to a place and leaves the others where they are.
LEMMA Moves ==
    ASSUME EngineTypes, NEW t \in Threads, NEW pc \in Places, Goto(t, pc)
    PROVE  /\ caller' \in [Threads -> CallerType]
           /\ caller'[t].at = pc /\ caller'[t].mine = caller[t].mine
           /\ \A u \in Threads \ {t} : caller'[u] = caller[u]
  BY DEF EngineTypes, Goto, CallerType

LEMMA EnsureFastKeeps ==
    ASSUME EngineInv, ThreadsAreDistinct, NEW t \in Threads, EnsureFast(t)
    PROVE  EngineInv'
<1>1. CASE Recovered.engine # NoEngine
  <2>1. slot' = LockedBy(t) /\ Goto(t, "run") /\ slot.holder = "none"
        /\ caller[t].at = "ensure" /\ UNCHANGED <<initLock, built>>
    BY <1>1 DEF EnsureFast, At, CanLock
  <2> QED
    BY <1>1, <2>1, LockedSlot, RecoveredSlot, Moves
    DEF EngineInv, EngineTypes, OneHolder, OneInitializer, HeldIsFull,
        BuildsIntoEmptySlot, PublishesItsOwn, ReadyIsOfThisEngine, Places,
        ThreadsAreDistinct
<1>2. CASE Recovered.engine = NoEngine
  <2>1. slot' = Recovered /\ Goto(t, "single_flight") /\ slot.holder = "none"
        /\ caller[t].at = "ensure" /\ UNCHANGED <<initLock, built>>
    BY <1>2 DEF EnsureFast, At, CanLock
  <2> QED
    BY <1>2, <2>1, RecoveredSlot, Moves
    DEF EngineInv, EngineTypes, OneHolder, OneInitializer, HeldIsFull,
        BuildsIntoEmptySlot, PublishesItsOwn, ReadyIsOfThisEngine, Places,
        ThreadsAreDistinct
<1> QED
  BY <1>1, <1>2

LEMMA InitializerKeeps ==
    ASSUME EngineInv, ThreadsAreDistinct, NEW t \in Threads,
           TakeInitLock(t) \/ Recheck(t) \/ Build(t) \/ BuildFails(t) \/ Publish(t)
    PROVE  EngineInv'
<1>1. CASE TakeInitLock(t)
  <2>1. /\ Goto(t, "recheck") /\ initLock = "none" /\ initLock' = t
        /\ caller[t].at = "single_flight" /\ UNCHANGED <<slot, built>>
    BY <1>1 DEF TakeInitLock, At
  <2>2. /\ caller' \in [Threads -> CallerType]
        /\ caller'[t].at = "recheck" /\ caller'[t].mine = caller[t].mine
        /\ \A u \in Threads \ {t} : caller'[u] = caller[u]
    BY <2>1, Moves DEF EngineInv, Places
  <2>3. EngineTypes'
    BY <2>1, <2>2 DEF EngineInv, EngineTypes
  <2>4. OneHolder' /\ OneInitializer'
    BY <2>1, <2>2 DEF EngineInv, OneHolder, OneInitializer, ThreadsAreDistinct
  <2>5. HeldIsFull' /\ BuildsIntoEmptySlot' /\ PublishesItsOwn' /\ ReadyIsOfThisEngine'
    BY <2>1, <2>2
    DEF EngineInv, HeldIsFull, BuildsIntoEmptySlot, PublishesItsOwn, ReadyIsOfThisEngine
  <2> QED
    BY <2>3, <2>4, <2>5 DEF EngineInv
<1>2. CASE Recheck(t) /\ Recovered.engine # NoEngine
  <2>1. /\ slot' = LockedBy(t) /\ Goto(t, "run") /\ slot.holder = "none"
        /\ initLock' = "none" /\ caller[t].at = "recheck" /\ UNCHANGED built
    BY <1>2 DEF Recheck, At, CanLock
  <2> QED
    BY <1>2, <2>1, LockedSlot, RecoveredSlot, Moves
    DEF EngineInv, EngineTypes, OneHolder, OneInitializer, HeldIsFull,
        BuildsIntoEmptySlot, PublishesItsOwn, ReadyIsOfThisEngine, Places,
        ThreadsAreDistinct
<1>3. CASE Recheck(t) /\ Recovered.engine = NoEngine
  <2>1. /\ slot' = Recovered /\ Goto(t, "build") /\ slot.holder = "none"
        /\ caller[t].at = "recheck" /\ UNCHANGED <<initLock, built>>
    BY <1>3 DEF Recheck, At, CanLock
  <2> QED
    BY <1>3, <2>1, RecoveredSlot, Moves
    DEF EngineInv, EngineTypes, OneHolder, OneInitializer, HeldIsFull,
        BuildsIntoEmptySlot, PublishesItsOwn, ReadyIsOfThisEngine, Places,
        ThreadsAreDistinct
<1>4. CASE Build(t)
  <2>1. /\ caller[t].at = "build" /\ UNCHANGED <<slot, initLock>>
        /\ built' = [built EXCEPT !.count = @ + 1]
        /\ caller' = [caller EXCEPT ![t].at = "publish", ![t].mine = built.count + 1]
    BY <1>4 DEF Build, At
  <2>2. /\ caller' \in [Threads -> CallerType]
        /\ caller'[t].at = "publish" /\ caller'[t].mine = built.count + 1
        /\ \A u \in Threads \ {t} : caller'[u] = caller[u]
    <3>1. caller \in [Threads -> CallerType] /\ built.count + 1 \in Nat
          /\ "publish" \in Places
      BY DEF EngineInv, EngineTypes, BuiltType, Places
    <3> DEFINE c == [caller EXCEPT ![t].at = "publish"]
    <3>2. /\ c \in [Threads -> CallerType] /\ c[t].at = "publish"
          /\ \A u \in Threads \ {t} : c[u] = caller[u]
      BY <3>1 DEF CallerType
    <3>3. caller' = [c EXCEPT ![t].mine = built.count + 1]
      BY <2>1, <3>1
    <3> HIDE DEF c
    <3> QED
      BY <3>1, <3>2, <3>3 DEF CallerType
  <2>3. built' \in BuiltType /\ built'.booted = built.booted
    BY <2>1 DEF EngineInv, EngineTypes, BuiltType
  <2>4. built.count + 1 # NoEngine
    BY DEF EngineInv, EngineTypes, BuiltType, NoEngine
  <2> QED
    BY <2>1, <2>2, <2>3, <2>4
    DEF EngineInv, EngineTypes, OneHolder, OneInitializer, HeldIsFull,
        BuildsIntoEmptySlot, PublishesItsOwn, ReadyIsOfThisEngine, Places,
        ThreadsAreDistinct
<1>5. CASE BuildFails(t)
  <2>1. /\ Goto(t, "idle") /\ initLock' = "none"
        /\ caller[t].at = "build" /\ UNCHANGED <<slot, built>>
    BY <1>5 DEF BuildFails, At
  <2> QED
    BY <2>1, Moves
    DEF EngineInv, EngineTypes, OneHolder, OneInitializer, HeldIsFull,
        BuildsIntoEmptySlot, PublishesItsOwn, ReadyIsOfThisEngine, Places,
        ThreadsAreDistinct
<1>6. CASE Publish(t)
  <2>1. /\ slot' = [LockedBy(t) EXCEPT !.engine = caller[t].mine, !.ready = FALSE]
        /\ Goto(t, "run") /\ slot.holder = "none" /\ initLock' = "none"
        /\ caller[t].at = "publish" /\ UNCHANGED built
    BY <1>6 DEF Publish, At, CanLock
  <2>2. caller[t].mine \in Nat /\ caller[t].mine # NoEngine
    BY <2>1 DEF EngineInv, EngineTypes, CallerType, PublishesItsOwn
  <2>3. /\ slot' \in SlotType /\ slot'.holder = t /\ slot'.engine = caller[t].mine
        /\ ~slot'.poisoned /\ ~slot'.ready
    BY <2>1, <2>2, LockedSlot DEF EngineInv, SlotType
  <2> QED
    BY <2>1, <2>2, <2>3, Moves
    DEF EngineInv, EngineTypes, OneHolder, OneInitializer, HeldIsFull,
        BuildsIntoEmptySlot, PublishesItsOwn, ReadyIsOfThisEngine, Places,
        ThreadsAreDistinct
<1> QED
  BY <1>1, <1>2, <1>3, <1>4, <1>5, <1>6

\* The thread under the lock, until it releases it.
LEMMA GuardKeeps ==
    ASSUME EngineInv, ThreadsAreDistinct, NEW t \in Threads,
           BootCatalog(t) \/ CallReturns(t) \/ DiscardsEngine(t) \/ Heartbeat(t)
    PROVE  EngineInv'
<1>1. CASE BootCatalog(t)
  <2>1. /\ Goto(t, "call") /\ caller[t].at = "run" /\ UNCHANGED initLock
        /\ slot' = [slot EXCEPT !.ready = TRUE]
        /\ built' = [built EXCEPT !.booted = IF slot.ready THEN @
                                             ELSE @ \cup {slot.engine}]
    BY <1>1 DEF BootCatalog, At
  <2>2. /\ slot' \in SlotType /\ slot'.holder = slot.holder
        /\ slot'.engine = slot.engine /\ slot'.poisoned = slot.poisoned
    BY <2>1 DEF EngineInv, EngineTypes, SlotType
  <2>3. slot.engine # NoEngine /\ ~slot.poisoned
    <3>1. slot.holder = t /\ t # "none"
      BY <2>1 DEF EngineInv, OneHolder, ThreadsAreDistinct
    <3> QED
      BY <3>1 DEF EngineInv, HeldIsFull
  <2>4. built' \in BuiltType /\ slot.engine \in built'.booted
    <3>1. built \in BuiltType /\ slot.engine \in Nat
      BY DEF EngineInv, EngineTypes, SlotType
    <3>2. CASE slot.ready
      <4>1. slot.engine \in built.booted
        BY <2>3, <3>2 DEF EngineInv, ReadyIsOfThisEngine
      <4> QED
        BY <2>1, <3>1, <3>2, <4>1 DEF BuiltType
    <3>3. CASE ~slot.ready
      BY <2>1, <3>1, <3>3 DEF BuiltType
    <3> QED
      BY <3>2, <3>3
  <2> QED
    BY <2>1, <2>2, <2>3, <2>4, Moves
    DEF EngineInv, EngineTypes, OneHolder, OneInitializer, HeldIsFull,
        BuildsIntoEmptySlot, PublishesItsOwn, ReadyIsOfThisEngine, Places,
        ThreadsAreDistinct
<1>2. CASE CallReturns(t)
  <2>1. /\ Goto(t, "heartbeat") /\ caller[t].at = "call" /\ slot' = Unlocked
        /\ UNCHANGED <<initLock, built>>
    BY <1>2 DEF CallReturns, At
  <2> QED
    BY <2>1, LockedSlot, Moves
    DEF EngineInv, EngineTypes, OneHolder, OneInitializer, HeldIsFull,
        BuildsIntoEmptySlot, PublishesItsOwn, ReadyIsOfThisEngine, Places,
        ThreadsAreDistinct
<1>3. CASE DiscardsEngine(t)
  <2>1. /\ Goto(t, "heartbeat") /\ caller[t].at \in {"call", "run"}
        /\ slot' = [Unlocked EXCEPT !.engine = NoEngine, !.ready = FALSE]
        /\ UNCHANGED <<initLock, built>>
    BY <1>3 DEF DiscardsEngine, At
  <2>2. /\ slot' \in SlotType /\ slot'.holder = "none" /\ slot'.engine = NoEngine
    BY <2>1, LockedSlot DEF EngineInv, SlotType, NoEngine
  <2> QED
    BY <2>1, <2>2, Moves
    DEF EngineInv, EngineTypes, OneHolder, OneInitializer, HeldIsFull,
        BuildsIntoEmptySlot, PublishesItsOwn, ReadyIsOfThisEngine, Places,
        ThreadsAreDistinct
<1>4. CASE Heartbeat(t)
  <2>1. /\ Goto(t, "idle") /\ caller[t].at = "heartbeat"
        /\ UNCHANGED <<slot, initLock, built>>
    BY <1>4 DEF Heartbeat, At
  <2> QED
    BY <2>1, Moves
    DEF EngineInv, EngineTypes, OneHolder, OneInitializer, HeldIsFull,
        BuildsIntoEmptySlot, PublishesItsOwn, ReadyIsOfThisEngine, Places,
        ThreadsAreDistinct
<1> QED
  BY <1>1, <1>2, <1>3, <1>4

\* A thread that may take the lock but never builds an engine.
LEMMA BeginKeeps ==
    ASSUME EngineInv, ThreadsAreDistinct, NEW t \in Threads,
           BeginCall(t) \/ JobLocks(t) \/ (t = Status /\ StatusTries)
    PROVE  EngineInv'
<1>1. ASSUME NEW pc \in {"idle", "ensure", "upsert", "run"}, caller[t].at = "idle",
             caller' = [caller EXCEPT ![t].at = pc, ![t].left = @ - 1],
             UNCHANGED <<initLock, built>>,
             \/ slot' = slot /\ pc \in {"idle", "ensure"}
             \/ slot' = Recovered /\ slot.holder = "none" /\ pc = "idle"
             \/ /\ slot' = LockedBy(t) /\ slot.holder = "none"
                /\ Recovered.engine # NoEngine /\ pc \in {"upsert", "run"}
      PROVE  EngineInv'
  <2>1. /\ caller' \in [Threads -> CallerType]
        /\ caller'[t].at = pc /\ caller'[t].mine = caller[t].mine
        /\ \A u \in Threads \ {t} : caller'[u] = caller[u]
    BY <1>1 DEF EngineInv, EngineTypes, CallerType, Places
  <2>2. CASE slot' = slot /\ pc \in {"idle", "ensure"}
    BY <1>1, <2>1, <2>2
    DEF EngineInv, EngineTypes, OneHolder, OneInitializer, HeldIsFull,
        BuildsIntoEmptySlot, PublishesItsOwn, ReadyIsOfThisEngine, Places,
        ThreadsAreDistinct
  <2>3. CASE slot' = Recovered /\ slot.holder = "none" /\ pc = "idle"
    BY <1>1, <2>1, <2>3, RecoveredSlot
    DEF EngineInv, EngineTypes, OneHolder, OneInitializer, HeldIsFull,
        BuildsIntoEmptySlot, PublishesItsOwn, ReadyIsOfThisEngine, Places,
        ThreadsAreDistinct
  <2>4. CASE /\ slot' = LockedBy(t) /\ slot.holder = "none"
             /\ Recovered.engine # NoEngine /\ pc \in {"upsert", "run"}
    BY <1>1, <2>1, <2>4, RecoveredSlot, LockedSlot
    DEF EngineInv, EngineTypes, OneHolder, OneInitializer, HeldIsFull,
        BuildsIntoEmptySlot, PublishesItsOwn, ReadyIsOfThisEngine, Places,
        ThreadsAreDistinct
  <2> QED
    BY <1>1, <2>2, <2>3, <2>4
<1>2. CASE BeginCall(t)
  BY <1>1, <1>2 DEF BeginCall, At
<1>3. CASE JobLocks(t)
  <2>1. CASE Recovered.engine = NoEngine
    BY <1>1, <1>3, <2>1 DEF JobLocks, At, CanLock
  <2>2. CASE Recovered.engine # NoEngine
    BY <1>1, <1>3, <2>2 DEF JobLocks, At, CanLock
  <2> QED
    BY <2>1, <2>2
<1>4. CASE t = Status /\ StatusTries
  <2>1. CASE CanLock /\ Recovered.engine # NoEngine
    BY <1>1, <1>4, <2>1 DEF StatusTries, At, CanLock
  <2>2. CASE CanLock /\ Recovered.engine = NoEngine
    BY <1>1, <1>4, <2>2 DEF StatusTries, At, CanLock
  <2>3. CASE ~CanLock
    BY <1>1, <1>4, <2>3 DEF StatusTries, At
  <2> QED
    BY <2>1, <2>2, <2>3
<1> QED
  BY <1>2, <1>3, <1>4

LEMMA ReleaseKeeps ==
    ASSUME EngineInv, ThreadsAreDistinct, NEW t \in Threads,
           JobUpserts(t) \/ (t = Status /\ (StatusDegraded \/ StatusReports))
    PROVE  EngineInv'
<1>1. /\ Goto(t, "idle") /\ caller[t].at \in {"upsert", "run", "call"}
      /\ UNCHANGED <<initLock, built>>
      /\ \/ slot' = Unlocked
         \/ slot' = [Unlocked EXCEPT !.poisoned = TRUE]
         \/ slot' = [Unlocked EXCEPT !.ready = FALSE]
  BY DEF JobUpserts, StatusDegraded, StatusReports, At
<1>2. CASE slot' = Unlocked
  BY <1>1, <1>2, LockedSlot, Moves
  DEF EngineInv, EngineTypes, OneHolder, OneInitializer, HeldIsFull,
      BuildsIntoEmptySlot, PublishesItsOwn, ReadyIsOfThisEngine, Places,
      ThreadsAreDistinct
<1>3. CASE slot' = [Unlocked EXCEPT !.poisoned = TRUE]
  <2>1. /\ slot' \in SlotType /\ slot'.holder = "none" /\ slot'.poisoned
        /\ slot'.engine = slot.engine
    BY <1>3, LockedSlot DEF EngineInv, SlotType
  <2> QED
    BY <1>1, <2>1, Moves
    DEF EngineInv, EngineTypes, OneHolder, OneInitializer, HeldIsFull,
        BuildsIntoEmptySlot, PublishesItsOwn, ReadyIsOfThisEngine, Places,
        ThreadsAreDistinct
<1>4. CASE slot' = [Unlocked EXCEPT !.ready = FALSE]
  <2>1. /\ slot' \in SlotType /\ slot'.holder = "none" /\ ~slot'.ready
        /\ slot'.engine = slot.engine /\ slot'.poisoned = slot.poisoned
    BY <1>4, LockedSlot DEF EngineInv, SlotType
  <2> QED
    BY <1>1, <2>1, Moves
    DEF EngineInv, EngineTypes, OneHolder, OneInitializer, HeldIsFull,
        BuildsIntoEmptySlot, PublishesItsOwn, ReadyIsOfThisEngine, Places,
        ThreadsAreDistinct
<1> QED
  BY <1>1, <1>2, <1>3, <1>4

\* The engine slot stays coherent for any number of tool threads and watcher
\* jobs (server.rs, ensure_engine and with_engine): the single-flight
\* initializer never overwrites an engine that others use, and catalog_ready
\* speaks of the engine in the slot.
THEOREM SlotStaysCoherent ==
    ASSUME ThreadsAreDistinct
    PROVE  EngineSpec => []SlotIsCoherent
<1>1. EngineInit => EngineInv
  BY DEF EngineInit, EngineInv, EngineTypes, SlotType, CallerType, Places, BuiltType,
         OneHolder, OneInitializer, HeldIsFull, BuildsIntoEmptySlot,
         PublishesItsOwn, ReadyIsOfThisEngine, ThreadsAreDistinct, NoEngine
<1>2. EngineInv /\ [EngineNext]_engineVars => EngineInv'
  <2>1. SUFFICES ASSUME EngineInv, [EngineNext]_engineVars PROVE EngineInv'
    OBVIOUS
  <2>2. CASE UNCHANGED engineVars
    BY <2>1, <2>2
    DEF engineVars, EngineInv, EngineTypes, OneHolder, OneInitializer, HeldIsFull,
        BuildsIntoEmptySlot, PublishesItsOwn, ReadyIsOfThisEngine
  <2>3. CASE EngineNext
    BY <2>1, <2>3, EnsureFastKeeps, InitializerKeeps, GuardKeeps, BeginKeeps,
       ReleaseKeeps
    DEF EngineNext, ToolStep, Threads
  <2> QED
    BY <2>1, <2>2, <2>3
<1>3. EngineInv => SlotIsCoherent
  BY DEF EngineInv, SlotIsCoherent, EngineNotOverwritten, BuildsIntoEmptySlot, At,
         Threads
<1> QED
  BY <1>1, <1>2, <1>3, PTL DEF EngineSpec

-----------------------------------------------------------------------------
(* hyperd processes                                                        *)

Stages == {"none", "spawning", "failed", "waiting", "up", "stopping", "reaped", "gone"}

Hyperds == {"none", "starting", "running", "hung", "zombie", "exited"}

ProcType == [stage : Stages, hyperd : Hyperds,
             callback : BOOLEAN, dir : Int, owned : BOOLEAN, timeout : BOOLEAN]

\* A directory that was made belongs to one instance, by its sequence number.
OwnDirectory ==
    /\ \A i \in Instances :
          IF proc[i].owned THEN proc[i].dir \in 1 .. ipcSeq
          ELSE proc[i].dir \in {NoDir, CustomDir}
    /\ \A i, j \in Instances :
          i # j /\ proc[i].owned /\ proc[j].owned => proc[i].dir # proc[j].dir

\* It exists until its owner is gone; the caller's directory always does.
DirectoryLives ==
    /\ CustomDir \in dirs
    /\ \A i \in Instances :
          proc[i].owned => ((proc[i].dir \in dirs) <=> (proc[i].stage # "gone"))

ReapedHasExited ==
    \A i \in Instances :
        /\ proc[i].stage \in {"reaped", "gone"} => proc[i].hyperd = "exited"
        /\ proc[i].stage = "none" => ~proc[i].owned

ProcessInv ==
    /\ proc \in [Instances -> ProcType]
    /\ ipcSeq \in Nat
    /\ OwnDirectory
    /\ DirectoryLives
    /\ ReapedHasExited

\* What a step may make of an instance that keeps its directory.
SameDirectory(p, q) == p \in ProcType /\ p.dir = q.dir /\ p.owned = q.owned

\* An instance goes on, and neither makes nor removes a directory.
LEMMA InstanceStep ==
    ASSUME ProcessInv, NEW i \in Instances, NEW p, Set(i, p), SameDirectory(p, proc[i]),
           p.stage \notin {"gone", "none"}, proc[i].stage # "gone",
           p.stage = "reaped" => p.hyperd = "exited",
           UNCHANGED <<dirs, ipcSeq>>
    PROVE  ProcessInv'
<1>1. /\ proc' \in [Instances -> ProcType] /\ proc'[i] = p
      /\ \A j \in Instances \ {i} : proc'[j] = proc[j]
  BY DEF ProcessInv, Set, SameDirectory
<1>2. \A j \in Instances : proc'[j].dir = proc[j].dir /\ proc'[j].owned = proc[j].owned
  BY <1>1 DEF SameDirectory
<1>3. OwnDirectory'
  BY <1>2 DEF ProcessInv, OwnDirectory
<1>4. DirectoryLives'
  BY <1>1, <1>2 DEF ProcessInv, DirectoryLives
<1>5. ReapedHasExited'
  BY <1>1 DEF ProcessInv, ReapedHasExited
<1> QED
  BY <1>1, <1>3, <1>4, <1>5 DEF ProcessInv

LEMMA HyperdStep ==
    ASSUME ProcessInv, NEW i \in Instances,
           HyperdConnects(i) \/ HyperdExits(i) \/ HyperdFails(i)
    PROVE  ProcessInv'
<1>1. proc[i] \in ProcType /\ proc[i].hyperd \in {"starting", "running"}
  BY DEF ProcessInv, HyperdConnects, HyperdExits, HyperdFails
<1>2. PICK p : /\ SameDirectory(p, proc[i]) /\ p.stage = proc[i].stage
               /\ Set(i, p) /\ UNCHANGED <<dirs, ipcSeq>>
  <2>1. CASE HyperdConnects(i) /\ Is(i, "waiting")
    <3> DEFINE p == [proc[i] EXCEPT !.hyperd = "running", !.callback = TRUE]
    <3>1. SameDirectory(p, proc[i]) /\ p.stage = proc[i].stage
      BY <1>1 DEF SameDirectory, ProcType, Hyperds
    <3>2. Set(i, p) /\ UNCHANGED <<dirs, ipcSeq>>
      BY <2>1 DEF HyperdConnects
    <3> QED
      BY <3>1, <3>2
  <2>2. CASE ~(HyperdConnects(i) /\ Is(i, "waiting"))
    <3>1. PICK h \in {"hung", "zombie"} :
             Set(i, [proc[i] EXCEPT !.hyperd = h]) /\ UNCHANGED <<dirs, ipcSeq>>
      BY <2>2 DEF HyperdConnects, HyperdExits, HyperdFails
    <3> DEFINE p == [proc[i] EXCEPT !.hyperd = h]
    <3>2. SameDirectory(p, proc[i]) /\ p.stage = proc[i].stage
      BY <1>1 DEF SameDirectory, ProcType, Hyperds
    <3> QED
      BY <3>1, <3>2
  <2> QED
    BY <2>1, <2>2
<1>3. p \in ProcType /\ p.dir = proc[i].dir /\ p.owned = proc[i].owned /\ p.stage = proc[i].stage
  BY <1>2 DEF SameDirectory
<1>4. proc[i].stage \notin {"reaped", "gone"}
  BY <1>1 DEF ProcessInv, ReapedHasExited
<1>5. /\ proc' \in [Instances -> ProcType] /\ proc'[i] = p
      /\ \A j \in Instances \ {i} : proc'[j] = proc[j]
      /\ dirs' = dirs /\ ipcSeq' = ipcSeq
  BY <1>2, <1>3 DEF ProcessInv, Set
<1>6. \A j \in Instances : /\ proc'[j].dir = proc[j].dir /\ proc'[j].owned = proc[j].owned
                           /\ proc'[j].stage = proc[j].stage
  BY <1>3, <1>5
<1>7. OwnDirectory' /\ DirectoryLives'
  BY <1>5, <1>6 DEF ProcessInv, OwnDirectory, DirectoryLives
<1>8. ReapedHasExited'
  BY <1>3, <1>4, <1>5, <1>6 DEF ProcessInv, ReapedHasExited
<1> QED
  BY <1>5, <1>7, <1>8 DEF ProcessInv

LEMMA StartServerKeeps ==
    ASSUME ProcessInv, NEW i \in Instances, NEW transport \in {"tcp", "ipc", "custom"},
           StartServer(i, transport)
    PROVE  ProcessInv'
<1>0. NoProcess \in ProcType
  BY DEF NoProcess, NoDir, ProcType, Stages, Hyperds
<1>1. proc[i].stage = "none" /\ ~proc[i].owned
  BY DEF StartServer, Is, ProcessInv, ReapedHasExited
<1>2. CASE transport \in {"tcp", "custom"}
  <2>1. PICK d \in {NoDir, CustomDir} :
           /\ Set(i, [NoProcess EXCEPT !.stage = "spawning", !.dir = d, !.owned = FALSE])
           /\ UNCHANGED <<dirs, ipcSeq>>
    BY <1>2 DEF StartServer
  <2> DEFINE p == [NoProcess EXCEPT !.stage = "spawning", !.dir = d, !.owned = FALSE]
  <2>2. p \in ProcType /\ p.dir = d /\ ~p.owned /\ p.stage = "spawning"
    <3>1. d \in Int
      BY <2>1 DEF NoDir, CustomDir
    <3> QED
      BY <1>0, <3>1 DEF ProcType, Stages
  <2> HIDE DEF p
  <2>3. /\ proc' \in [Instances -> ProcType] /\ proc'[i] = p
        /\ \A j \in Instances \ {i} : proc'[j] = proc[j]
    BY <2>1, <2>2 DEF ProcessInv, Set, p
  <2> QED
    BY <2>1, <2>2, <2>3 DEF ProcessInv, OwnDirectory, DirectoryLives, ReapedHasExited
<1>3. CASE transport = "ipc"
  <2> DEFINE d == ipcSeq + 1
             p == [NoProcess EXCEPT !.stage = "spawning", !.dir = d, !.owned = TRUE]
  <2>1. Set(i, p) /\ dirs' = dirs \cup {d} /\ ipcSeq' = d
    BY <1>3 DEF StartServer, DefaultSocketDir
  <2>2. p \in ProcType /\ p.dir = d /\ p.owned /\ p.stage = "spawning"
    <3>1. d \in Int
      BY DEF ProcessInv
    <3> HIDE DEF d
    <3> QED
      BY <1>0, <3>1 DEF ProcType, Stages
  <2>3. d \in 1 .. d /\ ipcSeq \in Nat /\ d \in Nat /\ d # CustomDir
        /\ \A x \in 1 .. ipcSeq : x # d /\ x \in 1 .. d
    BY DEF ProcessInv, CustomDir
  <2> HIDE DEF p, d
  <2>4. /\ proc' \in [Instances -> ProcType] /\ proc'[i] = p
        /\ \A j \in Instances \ {i} : proc'[j] = proc[j]
    BY <2>1, <2>2 DEF ProcessInv, Set
  <2>5. OwnDirectory'
    BY <2>1, <2>2, <2>3, <2>4 DEF ProcessInv, OwnDirectory
  <2>6. DirectoryLives'
    BY <2>1, <2>2, <2>3, <2>4 DEF ProcessInv, OwnDirectory, DirectoryLives
  <2>7. ReapedHasExited'
    BY <2>2, <2>4 DEF ProcessInv, ReapedHasExited
  <2> QED
    BY <2>1, <2>3, <2>4, <2>5, <2>6, <2>7 DEF ProcessInv
<1> QED
  BY <1>2, <1>3

LEMMA RemoveSocketDirKeeps ==
    ASSUME ProcessInv, NEW i \in Instances, RemoveSocketDir(i)
    PROVE  ProcessInv'
<1> DEFINE p == [proc[i] EXCEPT !.stage = "gone"]
<1>1. /\ proc[i] \in ProcType /\ proc[i].stage = "reaped" /\ Set(i, p) /\ ipcSeq' = ipcSeq
      /\ dirs' = IF proc[i].owned THEN dirs \ {proc[i].dir} ELSE dirs
  BY DEF RemoveSocketDir, Is, ProcessInv
<1>2. /\ p \in ProcType /\ p.stage = "gone" /\ p.dir = proc[i].dir
      /\ p.owned = proc[i].owned /\ p.hyperd = proc[i].hyperd
  BY <1>1 DEF ProcType, Stages
<1> HIDE DEF p
<1>3. /\ proc' \in [Instances -> ProcType] /\ proc'[i] = p
      /\ \A j \in Instances \ {i} : proc'[j] = proc[j]
  BY <1>1, <1>2 DEF ProcessInv, Set
<1>4. \A j \in Instances : proc'[j].dir = proc[j].dir /\ proc'[j].owned = proc[j].owned
  BY <1>2, <1>3
<1>5. OwnDirectory'
  BY <1>1, <1>4 DEF ProcessInv, OwnDirectory
<1>6. DirectoryLives'
  <2>1. proc[i].owned => proc[i].dir # CustomDir
    BY DEF ProcessInv, OwnDirectory, CustomDir
  <2>2. CustomDir \in dirs'
    BY <1>1, <2>1 DEF ProcessInv, DirectoryLives
  <2>3. ASSUME NEW j \in Instances, proc'[j].owned
        PROVE  (proc'[j].dir \in dirs') <=> (proc'[j].stage # "gone")
    <3>1. CASE j = i
      BY <1>1, <1>2, <1>3, <2>3, <3>1
    <3>2. CASE j # i
      <4>1. proc[i].owned => proc[i].dir # proc[j].dir
        BY <1>4, <2>3, <3>2 DEF ProcessInv, OwnDirectory
      <4>2. (proc[j].dir \in dirs) <=> (proc[j].stage # "gone")
        BY <1>4, <2>3 DEF ProcessInv, DirectoryLives
      <4> QED
        BY <1>1, <1>3, <3>2, <4>1, <4>2
    <3> QED
      BY <3>1, <3>2
  <2> QED
    BY <2>2, <2>3 DEF DirectoryLives
<1>7. ReapedHasExited'
  BY <1>1, <1>2, <1>3 DEF ProcessInv, ReapedHasExited
<1> QED
  BY <1>1, <1>3, <1>5, <1>6, <1>7 DEF ProcessInv

LEMMA HandleStep ==
    ASSUME ProcessInv, NEW i \in Instances,
           \/ Spawn(i) \/ SpawnFails(i) \/ AcceptCallback(i) \/ CallbackFails(i)
           \/ HasExited(i) \/ ShutdownGraceful(i) \/ ShutdownTimeout(i)
           \/ DropHandle(i) \/ WaitReturns(i) \/ KillAfterTimeout(i)
    PROVE  ProcessInv'
<1>1. proc[i] \in ProcType
  BY DEF ProcessInv
<1>2. CASE Spawn(i)
  <2> DEFINE p == [proc[i] EXCEPT !.stage = "waiting", !.hyperd = "starting"]
  <2>1. SameDirectory(p, proc[i]) /\ p.stage = "waiting"
    BY <1>1 DEF SameDirectory, ProcType, Stages, Hyperds
  <2>2. Set(i, p) /\ UNCHANGED <<dirs, ipcSeq>> /\ proc[i].stage # "gone"
    BY <1>2 DEF Spawn, Is
  <2> QED
    BY <2>1, <2>2, InstanceStep
<1>3. CASE SpawnFails(i)
  <2> DEFINE p == [proc[i] EXCEPT !.stage = "failed"]
  <2>1. SameDirectory(p, proc[i]) /\ p.stage = "failed"
    BY <1>1 DEF SameDirectory, ProcType, Stages, Hyperds
  <2>2. Set(i, p) /\ UNCHANGED <<dirs, ipcSeq>> /\ proc[i].stage # "gone"
    BY <1>3 DEF SpawnFails, Is
  <2> QED
    BY <2>1, <2>2, InstanceStep
<1>4. CASE AcceptCallback(i)
  <2> DEFINE p == [proc[i] EXCEPT !.stage = "up"]
  <2>1. SameDirectory(p, proc[i]) /\ p.stage = "up"
    BY <1>1 DEF SameDirectory, ProcType, Stages, Hyperds
  <2>2. Set(i, p) /\ UNCHANGED <<dirs, ipcSeq>> /\ proc[i].stage # "gone"
    BY <1>4 DEF AcceptCallback, Is
  <2> QED
    BY <2>1, <2>2, InstanceStep
<1>5. CASE CallbackFails(i)
  <2> DEFINE p == [proc[i] EXCEPT !.stage = "failed", !.callback = FALSE]
  <2>1. SameDirectory(p, proc[i]) /\ p.stage = "failed"
    BY <1>1 DEF SameDirectory, ProcType, Stages, Hyperds
  <2>2. Set(i, p) /\ UNCHANGED <<dirs, ipcSeq>> /\ proc[i].stage # "gone"
    BY <1>5 DEF CallbackFails, Is
  <2> QED
    BY <2>1, <2>2, InstanceStep
<1>6. CASE HasExited(i)
  <2> DEFINE p == [proc[i] EXCEPT !.hyperd = "exited"]
  <2>1. SameDirectory(p, proc[i]) /\ p.stage = "up"
    BY <1>1, <1>6 DEF SameDirectory, ProcType, Stages, Hyperds, HasExited, Is
  <2>2. Set(i, p) /\ UNCHANGED <<dirs, ipcSeq>> /\ proc[i].stage # "gone"
    BY <1>6 DEF HasExited, Is
  <2> QED
    BY <2>1, <2>2, InstanceStep
<1>7. CASE ShutdownGraceful(i) \/ ShutdownTimeout(i) \/ DropHandle(i)
  <2>0. PICK b \in BOOLEAN : CloseCallback(i, b)
    BY <1>7 DEF ShutdownGraceful, ShutdownTimeout, DropHandle
  <2> DEFINE p == [proc[i] EXCEPT !.stage = "stopping", !.callback = FALSE, !.timeout = b]
  <2>1. SameDirectory(p, proc[i]) /\ p.stage = "stopping"
    BY <1>1 DEF SameDirectory, ProcType, Stages, Hyperds
  <2>2. Set(i, p) /\ UNCHANGED <<dirs, ipcSeq>> /\ proc[i].stage # "gone"
    BY <2>0 DEF CloseCallback, Is
  <2> QED
    BY <2>1, <2>2, InstanceStep
<1>8. CASE WaitReturns(i) \/ KillAfterTimeout(i)
  <2> DEFINE p == [proc[i] EXCEPT !.stage = "reaped", !.hyperd = "exited"]
  <2>1. SameDirectory(p, proc[i]) /\ p.stage = "reaped" /\ p.hyperd = "exited"
    BY <1>1 DEF SameDirectory, ProcType, Stages, Hyperds
  <2>2. Set(i, p) /\ UNCHANGED <<dirs, ipcSeq>> /\ proc[i].stage # "gone"
    BY <1>8 DEF WaitReturns, KillAfterTimeout, Is
  <2> QED
    BY <2>1, <2>2, InstanceStep
<1> QED
  BY <1>2, <1>3, <1>4, <1>5, <1>6, <1>7, <1>8

\* With any number of instances in one program (process.rs): a server that is
\* up has its socket directory, and one that was shut down leaves neither a
\* child nor the directory that was made for it.
THEOREM ServersStayOwned == ProcessSpec => []ServersAreOwned
<1>1. ProcessInit => ProcessInv
  BY DEF ProcessInit, ProcessInv, ProcType, Stages, Hyperds, NoProcess, NoDir, CustomDir,
         OwnDirectory, DirectoryLives, ReapedHasExited
<1>2. ProcessInv /\ [ProcessNext]_processVars => ProcessInv'
  <2>1. SUFFICES ASSUME ProcessInv, [ProcessNext]_processVars PROVE ProcessInv'
    OBVIOUS
  <2>2. CASE UNCHANGED processVars
    BY <2>1, <2>2
    DEF processVars, ProcessInv, OwnDirectory, DirectoryLives, ReapedHasExited
  <2>3. CASE ProcessNext
    BY <2>1, <2>3, StartServerKeeps, HandleStep, RemoveSocketDirKeeps, HyperdStep
    DEF ProcessNext
  <2> QED
    BY <2>1, <2>2, <2>3
<1>3. ProcessInv => ServersAreOwned
  <2>1. SUFFICES ASSUME ProcessInv PROVE ServersAreOwned
    OBVIOUS
  <2>2. LiveServerHasItsSocket
    BY <2>1 DEF ProcessInv, OwnDirectory, DirectoryLives, LiveServerHasItsSocket, Is
  <2>3. ShutdownLeavesNothing
    BY <2>1 DEF ProcessInv, DirectoryLives, ReapedHasExited, ShutdownLeavesNothing, Is
  <2> QED
    BY <2>2, <2>3 DEF ServersAreOwned
<1> QED
  BY <1>1, <1>2, <1>3, PTL DEF ProcessSpec

-----------------------------------------------------------------------------
(* Query statistics                                                        *)

\* Statements are sequences of words, and the log keeps a number of them.
StatsConstants(Words) == Texts \subseteq Seq(Words) /\ TruncLen \in Nat

EntryType(Words) == [id : Int, text : Seq(Words), prep : BOOLEAN]
TokenType(Words) == [id : Nat, text : Seq(Words), offset : Nat]
ConnType(Words) == [on : BOOLEAN, pending : TokenType(Words), sent : Nat,
                    unread : TokenType(Words), others : BOOLEAN]
StatsTypes(Words) ==
    /\ qlog \in Seq(EntryType(Words))
    /\ qstats \in ConnType(Words)

\* Statements are numbered as they are sent, and an open result is of the last.
TokensInOrder ==
    /\ qstats.pending.id <= qstats.sent
    /\ qstats.unread = NoToken \/ qstats.unread.id = qstats.sent
    /\ qstats.pending.offset <= Len(qlog)
    /\ ~NoResultOpen /\ qstats.pending.id = qstats.sent /\ qstats.sent > 0
          => qstats.unread.text = qstats.pending.text
    /\ qstats.pending.id = 0 => qstats.pending = NoToken

\* Nothing of an earlier statement is logged after the offset.
LaterIsNotOlder ==
    \A k \in DOMAIN qlog : k > qstats.pending.offset /\ qlog[k].id > 0
                              => qlog[k].id >= qstats.pending.id

\* While the pending statement is the last one and the connection is alone, only
\* it is logged after the offset, and its execution is once the result was read.
OnlyThisStatement ==
    ~qstats.others /\ qstats.pending # NoToken /\ qstats.pending.id = qstats.sent =>
        /\ \A k \in DOMAIN qlog : k > qstats.pending.offset => qlog[k].id = qstats.sent
        /\ NoResultOpen => \E k \in DOMAIN qlog : /\ k > qstats.pending.offset /\ ~qlog[k].prep
                                          /\ qlog[k].text = Truncated(qstats.pending.text)

StatsInv(Words) ==
    /\ StatsTypes(Words) /\ TokensInOrder /\ LaterIsNotOlder /\ OnlyThisStatement
    /\ StatsBelong

\* A set of positions in the log has a last one.
LEMMA LastPosition ==
    ASSUME NEW n \in Nat, NEW hits, hits \subseteq 1 .. n, hits # {}
    PROVE  \E i \in hits : \A j \in hits : j <= i
<1> DEFINE R == {ss \in Nat \X Nat : ss[1] < ss[2]}
           T == {x \in Nat : n - x \in hits}
<1>1. T \subseteq Nat
  OBVIOUS
<1>2. T # {}
  <2>1. PICK i \in hits : TRUE
    OBVIOUS
  <2>2. i \in 1 .. n /\ n - i \in Nat /\ n - (n - i) = i
    OBVIOUS
  <2> QED
    BY <2>1, <2>2
<1>3. IsWellFoundedOn(R, Nat)
  BY NatLessThanWellFounded DEF OpToRel
<1> HIDE DEF R, T
<1>4. PICK x \in T : \A y \in T : ~(<<y, x>> \in R)
  BY <1>1, <1>2, <1>3, WFMin
<1>5. \A y \in T : ~(y < x)
  BY <1>1, <1>4 DEF R
<1>6. n - x \in hits /\ x \in Nat
  BY <1>4 DEF T
<1>7. ASSUME NEW j \in hits PROVE j <= n - x
  <2>1. j \in 1 .. n /\ n - j \in Nat /\ n - (n - j) = j
    OBVIOUS
  <2>2. n - j \in T
    BY <2>1 DEF T
  <2> QED
    BY <1>5, <1>6, <2>1, <2>2
<1> QED
  BY <1>6, <1>7

\* LastWith, given the entries that pass the test.
LastOf(entries, hits) ==
    IF hits = {} THEN NoStats
    ELSE LET i == CHOOSE i \in hits : \A j \in hits : j <= i
         IN [id |-> entries[i].id, prep |-> entries[i].prep]

LEMMA LastOfIsHit ==
    ASSUME NEW entries, NEW n \in Nat, NEW hits, hits \subseteq 1 .. n, hits # {}
    PROVE  \E i \in hits : LastOf(entries, hits) = [id |-> entries[i].id, prep |-> entries[i].prep]
<1> DEFINE i == CHOOSE i \in hits : \A j \in hits : j <= i
<1>1. i \in hits
  BY LastPosition
<1>2. LastOf(entries, hits) = [id |-> entries[i].id, prep |-> entries[i].prep]
  BY DEF LastOf
<1> QED
  BY <1>1, <1>2

Seen(offset) == SubSeq(qlog, offset + 1, Len(qlog))
Executions(offset, sql) ==
    {i \in DOMAIN Seen(offset) : MatchesText(sql, Seen(offset)[i].text) /\ ~Seen(offset)[i].prep}
Prepares(offset, sql) ==
    {i \in DOMAIN Seen(offset) : MatchesText(sql, Seen(offset)[i].text) /\ Seen(offset)[i].prep}
Everything(offset) == {i \in DOMAIN Seen(offset) : TRUE}

\* The part of the log after_query reads.
LEMMA SeenIsTail ==
    ASSUME NEW Words, StatsTypes(Words), NEW offset \in Nat, offset <= Len(qlog)
    PROVE  /\ Len(qlog) - offset \in Nat
           /\ DOMAIN Seen(offset) = 1 .. (Len(qlog) - offset)
           /\ \A i \in DOMAIN Seen(offset) : /\ Seen(offset)[i] = qlog[offset + i]
                                            /\ offset + i \in DOMAIN qlog /\ offset + i > offset
<1>1. qlog \in Seq(EntryType(Words)) /\ Len(qlog) \in Nat
  BY DEF StatsTypes
<1> QED
  BY <1>1 DEF Seen

\* find_query_end: each of its three searches in turn.
LEMMA FindInTurn ==
    ASSUME NEW offset, NEW sql
    PROVE  LET e == LastOf(Seen(offset), Executions(offset, sql))
               p == LastOf(Seen(offset), Prepares(offset, sql))
               w == LastOf(Seen(offset), Everything(offset))
           IN FindQueryEnd(offset, sql) =
                  IF e # NoStats THEN e ELSE IF p # NoStats THEN p ELSE w
<1> DEFINE e == LastOf(Seen(offset), Executions(offset, sql))
           p == LastOf(Seen(offset), Prepares(offset, sql))
           w == LastOf(Seen(offset), Everything(offset))
           ranked == <<e, p, w>>
           found == {i \in 1..3 : ranked[i] # NoStats}
<1>1. FindQueryEnd(offset, sql) =
          IF found = {} THEN NoStats ELSE ranked[CHOOSE i \in found : \A j \in found : i <= j]
  BY DEF FindQueryEnd, LastWith, LastOf, Seen, Executions, Prepares, Everything
<1> HIDE DEF e, p, w
<1>2. ASSUME e # NoStats PROVE FindQueryEnd(offset, sql) = e
  <2>1. 1 \in found /\ \A j \in found : 1 <= j
    BY <1>2
  <2>2. \A i \in found : (\A j \in found : i <= j) => i = 1
    BY <2>1
  <2>3. (CHOOSE i \in found : \A j \in found : i <= j) = 1
    BY <2>1, <2>2
  <2> QED
    BY <1>1, <1>2, <2>1, <2>3
<1>3. ASSUME e = NoStats /\ p # NoStats PROVE FindQueryEnd(offset, sql) = p
  <2>1. 2 \in found /\ \A j \in found : 2 <= j
    BY <1>3
  <2>2. \A i \in found : (\A j \in found : i <= j) => i = 2
    BY <2>1
  <2>3. (CHOOSE i \in found : \A j \in found : i <= j) = 2
    BY <2>1, <2>2
  <2> QED
    BY <1>1, <1>3, <2>1, <2>3
<1>4. ASSUME e = NoStats /\ p = NoStats /\ w # NoStats PROVE FindQueryEnd(offset, sql) = w
  <2>1. found = {3}
    BY <1>4
  <2>2. (CHOOSE i \in found : \A j \in found : i <= j) = 3
    BY <2>1
  <2> QED
    BY <1>1, <1>4, <2>1, <2>2
<1>5. ASSUME e = NoStats /\ p = NoStats /\ w = NoStats PROVE FindQueryEnd(offset, sql) = w
  <2>1. found = {}
    BY <1>5
  <2> QED
    BY <1>1, <1>5, <2>1
<1> QED
  BY <1>2, <1>3, <1>4, <1>5 DEF e, p, w

\* What it finds was logged after the offset.
LEMMA FoundIsLater ==
    ASSUME NEW Words, StatsTypes(Words), NEW offset \in Nat, offset <= Len(qlog), NEW sql
    PROVE  \/ FindQueryEnd(offset, sql) = NoStats
           \/ \E k \in DOMAIN qlog :
                 k > offset /\ FindQueryEnd(offset, sql) = [id |-> qlog[k].id, prep |-> qlog[k].prep]
<1> DEFINE n == Len(qlog) - offset
<1>1. n \in Nat /\ DOMAIN Seen(offset) = 1 .. n
  BY SeenIsTail
<1>2. ASSUME NEW hits, hits \subseteq DOMAIN Seen(offset)
      PROVE  \/ LastOf(Seen(offset), hits) = NoStats
             \/ \E k \in DOMAIN qlog :
                   /\ k > offset
                   /\ LastOf(Seen(offset), hits) = [id |-> qlog[k].id, prep |-> qlog[k].prep]
  <2>1. CASE hits = {}
    BY <2>1 DEF LastOf
  <2>2. CASE hits # {}
    <3>1. PICK i \in hits : LastOf(Seen(offset), hits)
                                 = [id |-> Seen(offset)[i].id, prep |-> Seen(offset)[i].prep]
      BY <1>1, <1>2, <2>2, LastOfIsHit
    <3>2. /\ Seen(offset)[i] = qlog[offset + i]
          /\ offset + i \in DOMAIN qlog /\ offset + i > offset
      BY <1>2, SeenIsTail
    <3> QED
      BY <3>1, <3>2
  <2> QED
    BY <2>1, <2>2
<1>3. /\ Executions(offset, sql) \subseteq DOMAIN Seen(offset)
      /\ Prepares(offset, sql) \subseteq DOMAIN Seen(offset)
      /\ Everything(offset) \subseteq DOMAIN Seen(offset)
  BY DEF Executions, Prepares, Everything
<1>4. \/ FindQueryEnd(offset, sql) = LastOf(Seen(offset), Executions(offset, sql))
      \/ FindQueryEnd(offset, sql) = LastOf(Seen(offset), Prepares(offset, sql))
      \/ FindQueryEnd(offset, sql) = LastOf(Seen(offset), Everything(offset))
  BY FindInTurn
<1> QED
  BY <1>2, <1>3, <1>4

\* A statement matches its entry, cut off or not.
LEMMA MatchesItsEntry ==
    ASSUME NEW Words, NEW sql \in Seq(Words), TruncLen \in Nat
    PROVE  Truncated(sql) \in Seq(Words) /\ MatchesText(sql, Truncated(sql))
<1>1. CASE Len(sql) > TruncLen
  <2>1. TruncLen \in 0 .. Len(sql) /\ \A i \in 1 .. TruncLen : sql[i] \in Words
    BY <1>1
  <2> DEFINE cut == SubSeq(sql, 1, TruncLen)
  <2>2. cut \in Seq(Words) /\ Len(cut) = TruncLen
    BY <1>1, <2>1
  <2>3. SubSeq(cut, 1, Len(cut)) = cut
    BY <2>2
  <2>4. IsPrefix(cut, sql)
    BY <1>1, <2>2, <2>3 DEF IsPrefix
  <2> QED
    BY <1>1, <2>2, <2>4 DEF Truncated, MatchesText
<1>2. CASE ~(Len(sql) > TruncLen)
  <2>1. Truncated(sql) = sql
    BY <1>2 DEF Truncated
  <2>2. IsPrefix(sql, sql)
    BY DEF IsPrefix
  <2> QED
    BY <2>1, <2>2 DEF MatchesText
<1> QED
  BY <1>1, <1>2

\* When only one statement was logged and its execution was, that is what is found.
LEMMA FoundIsExecution ==
    ASSUME NEW Words, StatsTypes(Words), NEW offset \in Nat, offset <= Len(qlog),
           NEW sql \in Seq(Words), TruncLen \in Nat, NEW id \in Nat \ {0},
           \A k \in DOMAIN qlog : k > offset => qlog[k].id = id,
           \E k \in DOMAIN qlog : k > offset /\ ~qlog[k].prep /\ qlog[k].text = Truncated(sql)
    PROVE  FindQueryEnd(offset, sql) = [id |-> id, prep |-> FALSE]
<1> DEFINE n == Len(qlog) - offset
           e == LastOf(Seen(offset), Executions(offset, sql))
<1>1. n \in Nat /\ DOMAIN Seen(offset) = 1 .. n
  BY SeenIsTail
<1>2. PICK k \in DOMAIN qlog : k > offset /\ ~qlog[k].prep /\ qlog[k].text = Truncated(sql)
  OBVIOUS
<1>3. k - offset \in 1 .. n /\ offset + (k - offset) = k
  BY <1>2 DEF StatsTypes
<1>4. Seen(offset)[k - offset] = qlog[k]
  BY <1>1, <1>3, SeenIsTail
<1>5. k - offset \in Executions(offset, sql)
  BY <1>1, <1>2, <1>3, <1>4, MatchesItsEntry DEF Executions
<1>6. Executions(offset, sql) \subseteq 1 .. n
  BY <1>1 DEF Executions
<1>7. PICK i \in Executions(offset, sql) :
          e = [id |-> Seen(offset)[i].id, prep |-> Seen(offset)[i].prep]
  <2> HIDE DEF n
  <2> QED
    BY <1>1, <1>5, <1>6, LastOfIsHit
<1>8. i \in DOMAIN Seen(offset) /\ ~Seen(offset)[i].prep
  BY <1>7 DEF Executions
<1>9. /\ Seen(offset)[i] = qlog[offset + i]
      /\ offset + i \in DOMAIN qlog /\ offset + i > offset
  BY <1>8, SeenIsTail
<1>10. Seen(offset)[i].id = id
  BY <1>9
<1>11. Seen(offset)[i].prep = FALSE
  <2>1. qlog[offset + i] \in EntryType(Words)
    BY <1>9 DEF StatsTypes
  <2>2. qlog[offset + i].prep \in BOOLEAN
    BY <2>1 DEF EntryType
  <2> QED
    BY <1>8, <1>9, <2>2
<1>12. e = [id |-> id, prep |-> FALSE]
  BY <1>7, <1>10, <1>11
<1>13. e # NoStats
  BY <1>12 DEF NoStats
<1> QED
  BY <1>12, <1>13, FindInTurn

LEMMA LogGrows ==
    ASSUME NEW Words, StatsTypes(Words), NEW e \in EntryType(Words), qlog' = Append(qlog, e)
    PROVE  /\ qlog' \in Seq(EntryType(Words)) /\ Len(qlog) \in Nat
           /\ Len(qlog') = Len(qlog) + 1
           /\ \A k \in DOMAIN qlog' : k <= Len(qlog) => k \in DOMAIN qlog /\ qlog'[k] = qlog[k]
           /\ \A k \in DOMAIN qlog' : k > Len(qlog) => k = Len(qlog) + 1 /\ qlog'[k] = e
           /\ \A k \in DOMAIN qlog : k \in DOMAIN qlog' /\ qlog'[k] = qlog[k] /\ k <= Len(qlog)
           /\ Len(qlog) + 1 \in DOMAIN qlog' /\ qlog'[Len(qlog) + 1] = e
  BY DEF StatsTypes

\* Switching the statistics on or off, and taking the token.
LEMMA TokenDropped ==
    ASSUME NEW Words, StatsInv(Words), qlog' = qlog, qstats' \in ConnType(Words),
           qstats'.pending \in {qstats.pending, NoToken},
           qstats'.sent = qstats.sent, qstats'.unread = qstats.unread,
           qstats'.others = qstats.others
    PROVE  (StatsTypes(Words) /\ TokensInOrder /\ LaterIsNotOlder /\ OnlyThisStatement)'
<1>1. StatsTypes(Words)'
  BY DEF StatsInv, StatsTypes
<1>2. CASE qstats'.pending = qstats.pending
  BY <1>1, <1>2 DEF StatsInv, TokensInOrder, LaterIsNotOlder, OnlyThisStatement, NoResultOpen
<1>3. CASE qstats'.pending = NoToken
  <2>1. Len(qlog) \in Nat /\ qstats.sent \in Nat
    BY DEF StatsInv, StatsTypes, ConnType
  <2>2. TokensInOrder'
    BY <1>3, <2>1 DEF StatsInv, TokensInOrder, NoToken, NoResultOpen
  <2>3. LaterIsNotOlder'
    <3>1. \A k \in DOMAIN qlog' : qlog'[k] \in EntryType(Words)
      BY <1>1 DEF StatsTypes
    <3>2. \A k \in DOMAIN qlog' : qlog'[k].id \in Int
      BY <3>1 DEF EntryType
    <3> QED
      BY <1>3, <3>2 DEF LaterIsNotOlder, NoToken
  <2>4. OnlyThisStatement'
    BY <1>3 DEF OnlyThisStatement
  <2> QED
    BY <1>1, <2>2, <2>3, <2>4
<1> QED
  BY <1>2, <1>3

\* A new statement is sent: it is pending, or an earlier one stays so.
LEMMA StatementSent ==
    ASSUME NEW Words, StatsConstants(Words), StatsInv(Words), NoResultOpen, NEW text \in Texts,
           NEW prep \in BOOLEAN, qlog' = Append(qlog, Entry(qstats.sent + 1, text, prep)),
           qstats' \in ConnType(Words), qstats'.sent = qstats.sent + 1,
           qstats'.pending \in {qstats.pending, StatsBeforeQuery(text)},
           qstats'.unread = IF prep THEN StatsBeforeQuery(text) ELSE NoToken,
           qstats'.others = qstats.others
    PROVE  (StatsTypes(Words) /\ TokensInOrder /\ LaterIsNotOlder /\ OnlyThisStatement)'
<1> DEFINE e == Entry(qstats.sent + 1, text, prep)
           b == StatsBeforeQuery(text)
<1>1. /\ qstats.sent \in Nat /\ qstats.pending \in TokenType(Words)
      /\ qstats.pending.id \in Nat /\ qstats.pending.offset \in Nat
  BY DEF StatsInv, StatsTypes, ConnType, TokenType
<1>2. e \in EntryType(Words) /\ e.id = qstats.sent + 1 /\ e.text = Truncated(text)
      /\ (~prep => ~e.prep)
  BY <1>1, MatchesItsEntry DEF Entry, EntryType, StatsConstants
<1>3. b.id = qstats.sent + 1 /\ b.text = text /\ b.offset = Len(qlog) /\ b # NoToken
  BY <1>1 DEF StatsBeforeQuery, NoToken
<1> HIDE DEF e, b
<1>4. qlog' = Append(qlog, e) /\ qstats'.pending \in {qstats.pending, b}
      /\ qstats'.unread = IF prep THEN b ELSE NoToken
  BY DEF e, b
<1>5. /\ qlog' \in Seq(EntryType(Words)) /\ Len(qlog) \in Nat
      /\ Len(qlog') = Len(qlog) + 1
      /\ \A k \in DOMAIN qlog' : k <= Len(qlog) => k \in DOMAIN qlog /\ qlog'[k] = qlog[k]
      /\ \A k \in DOMAIN qlog' : k > Len(qlog) => k = Len(qlog) + 1 /\ qlog'[k] = e
      /\ Len(qlog) + 1 \in DOMAIN qlog' /\ qlog'[Len(qlog) + 1] = e
      /\ \A k \in DOMAIN qlog' : k \in Nat
  BY <1>2, <1>4, LogGrows DEF StatsInv
<1>6. StatsTypes(Words)'
  BY <1>5 DEF StatsTypes
<1>7. CASE qstats'.pending = b
  <2>1. TokensInOrder'
    BY <1>1, <1>3, <1>4, <1>5, <1>7 DEF TokensInOrder, NoResultOpen
  <2>2. \A k \in DOMAIN qlog' : k > Len(qlog) => qlog'[k].id = qstats.sent + 1
    BY <1>2, <1>5
  <2>3. LaterIsNotOlder'
    BY <1>1, <1>3, <1>7, <2>2 DEF LaterIsNotOlder
  <2>4. ASSUME NoResultOpen' PROVE ~prep
    BY <1>3, <1>4, <2>4 DEF NoResultOpen
  <2>5. ASSUME NoResultOpen'
        PROVE  \E k \in DOMAIN qlog' : /\ k > Len(qlog) /\ ~qlog'[k].prep
                                       /\ qlog'[k].text = Truncated(text)
    BY <1>2, <1>5, <2>4, <2>5
  <2>6. OnlyThisStatement'
    BY <1>3, <1>7, <2>2, <2>5 DEF OnlyThisStatement, Truncated
  <2> QED
    BY <1>6, <2>1, <2>3, <2>6
<1>8. CASE qstats'.pending = qstats.pending
  <2>1. qstats.pending.id <= qstats.sent /\ qstats.pending.offset <= Len(qlog)
        /\ (qstats.pending.id = 0 => qstats.pending = NoToken)
    BY DEF StatsInv, TokensInOrder
  <2>2. TokensInOrder'
    BY <1>1, <1>3, <1>4, <1>5, <1>8, <2>1 DEF TokensInOrder, NoResultOpen
  <2>3. LaterIsNotOlder'
    <3>1. SUFFICES ASSUME NEW k \in DOMAIN qlog', k > qstats.pending.offset, qlog'[k].id > 0
                   PROVE  qlog'[k].id >= qstats.pending.id
      BY <1>8 DEF LaterIsNotOlder
    <3>2. CASE k <= Len(qlog)
      BY <1>5, <3>1, <3>2 DEF StatsInv, LaterIsNotOlder
    <3>3. CASE k > Len(qlog)
      BY <1>1, <1>2, <1>5, <2>1, <3>3
    <3> QED
      BY <1>5, <3>2, <3>3
  <2>4. OnlyThisStatement'
    BY <1>1, <1>8, <2>1 DEF OnlyThisStatement
  <2> QED
    BY <1>6, <2>2, <2>3, <2>4
<1> QED
  BY <1>4, <1>7, <1>8

\* The result of the last statement is read.
LEMMA ResultConsumed ==
    ASSUME NEW Words, StatsConstants(Words), StatsInv(Words), ConsumeResult
    PROVE  (StatsTypes(Words) /\ TokensInOrder /\ LaterIsNotOlder /\ OnlyThisStatement)'
<1> DEFINE e == Entry(qstats.unread.id, qstats.unread.text, FALSE)
<1>1. /\ qstats \in ConnType(Words) /\ qstats.sent \in Nat /\ qstats.pending \in TokenType(Words)
      /\ qstats.pending.id \in Nat /\ qstats.pending.offset \in Nat
      /\ qstats.unread.id \in Nat /\ qstats.unread.text \in Seq(Words)
  BY DEF StatsInv, StatsTypes, ConnType, TokenType
<1>2. e \in EntryType(Words) /\ e.id = qstats.unread.id /\ ~e.prep
      /\ e.text = Truncated(qstats.unread.text)
  BY <1>1, MatchesItsEntry DEF Entry, EntryType, StatsConstants
<1>3. qlog' = Append(qlog, e) /\ qstats.unread # NoToken
  BY DEF ConsumeResult, NoResultOpen
<1>4. /\ qstats' \in ConnType(Words) /\ qstats'.sent = qstats.sent
      /\ qstats'.pending = qstats.pending /\ qstats'.unread = NoToken
      /\ qstats'.others = qstats.others
  <2>1. NoToken \in TokenType(Words)
    BY DEF NoToken, TokenType
  <2> QED
    BY <1>1, <2>1 DEF ConsumeResult, ConnType
<1> HIDE DEF e
<1>5. /\ qlog' \in Seq(EntryType(Words)) /\ Len(qlog) \in Nat
      /\ Len(qlog') = Len(qlog) + 1
      /\ \A k \in DOMAIN qlog' : k <= Len(qlog) => k \in DOMAIN qlog /\ qlog'[k] = qlog[k]
      /\ \A k \in DOMAIN qlog' : k > Len(qlog) => k = Len(qlog) + 1 /\ qlog'[k] = e
      /\ Len(qlog) + 1 \in DOMAIN qlog' /\ qlog'[Len(qlog) + 1] = e
      /\ \A k \in DOMAIN qlog' : k \in Nat
  BY <1>2, <1>3, LogGrows DEF StatsInv
<1>6. StatsTypes(Words)'
  BY <1>4, <1>5 DEF StatsTypes
<1>7. /\ qstats.pending.id <= qstats.sent /\ qstats.pending.offset <= Len(qlog)
      /\ (qstats.pending.id = 0 => qstats.pending = NoToken)
      /\ qstats.unread.id = qstats.sent
      /\ qstats.pending.id = qstats.sent /\ qstats.sent > 0
            => qstats.unread.text = qstats.pending.text
  BY <1>3 DEF StatsInv, TokensInOrder, NoResultOpen
<1>8. TokensInOrder'
  BY <1>1, <1>4, <1>5, <1>7 DEF TokensInOrder, NoResultOpen
<1>9. LaterIsNotOlder'
  <2>1. SUFFICES ASSUME NEW k \in DOMAIN qlog', k > qstats.pending.offset, qlog'[k].id > 0
                 PROVE  qlog'[k].id >= qstats.pending.id
    BY <1>4 DEF LaterIsNotOlder
  <2>2. CASE k <= Len(qlog)
    BY <1>5, <2>1, <2>2 DEF StatsInv, LaterIsNotOlder
  <2>3. CASE k > Len(qlog)
    BY <1>1, <1>2, <1>5, <1>7, <2>3
  <2> QED
    BY <1>5, <2>2, <2>3
<1>10. OnlyThisStatement'
  <2>1. SUFFICES ASSUME ~qstats.others, qstats.pending # NoToken, qstats.pending.id = qstats.sent
                 PROVE  /\ \A k \in DOMAIN qlog' : k > qstats.pending.offset
                                                   => qlog'[k].id = qstats.sent
                        /\ \E k \in DOMAIN qlog' :
                              /\ k > qstats.pending.offset /\ ~qlog'[k].prep
                              /\ qlog'[k].text = Truncated(qstats.pending.text)
    BY <1>4 DEF OnlyThisStatement, Truncated
  <2>2. \A k \in DOMAIN qlog : k > qstats.pending.offset => qlog[k].id = qstats.sent
    BY <2>1 DEF StatsInv, OnlyThisStatement
  <2>3. qstats.unread.text = qstats.pending.text
    BY <1>1, <1>7, <2>1
  <2>4. \A k \in DOMAIN qlog' : k > qstats.pending.offset => qlog'[k].id = qstats.sent
    BY <1>2, <1>5, <1>7, <2>2
  <2>5. Len(qlog) + 1 > qstats.pending.offset
    BY <1>1, <1>5, <1>7
  <2> QED
    BY <1>2, <1>5, <2>3, <2>4, <2>5
<1> QED
  BY <1>6, <1>8, <1>9, <1>10

\* Another client's statement is logged.
LEMMA OtherLogged ==
    ASSUME NEW Words, StatsConstants(Words), StatsInv(Words), NEW text \in Texts, OtherClient(text)
    PROVE  (StatsTypes(Words) /\ TokensInOrder /\ LaterIsNotOlder /\ OnlyThisStatement)'
<1> DEFINE e == Entry(-1, text, FALSE)
<1>1. /\ qstats \in ConnType(Words) /\ qstats.pending.offset \in Nat
  BY DEF StatsInv, StatsTypes, ConnType, TokenType
<1>2. e \in EntryType(Words) /\ e.id = -1
  BY MatchesItsEntry DEF Entry, EntryType, StatsConstants
<1>3. qlog' = Append(qlog, e)
  BY DEF OtherClient
<1>4. /\ qstats' \in ConnType(Words) /\ qstats'.sent = qstats.sent
      /\ qstats'.pending = qstats.pending /\ qstats'.unread = qstats.unread
      /\ qstats'.others
  BY <1>1 DEF OtherClient, ConnType
<1> HIDE DEF e
<1>5. /\ qlog' \in Seq(EntryType(Words)) /\ Len(qlog) \in Nat
      /\ Len(qlog') = Len(qlog) + 1
      /\ \A k \in DOMAIN qlog' : k <= Len(qlog) => k \in DOMAIN qlog /\ qlog'[k] = qlog[k]
      /\ \A k \in DOMAIN qlog' : k > Len(qlog) => k = Len(qlog) + 1 /\ qlog'[k] = e
      /\ \A k \in DOMAIN qlog' : k \in Nat
  BY <1>2, <1>3, LogGrows DEF StatsInv
<1>6. StatsTypes(Words)'
  BY <1>4, <1>5 DEF StatsTypes
<1>7. TokensInOrder'
  BY <1>1, <1>4, <1>5 DEF StatsInv, TokensInOrder, NoResultOpen
<1>8. LaterIsNotOlder'
  BY <1>2, <1>4, <1>5 DEF StatsInv, LaterIsNotOlder
<1>9. OnlyThisStatement'
  BY <1>4 DEF OnlyThisStatement
<1> QED
  BY <1>6, <1>7, <1>8, <1>9

\* last_query_stats reports what the log holds of the token's statement.
LEMMA ReportBelongs ==
    ASSUME NEW Words, StatsConstants(Words), StatsInv(Words), LastQueryStats
    PROVE  StatsBelong'
<1> DEFINE t == qstats.pending
           r == FindQueryEnd(t.offset, t.text)
<1>1. /\ t.id \in Nat /\ t.offset \in Nat /\ t.text \in Seq(Words) /\ qstats.sent \in Nat
      /\ t.offset <= Len(qlog) /\ (t.id = 0 => t = NoToken) /\ t # NoToken
      /\ StatsTypes(Words) /\ TruncLen \in Nat
  BY DEF StatsInv, StatsTypes, ConnType, TokenType, TokensInOrder, LastQueryStats, StatsConstants
<1>2. /\ qreport'.stats = r /\ qreport'.asked = t
      /\ qreport'.complete => NoResultOpen /\ ~qstats.others /\ t.id = qstats.sent
  BY DEF LastQueryStats
<1>3. r = NoStats \/ \E k \in DOMAIN qlog : k > t.offset /\ r = [id |-> qlog[k].id, prep |-> qlog[k].prep]
  BY <1>1, FoundIsLater
<1>4. StatsAreNotOlder'
  <2>1. CASE r = NoStats
    BY <1>2, <2>1 DEF StatsAreNotOlder, NoStats
  <2>2. CASE r # NoStats
    <3>1. PICK k \in DOMAIN qlog : k > t.offset /\ r = [id |-> qlog[k].id, prep |-> qlog[k].prep]
      BY <1>3, <2>2
    <3>2. r.id = qlog[k].id
      BY <3>1
    <3>3. qlog[k].id > 0 => qlog[k].id >= t.id
      BY <3>1 DEF StatsInv, LaterIsNotOlder
    <3> QED
      BY <1>2, <3>2, <3>3 DEF StatsAreNotOlder
  <2> QED
    BY <2>1, <2>2
<1>5. ASSUME qreport'.complete PROVE qreport'.stats = [id |-> qreport'.asked.id, prep |-> FALSE]
  <2>1. /\ \A k \in DOMAIN qlog : k > t.offset => qlog[k].id = t.id
        /\ \E k \in DOMAIN qlog : k > t.offset /\ ~qlog[k].prep /\ qlog[k].text = Truncated(t.text)
    BY <1>1, <1>2, <1>5 DEF StatsInv, OnlyThisStatement
  <2>2. t.id \in Nat \ {0}
    BY <1>1
  <2> HIDE DEF t
  <2>3. FindQueryEnd(t.offset, t.text) = [id |-> t.id, prep |-> FALSE]
    BY <1>1, <2>1, <2>2, FoundIsExecution
  <2> QED
    BY <1>2, <2>3
<1> QED
  BY <1>4, <1>5 DEF StatsBelong, StatsAreOfTheExecution

LEMMA StatsStart == ASSUME NEW Words, QInit PROVE StatsInv(Words)
<1>1. /\ qlog = <<>> /\ Len(qlog) = 0 /\ DOMAIN qlog = {} /\ qlog \in Seq(EntryType(Words))
      /\ NoToken \in TokenType(Words)
  BY DEF QInit, NoToken, TokenType
<1>2. StatsTypes(Words)
  BY <1>1 DEF QInit, StatsTypes, ConnType
<1>3. /\ qstats.pending = NoToken /\ qstats.unread = NoToken /\ qstats.sent = 0
      /\ qreport.stats = NoStats /\ qreport.complete = FALSE
  BY DEF QInit
<1>4. TokensInOrder /\ LaterIsNotOlder /\ OnlyThisStatement
  BY <1>1, <1>3 DEF TokensInOrder, LaterIsNotOlder, OnlyThisStatement, NoToken, NoResultOpen
<1>5. StatsBelong
  BY <1>3 DEF StatsBelong, StatsAreNotOlder, StatsAreOfTheExecution, NoStats
<1> QED
  BY <1>2, <1>4, <1>5 DEF StatsInv

LEMMA StatsStep ==
    ASSUME NEW Words, StatsConstants(Words), StatsInv(Words), QNext
    PROVE  StatsInv(Words)'
<1> DEFINE Rest == StatsTypes(Words) /\ TokensInOrder /\ LaterIsNotOlder /\ OnlyThisStatement
<1>1. /\ qstats \in ConnType(Words) /\ qstats.pending \in TokenType(Words) /\ qstats.sent \in Nat
      /\ NoToken \in TokenType(Words) /\ Len(qlog) \in Nat
  BY DEF StatsInv, StatsTypes, ConnType, NoToken, TokenType
<1>2. \A text \in Texts : StatsBeforeQuery(text) \in TokenType(Words)
  BY <1>1 DEF StatsBeforeQuery, TokenType, StatsConstants
<1>3. ASSUME qreport' = qreport PROVE StatsBelong'
  BY <1>3 DEF StatsInv, StatsBelong, StatsAreNotOlder, StatsAreOfTheExecution
<1>4. CASE EnableQueryStats \/ DisableQueryStats
  <2>1. /\ qstats' \in ConnType(Words) /\ qstats'.pending \in {qstats.pending, NoToken}
        /\ qstats'.sent = qstats.sent /\ qstats'.unread = qstats.unread
        /\ qstats'.others = qstats.others
    <3>1. CASE EnableQueryStats
      BY <1>1, <3>1 DEF EnableQueryStats, ConnType
    <3>2. CASE DisableQueryStats
      BY <1>1, <3>2 DEF DisableQueryStats, ConnType
    <3> QED
      BY <1>4, <3>1, <3>2
  <2>2. qlog' = qlog /\ qreport' = qreport
    BY <1>4 DEF EnableQueryStats, DisableQueryStats
  <2> QED
    BY <1>3, <2>1, <2>2, TokenDropped DEF StatsInv
<1>5. CASE LastQueryStats
  <2>1. /\ qstats' \in ConnType(Words) /\ qstats'.pending \in {qstats.pending, NoToken}
        /\ qstats'.sent = qstats.sent /\ qstats'.unread = qstats.unread
        /\ qstats'.others = qstats.others
    BY <1>1, <1>5 DEF LastQueryStats, ConnType
  <2>2. qlog' = qlog
    BY <1>5 DEF LastQueryStats
  <2> QED
    BY <1>5, <2>1, <2>2, TokenDropped, ReportBelongs DEF StatsInv
<1>6. CASE ConsumeResult
  BY <1>3, <1>6, ResultConsumed DEF StatsInv, ConsumeResult
<1>7. ASSUME NEW text \in Texts, RunCommand(text) \/ RunQuery(text) \/ RunQueryFails(text)
      PROVE  StatsInv(Words)'
  <2>1. PICK prep \in BOOLEAN :
          /\ qlog' = Append(qlog, Entry(qstats.sent + 1, text, prep))
          /\ qstats' \in ConnType(Words) /\ qstats'.sent = qstats.sent + 1
          /\ qstats'.pending \in {qstats.pending, StatsBeforeQuery(text)}
          /\ qstats'.unread = IF prep THEN StatsBeforeQuery(text) ELSE NoToken
          /\ qstats'.others = qstats.others
    <3> DEFINE b == StatsBeforeQuery(text)
    <3>1. b \in TokenType(Words)
      BY <1>2
    <3>2. CASE RunCommand(text)
      <4>1. qstats' = [qstats EXCEPT !.sent = @ + 1, !.pending = StatsStorePending(b)]
        BY <3>2 DEF RunCommand
      <4>2. StatsStorePending(b) \in {qstats.pending, b}
        BY DEF StatsStorePending
      <4>3. /\ qlog' = Append(qlog, Entry(qstats.sent + 1, text, FALSE)) /\ qstats.unread = NoToken
        BY <3>2 DEF RunCommand, NoResultOpen
      <4> DEFINE n == qstats.sent + 1
                 q == StatsStorePending(b)
      <4> HIDE DEF b, q
      <4>4. q \in TokenType(Words) /\ n \in Nat
        BY <1>1, <3>1, <4>2 DEF q
      <4> HIDE DEF n
      <4>5. qstats' = [qstats EXCEPT !.sent = n, !.pending = q]
        BY <4>1 DEF n, q
      <4>6. /\ qstats' \in ConnType(Words) /\ qstats'.sent = n
            /\ qstats'.pending = q /\ qstats'.unread = NoToken
            /\ qstats'.others = qstats.others
        BY <1>1, <3>1, <4>4, <4>3, <4>5 DEF ConnType
      <4>7. /\ qstats' \in ConnType(Words) /\ qstats'.sent = qstats.sent + 1
            /\ qstats'.pending \in {qstats.pending, b} /\ qstats'.unread = NoToken
            /\ qstats'.others = qstats.others
        BY <4>2, <4>6 DEF n, q
      <4> QED
        BY <4>3, <4>7 DEF b
    <3>3. CASE RunQuery(text)
      <4>1. qstats' = [qstats EXCEPT !.sent = @ + 1, !.pending = StatsStorePending(b), !.unread = b]
        BY <3>3 DEF RunQuery
      <4>2. StatsStorePending(b) \in {qstats.pending, b}
        BY DEF StatsStorePending
      <4>3. /\ qlog' = Append(qlog, Entry(qstats.sent + 1, text, TRUE))
        BY <3>3 DEF RunQuery
      <4> DEFINE n == qstats.sent + 1
                 q == StatsStorePending(b)
      <4> HIDE DEF b, q
      <4>4. q \in TokenType(Words) /\ n \in Nat
        BY <1>1, <3>1, <4>2 DEF q
      <4> HIDE DEF n
      <4>5. qstats' = [qstats EXCEPT !.sent = n, !.pending = q, !.unread = b]
        BY <4>1 DEF n, q
      <4>6. /\ qstats' \in ConnType(Words) /\ qstats'.sent = n
            /\ qstats'.pending = q /\ qstats'.unread = b
            /\ qstats'.others = qstats.others
        BY <1>1, <3>1, <4>4, <4>3, <4>5 DEF ConnType
      <4>7. /\ qstats' \in ConnType(Words) /\ qstats'.sent = qstats.sent + 1
            /\ qstats'.pending \in {qstats.pending, b} /\ qstats'.unread = b
            /\ qstats'.others = qstats.others
        BY <4>2, <4>6 DEF n, q
      <4> QED
        BY <4>3, <4>7 DEF b
    <3>4. CASE RunQueryFails(text)
      <4>1. /\ qstats' = [qstats EXCEPT !.sent = @ + 1] /\ qstats.unread = NoToken
            /\ qlog' = Append(qlog, Entry(qstats.sent + 1, text, FALSE))
        BY <3>4 DEF RunQueryFails, NoResultOpen
      <4>2. /\ qstats' \in ConnType(Words) /\ qstats'.sent = qstats.sent + 1
            /\ qstats'.pending = qstats.pending /\ qstats'.unread = NoToken
            /\ qstats'.others = qstats.others
        BY <1>1, <4>1 DEF ConnType
      <4> QED
        BY <4>1, <4>2
    <3> QED
      BY <1>7, <3>2, <3>3, <3>4
  <2>2. NoResultOpen /\ qreport' = qreport
    BY <1>7 DEF RunCommand, RunQuery, RunQueryFails
  <2>3. Rest'
    BY <2>1, <2>2, StatementSent
  <2> QED
    BY <1>3, <2>2, <2>3 DEF StatsInv
<1>8. ASSUME NEW text \in Texts, OtherClient(text) PROVE StatsInv(Words)'
  BY <1>3, <1>8, OtherLogged DEF StatsInv, OtherClient
<1> QED
  BY <1>4, <1>5, <1>6, <1>7, <1>8 DEF QNext

\* Whatever statements this and other clients run and however the log cuts
\* them off (query_stats.rs): the statistics a caller gets are never those of an
\* earlier statement, and asked for once the result was read, with nobody else
\* on the server, they are those of that very execution.
THEOREM StatsAlwaysBelong ==
    ASSUME NEW Words, StatsConstants(Words)
    PROVE  QSpec => []StatsBelong
<1>1. QInit => StatsInv(Words)
  BY StatsStart
<1>2. StatsInv(Words) /\ [QNext]_qVars => StatsInv(Words)'
  <2>1. SUFFICES ASSUME StatsInv(Words), [QNext]_qVars PROVE StatsInv(Words)'
    OBVIOUS
  <2>2. CASE UNCHANGED qVars
    BY <2>1, <2>2
    DEF qVars, StatsInv, StatsTypes, TokensInOrder, LaterIsNotOlder, OnlyThisStatement, NoResultOpen,
        StatsBelong, StatsAreNotOlder, StatsAreOfTheExecution
  <2> QED
    BY <2>1, <2>2, StatsStep
<1>3. StatsInv(Words) => StatsBelong
  BY DEF StatsInv
<1> QED
  BY <1>1, <1>2, <1>3, PTL DEF QSpec

-----------------------------------------------------------------------------
(* The resources of the MCP server                                         *)

ToolCalls ==
    {NoCall} \cup [op : {"load"}, t : Tables, replace : BOOLEAN]
             \cup [op : {"execute"}, structural : BOOLEAN]
             \cup [op : {"save", "delete"}, q : Queries]
ClientCalls ==
    {NoCall} \cup [op : {"result"}, q : Queries, sql : Nat, told : BOOLEAN]
             \cup [op : {"list"}, told : BOOLEAN, tables : SUBSET Tables]
Rows == [Queries -> Nat]
StoreType == [persistent : BOOLEAN, rows : Rows, table : BOOLEAN, initialized : BOOLEAN]
Copies == {Unread} \cup {<<n>> : n \in Nat} \cup {<<d>> : d \in [Tables -> Nat]}
ViewType == [seen : [Uris -> Copies], listed : SUBSET Uris, hasList : BOOLEAN, call : ClientCalls]
GhostType == [changes : Nat, confirmed : Rows, silent : SUBSET Tables]

ResTypes ==
    /\ data \in [Tables -> Nat]
    /\ saved \in StoreType
    /\ tool \in [Callers -> ToolCalls]
    /\ subs \subseteq Uris
    /\ view \in ViewType
    /\ ghost \in GhostType

\* What was sent and not acted on, or is about to be sent.
Pending == inbox \cup Coming

\* A copy is kept of what the client subscribed to, and it is current or the
\* client will hear of it.  Of a query that was there the client hears by the
\* URI; of one that was not, by a list.
TableTold(t, u) ==
    view.seen[u] # Unread => u \in subs /\ (view.seen[u] = <<data[t]>> \/ t \in ghost.silent \/ u \in Pending)
TablesTold == \A t \in Tables : TableTold(t, TableUri(t))
SummaryTold ==
    view.seen[Summary] # Unread => Summary \in subs /\ (view.seen[Summary] = <<data>> \/ Summary \in Pending)
QueryTold(q, u) ==
    view.seen[u] # Unread =>
        /\ u \in subs
        /\ \/ view.seen[u] = <<saved.rows[q]>>
           \/ u \in Pending
           \/ view.seen[u] = <<0>> /\ (ListChanged \in Pending \/ view.call.op = "list")
QueriesTold == \A q \in Queries : QueryTold(q, Definition(q)) /\ QueryTold(q, Result(q))

\* A result that is being read, and a list that is being put together, in the
\* middle of their two engine calls.
ReadTold ==
    view.call.op = "result" /\ view.call.told =>
        /\ Result(view.call.q) \in subs
        /\ view.call.sql # 0
        /\ view.call.sql = saved.rows[view.call.q] \/ Result(view.call.q) \in Pending
ListTold ==
    view.call.op = "list" /\ view.call.told =>
        /\ subs # {}
        /\ ListChanged \in Pending \/ \A t \in view.call.tables : data[t] # 0
ListedTold ==
    view.hasList =>
        /\ subs # {}
        /\ \/ ListChanged \in Pending
           \/ /\ \A q \in Queries : Definition(q) \in view.listed <=> saved.rows[q] # 0
              /\ \A t \in Tables : TableUri(t) \in view.listed => data[t] # 0

ClientTold == TablesTold /\ SummaryTold /\ QueriesTold /\ ReadTold /\ ListTold /\ ListedTold

ResInv == ResTypes /\ ClientTold /\ saved.rows = ghost.confirmed

-----------------------------------------------------------------------------
LEMMA UrisDiffer ==
    /\ Summary \in Uris /\ Summary # ListChanged
    /\ \A t \in Tables : /\ TableUri(t) \in Uris /\ TableUri(t) # Summary /\ TableUri(t) # ListChanged
                         /\ \A s \in Tables : TableUri(s) = TableUri(t) => s = t
                         /\ \A q \in Queries : TableUri(t) # Definition(q) /\ TableUri(t) # Result(q)
    /\ \A q \in Queries : /\ Definition(q) \in Uris /\ Definition(q) # Summary /\ Definition(q) # ListChanged
                          /\ Result(q) \in Uris /\ Result(q) # Summary /\ Result(q) # ListChanged
                          /\ \A p \in Queries : /\ Definition(p) = Definition(q) => p = q
                                                /\ Result(p) = Result(q) => p = q
                                                /\ Definition(p) # Result(q)
  <1>1. /\ Summary \in Uris
        /\ \A t \in Tables : TableUri(t) \in Uris
        /\ \A q \in Queries : Definition(q) \in Uris /\ Result(q) \in Uris
    BY DEF Uris, QueryUris
  <1>2. /\ Summary[1] = "summary" /\ ListChanged[1] = "list_changed"
        /\ \A t \in Tables : TableUri(t)[1] = "table" /\ TableUri(t)[2] = t
        /\ \A q \in Queries : /\ Definition(q)[1] = "definition" /\ Definition(q)[2] = q
                              /\ Result(q)[1] = "result" /\ Result(q)[2] = q
    BY DEF Summary, ListChanged, TableUri, Definition, Result
  <1> QED BY <1>1, <1>2

LEMMA UriKinds ==
  ASSUME NEW u \in Uris
  PROVE  \/ u = Summary /\ u[1] = "summary"
         \/ \E t \in Tables : u = TableUri(t) /\ u[1] = "table" /\ u[2] = t
         \/ \E q \in Queries : u = Definition(q) /\ u[1] = "definition" /\ u[2] = q
         \/ \E q \in Queries : u = Result(q) /\ u[1] = "result" /\ u[2] = q
  <1>1. \/ u = Summary
        \/ \E t \in Tables : u = TableUri(t)
        \/ \E q \in Queries : u = Definition(q) \/ u = Result(q)
    BY DEF Uris, QueryUris
  <1>2. Summary[1] = "summary" BY DEF Summary
  <1>3. \A t \in Tables : TableUri(t)[1] = "table" /\ TableUri(t)[2] = t BY DEF TableUri
  <1>4. \A q \in Queries : Definition(q)[1] = "definition" /\ Definition(q)[2] = q BY DEF Definition
  <1>5. \A q \in Queries : Result(q)[1] = "result" /\ Result(q)[2] = q BY DEF Result
  <1> QED BY <1>1, <1>2, <1>3, <1>4, <1>5

\* Making sure of the meta-table changes no row.
LEMMA EnsureTableKeepsRows ==
  ASSUME NEW s \in StoreType
  PROVE  /\ EnsureTable(s) \in StoreType /\ EnsureTable(s).rows = s.rows
         /\ EnsureTable(s).persistent = s.persistent
         /\ \A q \in Queries : Get(s, q) = s.rows[q]
         /\ ListQueries(s) = {q \in Queries : s.rows[q] # 0}
  <1>1. /\ EnsureTable(s) \in StoreType /\ EnsureTable(s).rows = s.rows
        /\ EnsureTable(s).persistent = s.persistent
    BY DEF EnsureTable, StoreType
  <1> QED BY <1>1 DEF Get, ListQueries

LEMMA StoreChanges ==
  ASSUME NEW s \in StoreType, NEW q \in Queries
  PROVE  /\ \A n \in Nat : Insert(s, q, n) \in StoreType /\ Insert(s, q, n).rows = [s.rows EXCEPT ![q] = n]
         /\ Remove1(s, q) \in StoreType /\ Remove1(s, q).rows = [s.rows EXCEPT ![q] = 0]
  <1> DEFINE e == EnsureTable(s)
  <1>1. e \in StoreType /\ e.rows = s.rows
    BY EnsureTableKeepsRows
  <1> HIDE DEF e
  <1>2. \A m \in Nat : /\ [e EXCEPT !.rows[q] = m] \in StoreType
                       /\ [e EXCEPT !.rows[q] = m].rows = [s.rows EXCEPT ![q] = m]
    BY <1>1 DEF StoreType, Rows
  <1>3. (\A n : Insert(s, q, n) = [e EXCEPT !.rows[q] = n]) /\ Remove1(s, q) = [e EXCEPT !.rows[q] = 0]
    BY DEF Insert, Remove1, e
  <1> QED BY <1>2, <1>3

-----------------------------------------------------------------------------
(* What is pending                                                         *)

LEMMA ComingFrom ==
  \A x : x \in Coming <=> \E c \in Callers : tool[c] # NoCall /\ x \in NotificationsOf(tool[c])
  BY DEF Coming

\* A tool has made its change and will send its notifications.
\* What a tool sends depends on the subscriptions only.
LEMMA NotificationsStay ==
  ASSUME UNCHANGED subs
  PROVE  \A o : NotificationsOf(o)' = NotificationsOf(o)
  BY DEF NotificationsOf, NotifyUpdated, NotifyListChanged, UrisForTableChange, UrisForWorkspaceChange

\* A tool has made its change and will send its notifications.
LEMMA PendingGrows ==
  ASSUME tool \in [Callers -> ToolCalls], NEW c \in Callers, NEW o \in ToolCalls, o # NoCall,
         tool[c] = NoCall, tool' = [tool EXCEPT ![c] = o], UNCHANGED <<subs, inbox>>
  PROVE  \A x : x \in Pending \/ x \in NotificationsOf(o) => x \in Pending'
  <1>1. \A a : NotificationsOf(a)' = NotificationsOf(a)
    BY NotificationsStay
  <1>2. ASSUME NEW x, x \in NotificationsOf(o) PROVE x \in Coming'
    <2>1. tool'[c] = o OBVIOUS
    <2>2. x \in NotificationsOf(tool[c])' BY <1>1, <1>2, <2>1
    <2> QED BY <2>1, <2>2 DEF Coming
  <1>3. ASSUME NEW x, x \in Coming PROVE x \in Coming'
    <2>1. PICK d \in Callers : tool[d] # NoCall /\ x \in NotificationsOf(tool[d])
      BY <1>3 DEF Coming
    <2>2. d # c /\ tool'[d] = tool[d] BY <2>1
    <2>3. x \in NotificationsOf(tool[d])' BY <1>1, <2>1, <2>2
    <2> QED BY <2>1, <2>2, <2>3 DEF Coming
  <1> QED BY <1>2, <1>3 DEF Pending

\* A tool sends its notifications.
LEMMA PendingMoves ==
  ASSUME tool \in [Callers -> ToolCalls], NEW c \in Callers, Notify(c)
  PROVE  \A x : x \in Pending => x \in Pending'
  <1>1. \A a : NotificationsOf(a)' = NotificationsOf(a)
    BY NotificationsStay DEF Notify
  <1>2. ASSUME NEW x, x \in Coming PROVE x \in inbox' \/ x \in Coming'
    <2>1. PICK d \in Callers : tool[d] # NoCall /\ x \in NotificationsOf(tool[d])
      BY <1>2 DEF Coming
    <2>2. CASE d = c BY <2>1, <2>2 DEF Notify
    <2>3. CASE d # c
      <3>1. tool'[d] = tool[d] BY <2>3 DEF Notify
      <3>2. x \in NotificationsOf(tool[d])' BY <1>1, <2>1, <3>1
      <3> QED BY <2>1, <3>1, <3>2 DEF Coming
    <2> QED BY <2>2, <2>3
  <1>3. ASSUME NEW x, x \in inbox PROVE x \in inbox' BY <1>3 DEF Notify
  <1> QED BY <1>2, <1>3 DEF Pending

\* The client acts on a notification.
LEMMA PendingTaken ==
  ASSUME NEW y, inbox' = inbox \ {y}, UNCHANGED <<tool, subs>>
  PROVE  \A x : x \in Pending /\ x # y => x \in Pending'
  <1>1. \A a : NotificationsOf(a)' = NotificationsOf(a)
    BY NotificationsStay
  <1>2. ASSUME NEW x, x \in Coming PROVE x \in Coming'
    <2>1. PICK d \in Callers : tool[d] # NoCall /\ x \in NotificationsOf(tool[d])
      BY <1>2 DEF Coming
    <2>2. x \in NotificationsOf(tool[d])' BY <1>1, <2>1
    <2> QED BY <2>1, <2>2 DEF Coming
  <1> QED BY <1>2 DEF Pending

LEMMA PendingStays ==
  ASSUME UNCHANGED <<inbox, tool, subs>>
  PROVE  \A x : x \in Pending => x \in Pending'
  <1>1. \A a : NotificationsOf(a)' = NotificationsOf(a)
    BY NotificationsStay
  <1>2. ASSUME NEW x, x \in Coming PROVE x \in Coming'
    <2>1. PICK d \in Callers : tool[d] # NoCall /\ x \in NotificationsOf(tool[d])
      BY <1>2 DEF Coming
    <2>2. x \in NotificationsOf(tool[d])' BY <1>1, <2>1
    <2> QED BY <2>1, <2>2 DEF Coming
  <1> QED BY <1>2 DEF Pending

\* Whether a call changes the list of resources, and the URIs it concerns.
ChangesList(o) ==
    \/ o.op \in {"save", "delete"}
    \/ o.op = "load" /\ o.replace
    \/ o.op = "execute" /\ o.structural
Concerned(o) ==
    CASE o.op = "load" -> {Summary, TableUri(o.t)}
      [] o.op = "execute" -> {Summary}
      [] o.op = "save" -> {}
      [] o.op = "delete" -> {Definition(o.q), Result(o.q)}

LEMMA NotificationsSent ==
  ASSUME NEW o \in ToolCalls, o # NoCall
  PROVE  /\ \A x : x \in NotificationsOf(o) <=>
                     \/ x = ListChanged /\ ChangesList(o) /\ subs # {}
                     \/ x \in Concerned(o) /\ x \in subs
         /\ \A x : x \in NotificationsOf(o)' <=>
                     \/ x = ListChanged /\ ChangesList(o) /\ subs' # {}
                     \/ x \in Concerned(o) /\ x \in subs'
  <1>1. CASE o.op = "load"
    BY <1>1 DEF NotificationsOf, NotifyUpdated, NotifyListChanged, UrisForTableChange, ChangesList, Concerned
  <1>2. CASE o.op = "execute"
    BY <1>2 DEF NotificationsOf, NotifyUpdated, NotifyListChanged, UrisForWorkspaceChange, ChangesList, Concerned
  <1>3. CASE o.op = "save"
    BY <1>3 DEF NotificationsOf, NotifyListChanged, ChangesList, Concerned
  <1>4. CASE o.op = "delete"
    BY <1>4 DEF NotificationsOf, NotifyUpdated, NotifyListChanged, QueryUris, ChangesList, Concerned
  <1>5. o.op \in {"load", "execute", "save", "delete"}
    BY DEF ToolCalls, NoCall
  <1> QED BY <1>1, <1>2, <1>3, <1>4, <1>5

\* The subscriptions change: what concerns those that stay is sent as before.
LEMMA PendingForOthers ==
  ASSUME tool \in [Callers -> ToolCalls], UNCHANGED tool, NEW x, x \in Coming,
         IF x = ListChanged THEN subs' # {} ELSE x \in subs'
  PROVE  x \in Coming'
  <1>1. PICK d \in Callers : tool[d] # NoCall /\ x \in NotificationsOf(tool[d])
    BY DEF Coming
  <1>2. PICK o \in ToolCalls : o = tool[d] OBVIOUS
  <1>3. ListChanged \notin Concerned(o)
    <2>1. CASE o.op = "load" BY <2>1, UrisDiffer DEF Concerned, ToolCalls, NoCall
    <2>2. CASE o.op = "execute" BY <2>2, UrisDiffer DEF Concerned
    <2>3. CASE o.op = "save" BY <2>3 DEF Concerned
    <2>4. CASE o.op = "delete" BY <2>4, UrisDiffer DEF Concerned, ToolCalls, NoCall
    <2>5. o.op \in {"load", "execute", "save", "delete"}
      BY <1>1, <1>2 DEF ToolCalls, NoCall
    <2> QED BY <2>1, <2>2, <2>3, <2>4, <2>5
  <1>4. x \in NotificationsOf(o)'
    <2>1. x \in NotificationsOf(o) /\ o # NoCall BY <1>1, <1>2
    <2> QED BY <1>3, <2>1, NotificationsSent
  <1> QED BY <1>1, <1>2, <1>4 DEF Coming

-----------------------------------------------------------------------------
(* Subscriptions and notifications                                         *)

\* Nothing the client looks at has changed, and what was pending still is.
LEMMA ToldStill ==
  ASSUME ClientTold, UNCHANGED <<data, view, ghost>>, saved'.rows = saved.rows,
         subs \subseteq subs', \A x : x \in Pending => x \in Pending'
  PROVE  ClientTold'
  <1>1. TablesTold' BY DEF ClientTold, TablesTold, TableTold
  <1>2. SummaryTold' BY DEF ClientTold, SummaryTold
  <1>3. QueriesTold' BY DEF ClientTold, QueriesTold, QueryTold
  <1>4. ReadTold' BY DEF ClientTold, ReadTold
  <1>5. ListTold' BY DEF ClientTold, ListTold
  <1>6. ListedTold' BY DEF ClientTold, ListedTold
  <1> QED BY <1>1, <1>2, <1>3, <1>4, <1>5, <1>6 DEF ClientTold

LEMMA SubscribeKeeps ==
  ASSUME ResInv, NEW u \in Uris, Subscribe(u)
  PROVE  ResInv'
  <1>1. /\ UNCHANGED <<data, saved, tool, inbox, view, ghost>> /\ subs' = subs \cup {u}
        /\ subs \subseteq Uris /\ tool \in [Callers -> ToolCalls]
    BY DEF Subscribe, ResInv, ResTypes
  <1>2. ResTypes' BY <1>1 DEF ResInv, ResTypes
  <1>3. ASSUME NEW x, x \in Coming PROVE x \in Coming'
    <2>1. x = ListChanged \/ x \in subs
      <3>1. PICK d \in Callers : tool[d] # NoCall /\ x \in NotificationsOf(tool[d])
        BY <1>3 DEF Coming
      <3>2. tool[d] \in ToolCalls BY <1>1
      <3> QED BY <3>1, <3>2, NotificationsSent
    <2>2. subs' # {} /\ subs \subseteq subs' BY <1>1
    <2> QED BY <1>1, <1>3, <2>1, <2>2, PendingForOthers
  <1>4. ClientTold'
    <2>1. \A x : x \in Pending => x \in Pending' BY <1>1, <1>3 DEF Pending
    <2> QED BY <1>1, <2>1, ToldStill DEF ResInv
  <1> QED BY <1>1, <1>2, <1>4 DEF ResInv

LEMMA NotifyKeeps ==
  ASSUME ResInv, NEW c \in Callers, Notify(c)
  PROVE  ResInv'
  <1>1. /\ UNCHANGED <<data, saved, subs, view, ghost>>
        /\ tool \in [Callers -> ToolCalls] /\ tool' \in [Callers -> ToolCalls]
    BY DEF Notify, ResInv, ResTypes, ToolCalls
  <1>2. ResTypes' BY <1>1 DEF ResInv, ResTypes
  <1>3. ClientTold' BY <1>1, PendingMoves, ToldStill DEF ResInv
  <1> QED BY <1>1, <1>2, <1>3 DEF ResInv

LEMMA UnsubscribeKeeps ==
  ASSUME ResInv, NEW u \in Uris, Unsubscribe(u)
  PROVE  ResInv'
  <1> DEFINE k == view.call
             seen == [view.seen EXCEPT ![u] = Unread]
             mute == (k.op = "list" /\ subs' = {}) \/ (k.op = "result" /\ u = Result(k.q))
             call == IF mute THEN [k EXCEPT !.told = FALSE] ELSE k
             has == view.hasList /\ subs' # {}
             listed == IF subs' = {} THEN {} ELSE view.listed
  <1>1. /\ UNCHANGED <<data, saved, tool, ghost>> /\ subs' = subs \ {u} /\ subs' \subseteq Uris
        /\ tool \in [Callers -> ToolCalls] /\ view \in ViewType /\ k \in ClientCalls
        /\ inbox' = (inbox \ {u}) \ (IF subs' = {} THEN {ListChanged} ELSE {})
    BY DEF Unsubscribe, ResInv, ResTypes, ViewType
  <1>2. view' = [view EXCEPT !.seen = seen, !.hasList = has, !.listed = listed, !.call = call]
    BY <1>1 DEF Unsubscribe, ViewType
  <1>3. seen \in [Uris -> Copies] /\ seen[u] = Unread /\ \A v \in Uris : v # u => seen[v] = view.seen[v]
    BY <1>1 DEF ViewType, Copies
  <1>4. /\ call \in ClientCalls /\ call.op = k.op
        /\ call.op \in {"result", "list"} /\ call.told => call = k /\ ~mute
    <2>1. CASE mute
      <3>1. k.op \in {"list", "result"} BY <2>1
      <3>2. call = [k EXCEPT !.told = FALSE] BY <2>1
      <3> HIDE DEF call, mute
      <3>3. CASE k.op = "list"
        <4>1. k \in [op : {"list"}, told : BOOLEAN, tables : SUBSET Tables]
          BY <1>1, <3>3 DEF ClientCalls, NoCall
        <4>2. call \in [op : {"list"}, told : BOOLEAN, tables : SUBSET Tables] /\ call.told = FALSE
          BY <3>2, <4>1
        <4> QED BY <3>3, <4>2 DEF ClientCalls
      <3>4. CASE k.op = "result"
        <4>1. k \in [op : {"result"}, q : Queries, sql : Nat, told : BOOLEAN]
          BY <1>1, <3>4 DEF ClientCalls, NoCall
        <4>2. call \in [op : {"result"}, q : Queries, sql : Nat, told : BOOLEAN] /\ call.told = FALSE
          BY <3>2, <4>1
        <4> QED BY <3>4, <4>2 DEF ClientCalls
      <3> QED BY <2>1, <3>1, <3>3, <3>4
    <2>2. CASE ~mute BY <1>1, <2>2
    <2> QED BY <2>1, <2>2
  <1>5. has \in BOOLEAN /\ listed \subseteq Uris /\ (has => view.hasList /\ listed = view.listed /\ subs' # {})
    BY <1>1 DEF ViewType
  <1>6. ~mute => (k.op = "list" => subs' # {}) /\ (k.op = "result" => u # Result(k.q))
    OBVIOUS
  <1> HIDE DEF seen, call, has, listed, mute
  <1>7. /\ view' \in ViewType /\ view'.seen = seen /\ view'.hasList = has /\ view'.listed = listed
        /\ view'.call = call
    BY <1>1, <1>2, <1>3, <1>4, <1>5 DEF ViewType
  <1>8. ASSUME NEW x, x \in Pending, x # u, IF x = ListChanged THEN subs' # {} ELSE x \in subs
        PROVE  x \in Pending'
    <2>1. IF x = ListChanged THEN subs' # {} ELSE x \in subs' BY <1>1, <1>8
    <2>2. CASE x \in inbox BY <1>1, <1>8, <2>2 DEF Pending
    <2>3. CASE x \in Coming BY <1>1, <2>1, <2>3, PendingForOthers DEF Pending
    <2> QED BY <1>8, <2>2, <2>3 DEF Pending
  <1>9. subs' # {} /\ ListChanged \in Pending => ListChanged \in Pending'
    <2>1. ListChanged # u BY UrisDiffer, UriKinds
    <2> QED BY <1>8, <2>1
  <1>10. \A v \in Uris : seen[v] # Unread => v # u /\ seen[v] = view.seen[v] /\ (v \in subs => v \in subs' /\ subs' # {})
    BY <1>1, <1>3
  <1>11. \A v \in Uris : v \in subs /\ v # u /\ v \in Pending => v \in Pending'
    <2>1. \A v \in Uris : v # ListChanged BY UrisDiffer, UriKinds
    <2> QED BY <1>8, <2>1
  <1>12. TablesTold'
    BY <1>1, <1>7, <1>10, <1>11, UrisDiffer DEF ResInv, ClientTold, TablesTold, TableTold
  <1>13. SummaryTold'
    BY <1>1, <1>7, <1>10, <1>11, UrisDiffer DEF ResInv, ClientTold, SummaryTold
  <1>14. QueriesTold'
    BY <1>1, <1>4, <1>7, <1>9, <1>10, <1>11, UrisDiffer DEF ResInv, ClientTold, QueriesTold, QueryTold
  <1>15. ReadTold'
    <2>1. k.op = "result" => k.q \in Queries BY <1>1 DEF ClientCalls, NoCall
    <2> QED BY <1>1, <1>4, <1>6, <1>7, <1>11, <2>1, UrisDiffer DEF ResInv, ClientTold, ReadTold
  <1>16. ListTold'
    BY <1>1, <1>4, <1>6, <1>7, <1>9 DEF ResInv, ClientTold, ListTold
  <1>17. ListedTold'
    BY <1>1, <1>5, <1>7, <1>9 DEF ResInv, ClientTold, ListedTold
  <1>18. ResTypes' BY <1>1, <1>7 DEF ResInv, ResTypes
  <1> QED BY <1>1, <1>12, <1>13, <1>14, <1>15, <1>16, <1>17, <1>18 DEF ResInv, ClientTold

-----------------------------------------------------------------------------
(* Tools                                                                   *)

\* What a call that has begun will send.
LEMMA ToolTells ==
  ASSUME ResInv, NEW c \in Callers, NEW o \in ToolCalls, o # NoCall, BeginTool(c, o)
  PROVE  /\ UNCHANGED <<subs, inbox, view>> /\ tool' \in [Callers -> ToolCalls]
         /\ \A x : x \in Pending => x \in Pending'
         /\ \A x \in Concerned(o) : x \in subs => x \in Pending'
         /\ ChangesList(o) /\ subs # {} => ListChanged \in Pending'
  <1>1. tool \in [Callers -> ToolCalls] BY DEF ResInv, ResTypes
  <1>2. tool[c] = NoCall /\ tool' = [tool EXCEPT ![c] = o] /\ UNCHANGED <<subs, inbox, view>>
    BY DEF BeginTool
  <1>3. \A x : x \in Pending \/ x \in NotificationsOf(o) => x \in Pending'
    BY <1>1, <1>2, PendingGrows
  <1> QED BY <1>1, <1>2, <1>3, NotificationsSent

LEMMA CountedTypes ==
  ASSUME NEW g \in GhostType
  PROVE  Counted(g) \in GhostType /\ Counted(g).confirmed = g.confirmed /\ Counted(g).silent = g.silent
  BY DEF Counted, GhostType

LEMMA LoadKeeps ==
  ASSUME ResInv, NEW c \in Callers, NEW t \in Tables, NEW b \in BOOLEAN, Load(c, t, b)
  PROVE  ResInv'
  <1> DEFINE o == [op |-> "load", t |-> t, replace |-> b]
             n == ghost.changes + 1
  <1>1. o \in ToolCalls /\ o # NoCall /\ Concerned(o) = {Summary, TableUri(t)}
    BY DEF ToolCalls, NoCall, Concerned
  <1>2. BeginTool(c, o) /\ data' = [data EXCEPT ![t] = n] /\ ghost' = Counted(ghost) /\ UNCHANGED saved
    BY DEF Load
  <1> HIDE DEF o
  <1>3. /\ UNCHANGED <<subs, inbox, view>> /\ tool' \in [Callers -> ToolCalls]
        /\ \A x : x \in Pending => x \in Pending'
        /\ \A x \in {Summary, TableUri(t)} : x \in subs => x \in Pending'
    BY <1>1, <1>2, ToolTells
  <1>4. n \in Nat /\ n # 0 /\ data \in [Tables -> Nat] /\ ghost \in GhostType
    BY DEF ResInv, ResTypes, GhostType
  <1> HIDE DEF n
  <1>5. /\ data' \in [Tables -> Nat] /\ \A s \in Tables : /\ s # t => data'[s] = data[s]
                                                          /\ data[s] # 0 => data'[s] # 0
    BY <1>2, <1>4
  <1>6. ghost' \in GhostType /\ ghost'.confirmed = ghost.confirmed /\ ghost'.silent = ghost.silent
    BY <1>2, <1>4, CountedTypes
  <1>7. ResTypes' BY <1>2, <1>3, <1>5, <1>6 DEF ResInv, ResTypes
  <1>8. TablesTold' BY <1>3, <1>5, <1>6 DEF ResInv, ClientTold, TablesTold, TableTold
  <1>9. SummaryTold' BY <1>3 DEF ResInv, ClientTold, SummaryTold
  <1>10. QueriesTold' BY <1>2, <1>3 DEF ResInv, ClientTold, QueriesTold, QueryTold
  <1>11. ReadTold' BY <1>2, <1>3 DEF ResInv, ClientTold, ReadTold
  <1>12. ListTold'
    <2>1. view.call.op = "list" => view.call.tables \subseteq Tables
      BY DEF ResInv, ResTypes, ViewType, ClientCalls, NoCall
    <2> QED BY <1>3, <1>5, <2>1 DEF ResInv, ClientTold, ListTold
  <1>13. ListedTold' BY <1>2, <1>3, <1>5 DEF ResInv, ClientTold, ListedTold
  <1> QED BY <1>2, <1>6, <1>7, <1>8, <1>9, <1>10, <1>11, <1>12, <1>13 DEF ResInv, ClientTold

LEMMA ExecuteToolKeeps ==
  ASSUME ResInv, NEW c \in Callers, NEW t \in Tables, NEW b \in BOOLEAN, Execute(c, t, b)
  PROVE  ResInv'
  <1> DEFINE o == [op |-> "execute", structural |-> b]
             n == IF b /\ data[t] # 0 THEN 0 ELSE ghost.changes + 1
             g == Counted(ghost)
  <1>1. o \in ToolCalls /\ o # NoCall /\ Concerned(o) = {Summary} /\ (ChangesList(o) <=> b)
    BY DEF ToolCalls, NoCall, Concerned, ChangesList
  <1>2. /\ BeginTool(c, o) /\ data' = [data EXCEPT ![t] = n] /\ UNCHANGED saved
        /\ ghost' = [g EXCEPT !.silent = @ \cup {t}]
    BY DEF Execute, ResInv, ResTypes
  <1> HIDE DEF o
  <1>3. /\ UNCHANGED <<subs, inbox, view>> /\ tool' \in [Callers -> ToolCalls]
        /\ \A x : x \in Pending => x \in Pending'
        /\ Summary \in subs => Summary \in Pending'
        /\ b /\ subs # {} => ListChanged \in Pending'
    BY <1>1, <1>2, ToolTells
  <1>4. n \in Nat /\ (~b => n # 0) /\ data \in [Tables -> Nat] /\ ghost \in GhostType
    BY DEF ResInv, ResTypes, GhostType
  <1>5. g \in GhostType /\ g.confirmed = ghost.confirmed /\ g.silent = ghost.silent
    BY <1>4, CountedTypes
  <1> HIDE DEF n, g
  <1>6. /\ data' \in [Tables -> Nat] /\ \A s \in Tables : /\ s # t => data'[s] = data[s]
                                                          /\ ~b /\ data[s] # 0 => data'[s] # 0
    BY <1>2, <1>4
  <1>7. ghost' \in GhostType /\ ghost'.confirmed = ghost.confirmed /\ ghost'.silent = ghost.silent \cup {t}
    BY <1>2, <1>5 DEF GhostType
  <1>8. ResTypes' BY <1>2, <1>3, <1>6, <1>7 DEF ResInv, ResTypes
  <1>9. TablesTold' BY <1>3, <1>6, <1>7 DEF ResInv, ClientTold, TablesTold, TableTold
  <1>10. SummaryTold' BY <1>3 DEF ResInv, ClientTold, SummaryTold
  <1>11. QueriesTold' BY <1>2, <1>3 DEF ResInv, ClientTold, QueriesTold, QueryTold
  <1>12. ReadTold' BY <1>2, <1>3 DEF ResInv, ClientTold, ReadTold
  <1>13. ListTold'
    <2>1. view.call.op = "list" => view.call.tables \subseteq Tables
      BY DEF ResInv, ResTypes, ViewType, ClientCalls, NoCall
    <2> QED BY <1>3, <1>6, <2>1 DEF ResInv, ClientTold, ListTold
  <1>14. ListedTold' BY <1>2, <1>3, <1>6 DEF ResInv, ClientTold, ListedTold
  <1> QED BY <1>2, <1>7, <1>8, <1>9, <1>10, <1>11, <1>12, <1>13, <1>14 DEF ResInv, ClientTold

LEMMA SaveQueryKeeps ==
  ASSUME ResInv, NEW c \in Callers, NEW q \in Queries, SaveQuery(c, q)
  PROVE  ResInv'
  <1> DEFINE o == [op |-> "save", q |-> q]
             n == ghost.changes + 1
             g == Counted(ghost)
  <1>1. o \in ToolCalls /\ o # NoCall /\ ChangesList(o)
    BY DEF ToolCalls, NoCall, ChangesList
  <1>2. /\ BeginTool(c, o) /\ UNCHANGED data /\ saved' = Insert(saved, q, n)
        /\ ghost' = [g EXCEPT !.confirmed[q] = n]
    BY DEF SaveQuery
  <1> HIDE DEF o
  <1>3. /\ UNCHANGED <<subs, inbox, view>> /\ tool' \in [Callers -> ToolCalls]
        /\ \A x : x \in Pending => x \in Pending'
        /\ subs # {} => ListChanged \in Pending'
    BY <1>1, <1>2, ToolTells
  <1>4. n \in Nat /\ n # 0 /\ ghost \in GhostType /\ saved \in StoreType /\ saved.rows \in Rows
    BY DEF ResInv, ResTypes, GhostType, StoreType
  <1>5. g \in GhostType /\ g.confirmed = ghost.confirmed /\ g.silent = ghost.silent
    BY <1>4, CountedTypes
  <1>6. saved.rows[q] = 0
    BY <1>4, EnsureTableKeepsRows DEF SaveQuery, HasQuery
  <1> HIDE DEF n, g
  <1>7. saved' \in StoreType /\ saved'.rows = [saved.rows EXCEPT ![q] = n]
    <2>1. \A m \in Nat : Insert(saved, q, m) \in StoreType /\ Insert(saved, q, m).rows = [saved.rows EXCEPT ![q] = m]
      BY <1>4, StoreChanges
    <2> QED BY <1>2, <1>4, <2>1
  <1>8. ghost' \in GhostType /\ ghost'.confirmed = [ghost.confirmed EXCEPT ![q] = n] /\ ghost'.silent = ghost.silent
    BY <1>2, <1>4, <1>5 DEF GhostType, Rows
  <1>9. \A p \in Queries : p # q => saved'.rows[p] = saved.rows[p]
    BY <1>4, <1>7 DEF Rows
  <1>10. ResTypes' BY <1>2, <1>3, <1>7, <1>8 DEF ResInv, ResTypes
  <1>11. TablesTold' BY <1>2, <1>3, <1>8 DEF ResInv, ClientTold, TablesTold, TableTold
  <1>12. SummaryTold' BY <1>2, <1>3 DEF ResInv, ClientTold, SummaryTold
  <1>13. ASSUME NEW p \in Queries, NEW u, QueryTold(p, u) PROVE QueryTold(p, u)'
    BY <1>3, <1>6, <1>9, <1>13 DEF QueryTold
  <1>14. QueriesTold' BY <1>13 DEF ResInv, ClientTold, QueriesTold
  <1>15. ReadTold'
    <2>1. view.call.op = "result" => view.call.q \in Queries
      BY DEF ResInv, ResTypes, ViewType, ClientCalls, NoCall
    <2> QED BY <1>3, <1>6, <1>9, <2>1 DEF ResInv, ClientTold, ReadTold
  <1>16. ListTold' BY <1>2, <1>3 DEF ResInv, ClientTold, ListTold
  <1>17. ListedTold' BY <1>3 DEF ResInv, ClientTold, ListedTold
  <1>18. saved'.rows = ghost'.confirmed BY <1>7, <1>8 DEF ResInv
  <1> QED BY <1>10, <1>11, <1>12, <1>14, <1>15, <1>16, <1>17, <1>18 DEF ResInv, ClientTold

LEMMA SaveRefusedKeeps ==
  ASSUME ResInv, NEW c \in Callers, NEW q \in Queries, SaveRefused(c, q)
  PROVE  ResInv'
  <1>1. UNCHANGED <<data, tool, subs, inbox, view, ghost>> /\ saved' = EnsureTable(saved) /\ saved \in StoreType
    BY DEF SaveRefused, ResInv, ResTypes
  <1>2. saved' \in StoreType /\ saved'.rows = saved.rows BY <1>1, EnsureTableKeepsRows
  <1>3. \A x : x \in Pending => x \in Pending' BY <1>1, PendingStays
  <1>4. ClientTold' BY <1>1, <1>2, <1>3, ToldStill DEF ResInv
  <1> QED BY <1>1, <1>2, <1>4 DEF ResInv, ResTypes

LEMMA DeleteQueryKeeps ==
  ASSUME ResInv, NEW c \in Callers, NEW q \in Queries, DeleteQuery(c, q)
  PROVE  ResInv'
  <1> DEFINE o == [op |-> "delete", q |-> q]
             g == Counted(ghost)
  <1>1. o \in ToolCalls /\ o # NoCall /\ ChangesList(o) /\ Concerned(o) = {Definition(q), Result(q)}
    BY DEF ToolCalls, NoCall, ChangesList, Concerned
  <1>2. /\ BeginTool(c, o) /\ UNCHANGED data /\ saved' = Remove1(saved, q)
        /\ ghost' = [g EXCEPT !.confirmed[q] = 0]
    BY DEF DeleteQuery
  <1> HIDE DEF o
  <1>3. /\ UNCHANGED <<subs, inbox, view>> /\ tool' \in [Callers -> ToolCalls]
        /\ \A x : x \in Pending => x \in Pending'
        /\ \A x \in {Definition(q), Result(q)} : x \in subs => x \in Pending'
        /\ subs # {} => ListChanged \in Pending'
    BY <1>1, <1>2, ToolTells
  <1>4. ghost \in GhostType /\ saved \in StoreType /\ saved.rows \in Rows
    BY DEF ResInv, ResTypes, StoreType
  <1>5. g \in GhostType /\ g.confirmed = ghost.confirmed /\ g.silent = ghost.silent
    BY <1>4, CountedTypes
  <1> HIDE DEF g
  <1>6. saved' \in StoreType /\ saved'.rows = [saved.rows EXCEPT ![q] = 0]
    BY <1>2, <1>4, StoreChanges
  <1>7. ghost' \in GhostType /\ ghost'.confirmed = [ghost.confirmed EXCEPT ![q] = 0] /\ ghost'.silent = ghost.silent
    BY <1>2, <1>4, <1>5 DEF GhostType, Rows
  <1>8. \A p \in Queries : p # q => saved'.rows[p] = saved.rows[p]
    BY <1>4, <1>6 DEF Rows
  <1>9. ResTypes' BY <1>2, <1>3, <1>6, <1>7 DEF ResInv, ResTypes
  <1>10. TablesTold' BY <1>2, <1>3, <1>7 DEF ResInv, ClientTold, TablesTold, TableTold
  <1>11. SummaryTold' BY <1>2, <1>3 DEF ResInv, ClientTold, SummaryTold
  <1>12. QueriesTold'
    <2>1. ASSUME NEW p \in Queries, NEW u \in {Definition(p), Result(p)}, QueryTold(p, u) PROVE QueryTold(p, u)'
      BY <1>3, <1>8, <2>1 DEF QueryTold
    <2> QED BY <2>1 DEF ResInv, ClientTold, QueriesTold
  <1>13. ReadTold'
    <2>1. view.call.op = "result" => view.call.q \in Queries
      BY DEF ResInv, ResTypes, ViewType, ClientCalls, NoCall
    <2> QED BY <1>3, <1>8, <2>1 DEF ResInv, ClientTold, ReadTold
  <1>14. ListTold' BY <1>2, <1>3 DEF ResInv, ClientTold, ListTold
  <1>15. ListedTold' BY <1>3 DEF ResInv, ClientTold, ListedTold
  <1>16. saved'.rows = ghost'.confirmed BY <1>6, <1>7 DEF ResInv
  <1> QED BY <1>9, <1>10, <1>11, <1>12, <1>13, <1>14, <1>15, <1>16 DEF ResInv, ClientTold

-----------------------------------------------------------------------------
(* Reads and lists                                                         *)

\* The client reads u: what it holds of the other URIs stays told.
LEMMA OthersTold ==
  ASSUME ClientTold, NEW u \in Uris, UNCHANGED <<data, subs>>, saved'.rows = saved.rows,
         \A x : x \in Pending /\ x # u => x \in Pending',
         view'.hasList = view.hasList, view'.listed = view.listed,
         \A v \in Uris : v # u => view'.seen[v] = view.seen[v],
         view.call.op # "list", view'.call.op # "list",
         \A t \in Tables : u # TableUri(t) /\ t \in ghost.silent => t \in ghost'.silent
  PROVE  /\ \A t \in Tables : u # TableUri(t) => TableTold(t, TableUri(t))'
         /\ u # Summary => SummaryTold'
         /\ \A q \in Queries : /\ u # Definition(q) => QueryTold(q, Definition(q))'
                               /\ u # Result(q) => QueryTold(q, Result(q))'
         /\ ListTold' /\ ListedTold'
  <1>1. ListChanged # u BY UrisDiffer, UriKinds
  <1>2. \A t \in Tables : u # TableUri(t) => TableTold(t, TableUri(t))'
    BY UrisDiffer DEF ClientTold, TablesTold, TableTold
  <1>3. u # Summary => SummaryTold' BY UrisDiffer DEF ClientTold, SummaryTold
  <1>4. ASSUME NEW q \in Queries, NEW v \in {Definition(q), Result(q)}, u # v PROVE QueryTold(q, v)'
    <2>1. v \in Uris /\ QueryTold(q, v) BY UrisDiffer DEF ClientTold, QueriesTold
    <2> QED BY <1>1, <1>4, <2>1 DEF QueryTold
  <1>5. ListTold' BY DEF ListTold
  <1>6. ListedTold' BY <1>1 DEF ClientTold, ListedTold
  <1> QED BY <1>2, <1>3, <1>4, <1>5, <1>6

\* What a read leaves in the client's view.
LEMMA ReadsOne ==
  ASSUME view \in ViewType, NEW u \in Uris, NEW b \in Copies, NEW told \in BOOLEAN, view' = Reads(u, b, told)
  PROVE  /\ view' \in ViewType /\ view'.hasList = view.hasList /\ view'.listed = view.listed
         /\ view'.call = NoCall /\ view'.call.op = "idle"
         /\ view'.seen[u] = (IF told THEN b ELSE Unread)
         /\ \A v \in Uris : v # u => view'.seen[v] = view.seen[v]
  <1> DEFINE w == IF told THEN b ELSE Unread
  <1>1. w \in Copies /\ view' = [view EXCEPT !.seen[u] = w, !.call = NoCall]
    BY DEF Reads, Copies
  <1>2. NoCall \in ClientCalls /\ NoCall.op = "idle" BY DEF ClientCalls, NoCall
  <1> HIDE DEF w
  <1> DEFINE seen == [view.seen EXCEPT ![u] = w]
  <1>a. /\ seen \in [Uris -> Copies] /\ seen[u] = w /\ \A v \in Uris : v # u => seen[v] = view.seen[v]
        /\ view' = [view EXCEPT !.seen = seen, !.call = NoCall]
    BY <1>1 DEF ViewType
  <1> HIDE DEF seen
  <1>3. /\ view' \in ViewType /\ view'.hasList = view.hasList /\ view'.listed = view.listed
        /\ view'.call = NoCall /\ view'.seen[u] = w
        /\ \A v \in Uris : v # u => view'.seen[v] = view.seen[v]
    BY <1>a, <1>2 DEF ViewType
  <1> QED BY <1>2, <1>3 DEF w

LEMMA ReadResourceKeeps ==
  ASSUME ResInv, NEW u \in Uris, ReadResource(u)
  PROVE  ResInv'
  <1> DEFINE b == Body(u)
  <1>1. /\ UNCHANGED <<data, tool, subs>> /\ inbox' = inbox \ {u} /\ view.call = NoCall /\ u[1] # "result"
        /\ view' = Reads(u, b, u \in subs)
        /\ saved' = IF u[1] = "definition" THEN EnsureTable(saved) ELSE saved
        /\ ghost' = IF u[1] = "table" THEN [ghost EXCEPT !.silent = @ \ {u[2]}] ELSE ghost
        /\ saved \in StoreType /\ ghost \in GhostType /\ view \in ViewType /\ data \in [Tables -> Nat]
    BY DEF ReadResource, ResInv, ResTypes
  <1>2. saved' \in StoreType /\ saved'.rows = saved.rows /\ saved.rows \in Rows
    BY <1>1, EnsureTableKeepsRows DEF StoreType
  <1>3. \/ u = Summary /\ u[1] = "summary" /\ b = <<data>>
        \/ \E t \in Tables : u = TableUri(t) /\ u[1] = "table" /\ u[2] = t /\ b = <<data[t]>>
        \/ \E q \in Queries : u = Definition(q) /\ u[1] = "definition" /\ b = <<saved.rows[q]>>
    BY <1>1, UriKinds, EnsureTableKeepsRows DEF Body
  <1>4. b \in Copies BY <1>1, <1>2, <1>3 DEF Copies, Rows
  <1> HIDE DEF b
  <1>5. /\ view' \in ViewType /\ view'.hasList = view.hasList /\ view'.listed = view.listed
        /\ view'.call = NoCall /\ view'.call.op = "idle"
        /\ view'.seen[u] = (IF u \in subs THEN b ELSE Unread)
        /\ \A v \in Uris : v # u => view'.seen[v] = view.seen[v]
    <2> DEFINE told == u \in subs
    <2>1. told \in BOOLEAN /\ view' = Reads(u, b, told) BY <1>1
    <2>2. view'.seen[u] = (IF told THEN b ELSE Unread) /\ view' \in ViewType /\ view'.hasList = view.hasList
          /\ view'.listed = view.listed /\ view'.call = NoCall /\ view'.call.op = "idle"
          /\ \A v \in Uris : v # u => view'.seen[v] = view.seen[v]
      <3> HIDE DEF told
      <3> QED BY <1>1, <1>4, <2>1, ReadsOne
    <2> QED BY <2>2
  <1>6. /\ ghost' \in GhostType /\ ghost'.confirmed = ghost.confirmed
        /\ \A t \in Tables : u # TableUri(t) /\ t \in ghost.silent => t \in ghost'.silent
    BY <1>1, <1>3 DEF GhostType
  <1>7. \A x : x \in Pending /\ x # u => x \in Pending' BY <1>1, PendingTaken
  <1>8. view.call.op # "list" /\ view'.call.op # "list" /\ view'.call.op # "result"
    BY <1>1, <1>5 DEF NoCall
  <1>9. /\ \A t \in Tables : u # TableUri(t) => TableTold(t, TableUri(t))'
        /\ u # Summary => SummaryTold'
        /\ \A q \in Queries : /\ u # Definition(q) => QueryTold(q, Definition(q))'
                              /\ u # Result(q) => QueryTold(q, Result(q))'
        /\ ListTold' /\ ListedTold'
    BY <1>1, <1>2, <1>5, <1>6, <1>7, <1>8, OthersTold DEF ResInv
  <1>10. /\ \A t \in Tables : u = TableUri(t) => TableTold(t, TableUri(t))'
         /\ u = Summary => SummaryTold'
         /\ \A q \in Queries : u = Definition(q) => QueryTold(q, Definition(q))'
    BY <1>1, <1>2, <1>3, <1>5, UrisDiffer DEF TableTold, SummaryTold, QueryTold
  <1>11. \A q \in Queries : u # Result(q) BY <1>3, UrisDiffer
  <1>12. ReadTold' BY <1>8 DEF ReadTold
  <1>13. ClientTold' BY <1>9, <1>10, <1>11, <1>12 DEF ClientTold, TablesTold, QueriesTold
  <1> QED BY <1>1, <1>2, <1>5, <1>6, <1>13 DEF ResInv, ResTypes

LEMMA ReadResultGetKeeps ==
  ASSUME ResInv, NEW q \in Queries, ReadResultGet(q)
  PROVE  ResInv'
  <1> DEFINE u == Result(q)
             told == u \in subs
             k == [op |-> "result", q |-> q, sql |-> saved.rows[q], told |-> told]
  <1>1. /\ UNCHANGED <<data, tool, subs, ghost>> /\ inbox' = inbox \ {u} /\ view.call = NoCall
        /\ saved' = EnsureTable(saved) /\ saved \in StoreType /\ view \in ViewType /\ u \in Uris /\ told \in BOOLEAN
    BY UrisDiffer DEF ReadResultGet, ResInv, ResTypes
  <1>2. /\ saved' \in StoreType /\ saved'.rows = saved.rows /\ saved.rows[q] \in Nat
        /\ Get(saved, q) = saved.rows[q]
    BY <1>1, EnsureTableKeepsRows DEF StoreType, Rows
  <1>3. /\ k \in ClientCalls /\ k.op = "result" /\ k.told = told /\ k.q = q /\ k.sql = saved.rows[q]
    BY <1>1, <1>2 DEF ClientCalls
  <1>4. \/ saved.rows[q] # 0 /\ view' = [view EXCEPT !.seen[u] = Unread, !.call = k]
        \/ saved.rows[q] = 0 /\ view' = Reads(u, <<0>>, told)
    BY <1>2 DEF ReadResultGet, HasQuery
  <1>5. u # ListChanged BY UrisDiffer
  <1>6. \A x : x \in Pending /\ x # u => x \in Pending' BY <1>1, PendingTaken
  <1>7. view.call.op # "list" BY <1>1 DEF NoCall
  <1>8. told => u \in subs' BY <1>1
  <1>9. \A t \in Tables : u # TableUri(t) BY UrisDiffer
  <1>10. u # Summary /\ (\A p \in Queries : u # Definition(p)) /\ (\A p \in Queries : u = Result(p) => p = q)
    BY UrisDiffer
  <1>11. u = Result(q) OBVIOUS
  <1> HIDE DEF k, told, u
  <1>12. /\ view' \in ViewType /\ view'.hasList = view.hasList /\ view'.listed = view.listed
         /\ view'.call.op # "list"
         /\ view'.call.op = "result" => view'.call = k /\ saved.rows[q] # 0
         /\ view'.seen[u] # Unread => told /\ view'.seen[u] = <<saved.rows[q]>>
         /\ \A v \in Uris : v # u => view'.seen[v] = view.seen[v]
    <2>1. CASE saved.rows[q] # 0 /\ view' = [view EXCEPT !.seen[u] = Unread, !.call = k]
      <3>1. Unread \in Copies BY DEF Copies
      <3> QED BY <1>1, <1>3, <2>1, <3>1 DEF ViewType
    <2>2. CASE saved.rows[q] = 0 /\ view' = Reads(u, <<0>>, told)
      <3>1. <<0>> \in Copies BY DEF Copies
      <3> DEFINE b == <<0>>
      <3>2. b \in Copies /\ b = <<saved.rows[q]>> /\ view' = Reads(u, b, told) BY <2>2, <3>1
      <3> HIDE DEF b
      <3>3. /\ view' \in ViewType /\ view'.hasList = view.hasList /\ view'.listed = view.listed
            /\ view'.call.op = "idle"
            /\ view'.seen[u] = (IF told THEN b ELSE Unread)
            /\ \A v \in Uris : v # u => view'.seen[v] = view.seen[v]
        BY <1>1, <3>2, ReadsOne
      <3> QED BY <3>2, <3>3
    <2> QED BY <1>4, <2>1, <2>2
  <1>13. /\ \A t \in Tables : TableTold(t, TableUri(t))'
         /\ SummaryTold'
         /\ \A p \in Queries : QueryTold(p, Definition(p))' /\ (p # q => QueryTold(p, Result(p))')
         /\ ListTold' /\ ListedTold'
    BY <1>1, <1>2, <1>6, <1>7, <1>9, <1>10, <1>12, OthersTold DEF ResInv
  <1>14. QueryTold(q, Result(q))' BY <1>2, <1>8, <1>11, <1>12 DEF QueryTold
  <1>15. ReadTold' BY <1>2, <1>3, <1>8, <1>11, <1>12 DEF ReadTold
  <1>16. ClientTold' BY <1>13, <1>14, <1>15 DEF ClientTold, TablesTold, QueriesTold
  <1> QED BY <1>1, <1>2, <1>12, <1>16 DEF ResInv, ResTypes

LEMMA ReadResultRunKeeps ==
  ASSUME ResInv, ReadResultRun
  PROVE  ResInv'
  <1> DEFINE k == view.call
  <1>0. k.op = "result" /\ view \in ViewType BY DEF ReadResultRun, ResInv, ResTypes
  <1>2. k.q \in Queries /\ k.sql \in Nat /\ k.told \in BOOLEAN
    BY <1>0 DEF ViewType, ClientCalls, NoCall
  <1>a. PICK q \in Queries : q = k.q BY <1>2
  <1> DEFINE u == Result(q)
             b == <<k.sql>>
  <1>1. /\ UNCHANGED <<data, saved, tool, subs, inbox, ghost>> /\ k.op = "result" /\ view \in ViewType
        /\ view' = Reads(u, b, k.told)
    BY <1>a DEF ReadResultRun, ResInv, ResTypes
  <1>3. u \in Uris /\ b \in Copies BY <1>2, UrisDiffer DEF Copies
  <1>4. \A x : x \in Pending => x \in Pending' BY <1>1, PendingStays
  <1>5. k.told => u \in subs' /\ (b = <<saved'.rows[q]>> \/ u \in Pending')
    BY <1>1, <1>4, <1>a DEF ResInv, ClientTold, ReadTold
  <1>6. /\ \A t \in Tables : u # TableUri(t)
        /\ u # Summary /\ (\A p \in Queries : u # Definition(p)) /\ (\A p \in Queries : u = Result(p) => p = q)
    BY <1>2, UrisDiffer
  <1>7. u = Result(q) /\ k = view.call OBVIOUS
  <1> HIDE DEF u, b, k
  <1>8. /\ view' \in ViewType /\ view'.hasList = view.hasList /\ view'.listed = view.listed
        /\ view'.call.op = "idle"
        /\ view'.seen[u] = (IF k.told THEN b ELSE Unread)
        /\ \A v \in Uris : v # u => view'.seen[v] = view.seen[v]
    BY <1>1, <1>2, <1>3, ReadsOne
  <1>9. /\ \A t \in Tables : TableTold(t, TableUri(t))'
        /\ SummaryTold'
        /\ \A p \in Queries : QueryTold(p, Definition(p))' /\ (p # q => QueryTold(p, Result(p))')
        /\ ListTold' /\ ListedTold'
    BY <1>1, <1>3, <1>4, <1>6, <1>7, <1>8, OthersTold DEF ResInv
  <1>10. QueryTold(q, Result(q))' BY <1>5, <1>7, <1>8 DEF QueryTold
  <1>11. ReadTold' BY <1>8 DEF ReadTold
  <1>12. ClientTold' BY <1>9, <1>10, <1>11 DEF ClientTold, TablesTold, QueriesTold
  <1> QED BY <1>1, <1>8, <1>12 DEF ResInv, ResTypes

LEMMA ListTablesKeeps ==
  ASSUME ResInv, ListTables
  PROVE  ResInv'
  <1> DEFINE told == subs # {}
             there == {t \in Tables : data[t] # 0}
             k == [op |-> "list", told |-> told, tables |-> there]
  <1>1. /\ UNCHANGED <<data, saved, tool, subs, ghost>> /\ inbox' = inbox \ {ListChanged} /\ view \in ViewType
        /\ view' = [view EXCEPT !.hasList = FALSE, !.listed = {}, !.call = k]
    BY DEF ListTables, ResInv, ResTypes
  <1>2. k \in ClientCalls /\ k.op = "list" /\ k.told = told /\ k.tables = there
    BY DEF ClientCalls
  <1>3. told <=> subs # {} OBVIOUS
  <1>4. \A t \in there : data[t] # 0 OBVIOUS
  <1> HIDE DEF k, told, there
  <1>5. /\ view' \in ViewType /\ view'.hasList = FALSE /\ view'.seen = view.seen /\ view'.call = k
    BY <1>1, <1>2 DEF ViewType
  <1>6. \A u \in Uris : u \in Pending => u \in Pending'
    <2>1. \A u \in Uris : u # ListChanged BY UrisDiffer, UriKinds
    <2> QED BY <1>1, <2>1, PendingTaken
  <1>7. TablesTold' BY <1>1, <1>5, <1>6, UrisDiffer DEF ResInv, ClientTold, TablesTold, TableTold
  <1>8. SummaryTold' BY <1>1, <1>5, <1>6, UrisDiffer DEF ResInv, ClientTold, SummaryTold
  <1>9. QueriesTold' BY <1>1, <1>2, <1>5, <1>6, UrisDiffer DEF ResInv, ClientTold, QueriesTold, QueryTold
  <1>10. ReadTold' BY <1>2, <1>5 DEF ReadTold
  <1>11. ListTold' BY <1>1, <1>2, <1>3, <1>4, <1>5 DEF ListTold
  <1>12. ListedTold' BY <1>5 DEF ListedTold
  <1>13. ResTypes' BY <1>1, <1>5 DEF ResInv, ResTypes
  <1> QED BY <1>1, <1>7, <1>8, <1>9, <1>10, <1>11, <1>12, <1>13 DEF ResInv, ClientTold

LEMMA ListSavedQueriesKeeps ==
  ASSUME ResInv, ListSavedQueries
  PROVE  ResInv'
  <1> DEFINE k == view.call
             there == {q \in Queries : saved.rows[q] # 0}
             Forgets(u) == u[1] \in {"definition", "result"} /\ (view.seen[u] = <<0>>) = (u[2] \in there)
             seen == [u \in Uris |-> IF Forgets(u) THEN Unread ELSE view.seen[u]]
             names == {TableUri(t) : t \in k.tables} \cup {Definition(q) : q \in there}
             listed == IF k.told THEN names ELSE {}
  <1>1. /\ UNCHANGED <<data, tool, subs, inbox, ghost>> /\ k.op = "list" /\ view \in ViewType
        /\ saved' = EnsureTable(saved) /\ saved \in StoreType
    BY DEF ListSavedQueries, ResInv, ResTypes
  <1>2. ListQueries(saved) = there BY <1>1, EnsureTableKeepsRows
  <1>3. view' = [seen |-> seen, listed |-> listed, hasList |-> k.told, call |-> NoCall]
    BY <1>2 DEF ListSavedQueries
  <1>4. k.tables \subseteq Tables /\ k.told \in BOOLEAN
    BY <1>1 DEF ViewType, ClientCalls, NoCall
  <1>5. /\ seen \in [Uris -> Copies] /\ \A u \in Uris : seen[u] = Unread \/ seen[u] = view.seen[u]
    BY <1>1 DEF ViewType, Copies
  <1>6. \A q \in Queries : \A u \in {Definition(q), Result(q)} :
           seen[u] # Unread => seen[u] = view.seen[u] /\ (view.seen[u] = <<0>> <=> saved.rows[q] = 0)
    <2>1. ASSUME NEW q \in Queries, NEW u \in {Definition(q), Result(q)}, seen[u] # Unread
          PROVE  seen[u] = view.seen[u] /\ (view.seen[u] = <<0>> <=> saved.rows[q] = 0)
      <3>1. u \in Uris /\ u[1] \in {"definition", "result"} /\ u[2] = q
        <4>1. CASE u = Definition(q) BY <4>1, UrisDiffer DEF Definition
        <4>2. CASE u = Result(q) BY <4>2, UrisDiffer DEF Result
        <4> QED BY <2>1, <4>1, <4>2
      <3>2. ~Forgets(u) /\ seen[u] = view.seen[u] BY <2>1, <3>1
      <3>3. (view.seen[u] = <<0>>) # (q \in there) BY <3>1, <3>2
      <3> QED BY <3>2, <3>3
    <2> QED BY <2>1
  <1>7. /\ names \subseteq Uris
        /\ \A q \in Queries : Definition(q) \in names <=> saved.rows[q] # 0
        /\ \A t \in Tables : TableUri(t) \in names => t \in k.tables
    BY <1>4, UrisDiffer
  <1>8. listed \subseteq Uris /\ (k.told => listed = names) BY <1>7
  <1>9. saved' \in StoreType /\ saved'.rows = saved.rows BY <1>1, EnsureTableKeepsRows
  <1>10. k = view.call OBVIOUS
  <1> HIDE DEF k, there, seen, names, listed
  <1>11. NoCall \in ClientCalls /\ NoCall.op = "idle" BY DEF ClientCalls, NoCall
  <1>12. /\ view' \in ViewType /\ view'.seen = seen /\ view'.listed = listed /\ view'.hasList = k.told
         /\ view'.call.op = "idle"
    BY <1>3, <1>4, <1>5, <1>8, <1>11 DEF ViewType
  <1>13. \A x : x \in Pending => x \in Pending' BY <1>1, PendingStays
  <1>14. TablesTold' BY <1>1, <1>5, <1>12, <1>13, UrisDiffer DEF ResInv, ClientTold, TablesTold, TableTold
  <1>15. SummaryTold' BY <1>1, <1>5, <1>12, <1>13, UrisDiffer DEF ResInv, ClientTold, SummaryTold
  <1>16. QueriesTold'
    <2>1. ASSUME NEW q \in Queries, NEW u \in {Definition(q), Result(q)}, QueryTold(q, u)
          PROVE  QueryTold(q, u)'
      <3>1. CASE seen[u] = Unread BY <1>12, <3>1 DEF QueryTold
      <3>2. CASE seen[u] # Unread /\ saved.rows[q] = 0
        BY <1>1, <1>6, <1>9, <1>12, <2>1, <3>2 DEF QueryTold
      <3>3. CASE seen[u] # Unread /\ saved.rows[q] # 0
        BY <1>1, <1>6, <1>9, <1>12, <1>13, <2>1, <3>3 DEF QueryTold
      <3> QED BY <3>1, <3>2, <3>3
    <2> QED BY <2>1 DEF ResInv, ClientTold, QueriesTold
  <1>17. ReadTold' BY <1>12 DEF ReadTold
  <1>18. ListTold' BY <1>12 DEF ListTold
  <1>19. ListedTold'
    <2>1. k.told => subs # {} /\ (ListChanged \in Pending \/ \A t \in k.tables : data[t] # 0)
      BY <1>1, <1>10 DEF ResInv, ClientTold, ListTold
    <2> QED BY <1>1, <1>7, <1>8, <1>9, <1>12, <1>13, <2>1 DEF ListedTold
  <1>20. ResTypes' BY <1>1, <1>9, <1>12 DEF ResInv, ResTypes
  <1> QED BY <1>1, <1>9, <1>14, <1>15, <1>16, <1>17, <1>18, <1>19, <1>20 DEF ResInv, ClientTold

\* A client that has read nothing has nothing to be told.
LEMMA NothingRead ==
  /\ NoView \in ViewType /\ NoView.hasList = FALSE /\ NoView.call.op = "idle"
  /\ \A u \in Uris : NoView.seen[u] = Unread
  <1>1. NoCall \in ClientCalls /\ NoCall.op = "idle" BY DEF ClientCalls, NoCall
  <1>2. [u \in Uris |-> Unread] \in [Uris -> Copies] BY DEF Copies
  <1> QED BY <1>1, <1>2 DEF NoView, ViewType

LEMMA NothingReadIsTold ==
  ASSUME view.hasList = FALSE, view.call.op = "idle", \A u \in Uris : view.seen[u] = Unread
  PROVE  ClientTold
  BY UrisDiffer DEF ClientTold, TablesTold, TableTold, SummaryTold, QueriesTold, QueryTold, ReadTold, ListTold, ListedTold

LEMMA RestartKeeps ==
  ASSUME ResInv, Restart
  PROVE  ResInv'
  <1> DEFINE p == saved.persistent
             rows == IF p THEN saved.rows ELSE Empty
             conf == IF p THEN ghost.confirmed ELSE Empty
             n == ghost.changes + 1
             fresh == BuildStore(p)
  <1>1. saved \in StoreType /\ ghost \in GhostType /\ saved.rows = ghost.confirmed
    BY DEF ResInv, ResTypes
  <1>2. Empty \in Rows BY DEF Empty, Rows
  <1>3. rows \in Rows /\ conf = rows /\ n \in Nat BY <1>1, <1>2 DEF StoreType, GhostType
  <1>4. fresh \in StoreType BY <1>1, <1>2 DEF BuildStore, StoreType
  <1>5. ghost' = [ghost EXCEPT !.changes = n, !.silent = {}, !.confirmed = conf]
    BY <1>1 DEF Restart, Counted, GhostType
  <1>6. saved' = [fresh EXCEPT !.rows = rows, !.table = p /\ saved.table]
    BY <1>2 DEF Restart, BuildStore
  <1>7. (p /\ saved.table) \in BOOLEAN OBVIOUS
  <1> HIDE DEF rows, conf, n, fresh, p
  <1>8. ghost' \in GhostType /\ ghost'.confirmed = conf BY <1>1, <1>3, <1>5 DEF GhostType
  <1>9. saved' \in StoreType /\ saved'.rows = rows BY <1>3, <1>4, <1>6, <1>7 DEF StoreType
  <1>10. /\ data' = [t \in Tables |-> 0] /\ tool' = [c \in Callers |-> NoCall] /\ subs' = {} /\ view' = NoView
    BY DEF Restart
  <1>11. data' \in [Tables -> Nat] /\ tool' \in [Callers -> ToolCalls] /\ subs' \subseteq Uris
    BY <1>10 DEF ToolCalls
  <1>12. ResTypes' BY <1>8, <1>9, <1>10, <1>11, NothingRead DEF ResTypes
  <1>13. view'.hasList = FALSE /\ view'.call.op = "idle" /\ \A u \in Uris : view'.seen[u] = Unread
    BY <1>10, NothingRead
  <1>14. ClientTold'
    BY <1>13, UrisDiffer DEF ClientTold, TablesTold, TableTold, SummaryTold, QueriesTold, QueryTold, ReadTold, ListTold, ListedTold
  <1> QED BY <1>3, <1>8, <1>9, <1>12, <1>14 DEF ResInv

LEMMA ResStarts == ResInit => ResInv
  <1> SUFFICES ASSUME ResInit PROVE ResInv OBVIOUS
  <1>1. Empty \in Rows BY DEF Empty, Rows
  <1>2. saved \in StoreType /\ saved.rows = Empty
    BY <1>1 DEF ResInit, BuildStore, StoreType
  <1>3. ghost \in GhostType /\ ghost.confirmed = Empty
    BY <1>1 DEF ResInit, GhostType
  <1>4. data \in [Tables -> Nat] /\ tool \in [Callers -> ToolCalls] /\ subs \subseteq Uris /\ view = NoView
    BY DEF ResInit, ToolCalls
  <1>5. ClientTold BY <1>4, NothingRead, NothingReadIsTold
  <1> QED BY <1>2, <1>3, <1>4, <1>5, NothingRead DEF ResInv, ResTypes

LEMMA ResKeeps == ResInv /\ [ResNext]_resVars => ResInv'
  <1> SUFFICES ASSUME ResInv, [ResNext]_resVars PROVE ResInv' OBVIOUS
  <1>1. CASE \E u \in Uris : Subscribe(u) \/ Unsubscribe(u) \/ ReadResource(u)
    BY <1>1, SubscribeKeeps, UnsubscribeKeeps, ReadResourceKeeps
  <1>2. CASE \E c \in Callers : Notify(c)
    BY <1>2, NotifyKeeps
  <1>3. CASE \E c \in Callers, t \in Tables, b \in BOOLEAN : Load(c, t, b) \/ Execute(c, t, b)
    BY <1>3, LoadKeeps, ExecuteToolKeeps
  <1>4. CASE \E c \in Callers, q \in Queries : SaveQuery(c, q) \/ SaveRefused(c, q) \/ DeleteQuery(c, q)
    BY <1>4, SaveQueryKeeps, SaveRefusedKeeps, DeleteQueryKeeps
  <1>5. CASE \E q \in Queries : ReadResultGet(q)
    BY <1>5, ReadResultGetKeeps
  <1>6. CASE ReadResultRun BY <1>6, ReadResultRunKeeps
  <1>7. CASE ListTables BY <1>7, ListTablesKeeps
  <1>8. CASE ListSavedQueries BY <1>8, ListSavedQueriesKeeps
  <1>9. CASE Restart BY <1>9, RestartKeeps
  <1>10. CASE UNCHANGED resVars
    <2>1. UNCHANGED <<data, saved, tool, subs, inbox, view, ghost>> BY <1>10 DEF resVars
    <2>2. ClientTold' BY <2>1, PendingStays, ToldStill DEF ResInv
    <2> QED BY <2>1, <2>2 DEF ResInv, ResTypes
  <1> QED BY <1>1, <1>2, <1>3, <1>4, <1>5, <1>6, <1>7, <1>8, <1>9, <1>10 DEF ResNext

LEMMA TheClientIsCurrent == ResInv => ClientIsCurrent
  <1> SUFFICES ASSUME ResInv PROVE ClientIsCurrent OBVIOUS
  <1>1. saved \in StoreType /\ subs \subseteq Uris /\ ClientTold /\ saved.rows = ghost.confirmed
    BY DEF ResInv, ResTypes
  <1>2. (\A q \in Queries : Get(saved, q) = saved.rows[q]) /\ ListQueries(saved) = {q \in Queries : saved.rows[q] # 0}
    BY <1>1, EnsureTableKeepsRows
  <1>3. ConfirmedQueryIsFound BY <1>1, <1>2 DEF ConfirmedQueryIsFound
  <1>4. ListIsCurrentOrAnnounced BY <1>1, <1>2 DEF ListIsCurrentOrAnnounced, ClientTold, ListedTold, Pending
  <1>5. ASSUME NEW u \in subs, view.seen[u] # Unread, view.seen[u] # Body(u), ~(u[1] = "table" /\ u[2] \in ghost.silent)
        PROVE  OnItsWay(u)
    <2>1. CASE u = Summary /\ u[1] = "summary"
      <3>1. Body(u) = <<data>> BY <2>1 DEF Body
      <3> QED BY <1>1, <1>5, <2>1, <3>1 DEF ClientTold, SummaryTold, Pending, OnItsWay
    <2>2. CASE \E t \in Tables : u = TableUri(t) /\ u[1] = "table" /\ u[2] = t
      <3>1. PICK t \in Tables : u = TableUri(t) /\ u[1] = "table" /\ u[2] = t BY <2>2
      <3>2. Body(u) = <<data[t]>> BY <3>1 DEF Body
      <3> QED BY <1>1, <1>5, <3>1, <3>2 DEF ClientTold, TablesTold, TableTold, Pending, OnItsWay
    <2>3. CASE \E q \in Queries : (u = Definition(q) \/ u = Result(q)) /\ u[1] \in {"definition", "result"} /\ u[2] = q
      <3>1. PICK q \in Queries : (u = Definition(q) \/ u = Result(q)) /\ u[1] \in {"definition", "result"} /\ u[2] = q
        BY <2>3
      <3>2. Body(u) = <<saved.rows[q]>> BY <1>2, <3>1 DEF Body
      <3>3. QueryTold(q, u) BY <1>1, <3>1 DEF ClientTold, QueriesTold
      <3> QED BY <1>5, <3>1, <3>2, <3>3 DEF QueryTold, Pending, OnItsWay
    <2> QED BY <1>1, <2>1, <2>2, <2>3, UriKinds
  <1>6. StaleReaderIsTold BY <1>5 DEF StaleReaderIsTold
  <1> QED BY <1>3, <1>4, <1>6 DEF ClientIsCurrent

\* What a client holds of the resources it subscribed to is current or the
\* client is being told otherwise, its list too, and every query whose save was
\* confirmed is found: for any number of tables, queries, callers and
\* subscriptions, whatever runs between a change and its notice (server.rs:1163,
\* 3460, 5145; saved_queries.rs:233).
THEOREM ClientsStayCurrent == ResSpec => []ClientIsCurrent
  <1>1. ResInv /\ [ResNext]_resVars => ResInv' BY ResKeeps
  <1>2. ResInit => ResInv BY ResStarts
  <1>3. ResInv => ClientIsCurrent BY TheClientIsCurrent
  <1> QED BY <1>1, <1>2, <1>3, PTL DEF ResSpec

=============================================================================
