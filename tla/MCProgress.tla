----------------------------- MODULE MCProgress -----------------------------
(***************************************************************************)
(* What must eventually happen, for TLC: the components whose scheduling   *)
(* the code keeps going, side by side.  A behaviour picks one of them and  *)
(* runs it under that component's own fairness; the others rest.  Their    *)
(* instances are smaller than the ones the safety searches use.  The       *)
(* shutdown of the daemon is the module this one extends.                  *)
(***************************************************************************)
EXTENDS HealthShutdown, TLC

MCHandlers == {"h1", "h2"}

VARIABLES
    which,    \* the component that runs
    idle, size, initialized, init_in_progress, pc, conn, live_size, gets,
    ddir, lock, record, sock, dpc, ver, listening, dshutdown, hyperd, dcpc, info, old,
    mpc, due, hyper, new, spawned, alive, orphans, history, recent, file, status, reports, cpc, used,
    session,
    wop, wissued, wwriteBuf, wdesync, wpoisoned, wlink, wtoServer, wtoClient, wsrv, wcancels,
    wmisanswered, wstrayCancels, wabandoned,
    aop, aissued, awriters, awriteBuf, awriteInFlight, apendingCancel, adesync, alink, atoServer,
    atoClient, asrv, acancelSent, amisanswered, atainted,
    gexec, gserver, gclient, gprovider,
    proc, dirs, ipcSeq,
    slot, initLock, caller, built,
    dir, landed, watch, job, excuse

poolVars == <<idle, size, initialized, init_in_progress, pc, conn, live_size, gets>>
electionVars == <<ddir, lock, record, sock, dpc, ver, listening, dshutdown, hyperd, dcpc, info, old>>
monitorVars == <<mpc, due, hyper, new, spawned, alive, orphans, history, recent, file, status, reports,
                 cpc, used, session>>
wireVars == <<wop, wissued, wwriteBuf, wdesync, wpoisoned, wlink, wtoServer, wtoClient, wsrv, wcancels,
              wmisanswered, wstrayCancels, wabandoned>>
asyncVars == <<aop, aissued, awriters, awriteBuf, awriteInFlight, apendingCancel, adesync, alink,
               atoServer, atoClient, asrv, acancelSent, amisanswered, atainted>>
grpcVars == <<gexec, gserver, gclient, gprovider>>
processVars == <<proc, dirs, ipcSeq>>
engineVars == <<slot, initLock, caller, built>>
watcherVars == <<dir, landed, watch, job, excuse>>

-----------------------------------------------------------------------------
(* Instances                                                               *)

\* As many threads as can wait for one connection, get() without a deadline
PoolM == INSTANCE SyncPool WITH
    Threads <- {"t1", "t2", "t3"}, Conns <- {"c1", "c2", "c3"}, NoConn <- "none", MaxSize <- 1,
    MinIdle <- 0, IdleTimeout <- TRUE, MaxLifetime <- TRUE, WaitTimeout <- FALSE, MaxGets <- 1

\* A cold start of two clients of one version, without faults or expired waits
ElectionM == INSTANCE DaemonElection WITH
    Daemons <- {"d1", "d2"}, Clients <- {"c1", "c2"}, NoOne <- "none",
    Version <- [c \in {"c1", "c2"} |-> 2], FirstVersion <- 2, Manual <- FALSE, Timeouts <- FALSE,
    Faults <- FALSE, dir <- ddir, shutdown <- dshutdown, cpc <- dcpc

MonitorM == INSTANCE HyperdMonitor WITH
    Clients <- {"c1"}, MaxEpoch <- 2, RestartLimit <- 2, RestartWindow <- 3, CallbackTimeout <- 3,
    Outcomes <- {"ok", "fails", "no_callback", "write_fails"}, UniqueEndpoint <- TRUE

WireM == INSTANCE WireConnection WITH
    MaxRequests <- 2, MaxRows <- 3, MaxCopyFrames <- 1, Capacity <- 2, ChunkSize <- 2, DrainCap <- 2,
    MaxDataRows <- 2, op <- wop, issued <- wissued, writeBuf <- wwriteBuf, desynchronized <- wdesync,
    poisoned <- wpoisoned, link <- wlink, toServer <- wtoServer, toClient <- wtoClient, srv <- wsrv,
    cancels <- wcancels, misanswered <- wmisanswered, strayCancels <- wstrayCancels,
    abandoned <- wabandoned

AsyncM == INSTANCE AsyncWire WITH
    MaxAsyncRequests <- 2, MaxAsyncRows <- 1, MaxAsyncFrames <- 1, AsyncCapacity <- 2, AsyncChunkSize <- 2,
    AsyncDrainCap <- 2, adesynchronized <- adesync

GrpcM == INSTANCE GrpcQuery WITH MaxChunks <- 2, MaxPolls <- 2, MaxTokens <- 3
ProcessM == INSTANCE HyperProcess WITH Instances <- {1, 2}
EngineM == INSTANCE McpEngine WITH Tools <- {"a", "b"}, Jobs <- {"w"}, MaxEngineCalls <- 1, MaxEngines <- 3
WatcherM == INSTANCE McpWatcher WITH Files <- {1}, MaxVersions <- 2, Slots <- {1, 2}, MaxStarts <- 1, MaxLost <- 1

-----------------------------------------------------------------------------
Components == {"shutdown", "pool", "election", "monitor", "wire", "async", "grpc", "process", "engine",
               "watcher"}

ProgressInit ==
    /\ which \in Components
    /\ Init /\ (which # "shutdown" => ~lossy)
    /\ PoolM!Init
    /\ ElectionM!Init /\ (which # "election" => ddir)
    /\ MonitorM!Init
    /\ WireM!Init
    /\ AsyncM!AsyncInit
    /\ GrpcM!GrpcInit
    /\ which # "grpc" => /\ gexec.mode = "SYNC" /\ ~gserver.command /\ gserver.count = 1 /\ ~gserver.running
                         /\ gclient = GrpcM!NewClient("plain")
    /\ ProcessM!ProcessInit
    /\ EngineM!EngineInit
    /\ WatcherM!WatcherInit

allVars == <<which, vars, poolVars, electionVars, monitorVars, wireVars, asyncVars, grpcVars,
            processVars, engineVars, watcherVars>>

\* The components that may be left alone for ever, or that are done; in the
\* others a state without a successor is an error.
Rests == which \in {"grpc", "process", "engine", "watcher"} /\ UNCHANGED allVars

ProgressNext ==
    \/ /\ which = "shutdown" /\ Next
       /\ UNCHANGED <<which, poolVars, electionVars, monitorVars, wireVars, asyncVars, grpcVars,
                       processVars, engineVars, watcherVars>>
    \/ /\ which = "pool" /\ PoolM!Next
       /\ UNCHANGED <<which, vars, electionVars, monitorVars, wireVars, asyncVars, grpcVars,
                       processVars, engineVars, watcherVars>>
    \/ /\ which = "election" /\ ElectionM!Next
       /\ UNCHANGED <<which, vars, poolVars, monitorVars, wireVars, asyncVars, grpcVars, processVars,
                       engineVars, watcherVars>>
    \/ /\ which = "monitor" /\ MonitorM!Next
       /\ UNCHANGED <<which, vars, poolVars, electionVars, wireVars, asyncVars, grpcVars, processVars,
                       engineVars, watcherVars>>
    \/ /\ which = "wire" /\ WireM!Next
       /\ UNCHANGED <<which, vars, poolVars, electionVars, monitorVars, asyncVars, grpcVars,
                       processVars, engineVars, watcherVars>>
    \/ /\ which = "async" /\ AsyncM!AsyncNext
       /\ UNCHANGED <<which, vars, poolVars, electionVars, monitorVars, wireVars, grpcVars,
                       processVars, engineVars, watcherVars>>
    \/ /\ which = "grpc" /\ GrpcM!GrpcNext
       /\ UNCHANGED <<which, vars, poolVars, electionVars, monitorVars, wireVars, asyncVars,
                       processVars, engineVars, watcherVars>>
    \/ /\ which = "process" /\ ProcessM!ProcessNext
       /\ UNCHANGED <<which, vars, poolVars, electionVars, monitorVars, wireVars, asyncVars, grpcVars,
                       engineVars, watcherVars>>
    \/ /\ which = "engine" /\ EngineM!EngineNext
       /\ UNCHANGED <<which, vars, poolVars, electionVars, monitorVars, wireVars, asyncVars, grpcVars,
                       processVars, watcherVars>>
    \/ /\ which = "watcher" /\ WatcherM!WatcherNext
       /\ UNCHANGED <<which, vars, poolVars, electionVars, monitorVars, wireVars, asyncVars, grpcVars,
                       processVars, engineVars>>
    \/ Rests

(***************************************************************************)
(* The fairness of each component, as its module states it.  One component *)
(* runs, so that the k-th conditions of all of them are one condition.     *)
(* The strong fairness of the election is about waits that expire, which   *)
(* this instance has none of.                                              *)
(***************************************************************************)
When(component, A) == which = component /\ A /\ UNCHANGED which

\* The variables of the component that runs
running ==
    CASE which = "shutdown" -> vars
      [] which = "pool" -> poolVars
      [] which = "election" -> electionVars
      [] which = "monitor" -> monitorVars
      [] which = "wire" -> wireVars
      [] which = "async" -> asyncVars
      [] which = "grpc" -> grpcVars
      [] which = "process" -> processVars
      [] which = "engine" -> engineVars
      [] which = "watcher" -> watcherVars

FairStep1 ==
    \/ When("shutdown", ListenerStep) \/ When("pool", PoolM!Proceed("t1")) \/ When("election", ElectionM!DaemonStep("d1"))
    \/ When("monitor", MonitorM!MonitorStep) \/ When("wire", WireM!ClientReads)
    \/ When("async", AsyncM!Untainted /\ AsyncM!ClientSteps)
    \/ When("grpc", GrpcM!Executor) \/ When("engine", EngineM!ToolStep("a")) \/ When("watcher", WatcherM!TakeEvent)
    \/ When("process", ProcessM!WaitReturns(1) \/ ProcessM!KillAfterTimeout(1) \/ ProcessM!RemoveSocketDir(1))
FairStep2 ==
    \/ When("shutdown", lossy /\ AcceptReturnsNothing) \/ When("pool", PoolM!Proceed("t2"))
    \/ When("election", ElectionM!DaemonStep("d2")) \/ When("wire", WireM!Server)
    \/ When("async", AsyncM!Untainted /\ AsyncM!AsyncServer)
    \/ When("grpc", GrpcM!QueryCompletes) \/ When("engine", EngineM!ToolStep("b")) \/ When("watcher", WatcherM!SweepNext)
    \/ When("process", ProcessM!WaitReturns(2) \/ ProcessM!KillAfterTimeout(2) \/ ProcessM!RemoveSocketDir(2))
FairStep3 ==
    \/ When("shutdown", WakeConnects) \/ When("pool", PoolM!Proceed("t3")) \/ When("election", ElectionM!ListenerExits("d1"))
    \/ When("engine", EngineM!JobUpserts("w")) \/ When("watcher", WatcherM!Arm)
FairStep4 ==
    \/ When("shutdown", MainJoins) \/ When("pool", PoolM!Release("t1")) \/ When("election", ElectionM!ListenerExits("d2"))
    \/ When("engine", EngineM!BootCatalog(EngineM!Status)) \/ When("watcher", WatcherM!JobStep(0))
FairStep5 ==
    \/ When("shutdown", permit /\ MainSelects) \/ When("pool", PoolM!Release("t2")) \/ When("election", ElectionM!OrphanExits("d1"))
    \/ When("engine", EngineM!StatusReports) \/ When("watcher", WatcherM!JobStep(1))
FairStep6 ==
    \/ When("shutdown", StoreShutdown("main") \/ NotifyMain("main") \/ WakeAcceptLoop("main"))
    \/ When("pool", PoolM!Release("t3")) \/ When("election", ElectionM!OrphanExits("d2")) \/ When("watcher", WatcherM!JobStep(2))
FairStep7 ==
    \/ When("shutdown", StoreShutdown("h1") \/ NotifyMain("h1") \/ WakeAcceptLoop("h1"))
    \/ When("election", ElectionM!ClientStep("c1"))
FairStep8 ==
    \/ When("shutdown", StoreShutdown("h2") \/ NotifyMain("h2") \/ WakeAcceptLoop("h2"))
    \/ When("election", ElectionM!ClientStep("c2"))

ProgressFairness ==
    /\ WF_running(FairStep1) /\ WF_running(FairStep2) /\ WF_running(FairStep3) /\ WF_running(FairStep4)
    /\ WF_running(FairStep5) /\ WF_running(FairStep6) /\ WF_running(FairStep7) /\ WF_running(FairStep8)

ProgressSpec == ProgressInit /\ [][ProgressNext]_allVars /\ ProgressFairness

-----------------------------------------------------------------------------
(* The liveness properties of the components, by their modules' names      *)

\* Every get() of the blocking pool returns, however many threads wait for one
\* connection.
EveryGetReturns == PoolM!EveryGetReturns

\* However many clients start at once, each ends up with a daemon.
EnsureSucceeds == ElectionM!EnsureSucceeds

\* A dead hyperd is noticed by the monitor and restarted or given up on.
DeadEngineIsHandled == MonitorM!DeadEngineIsHandled

\* Every call ends that the code bounds or that others hold a lock for: the drains
\* of both wire connections, a gRPC query in every transfer mode and with its
\* retry, a shutdown with a timeout, and the tool calls that share the engine.
CallsEnd ==
    /\ WireM!DrainsEnd
    /\ AsyncM!AsyncDrainsEnd
    /\ GrpcM!GrpcQueryEnds
    /\ ProcessM!TimedShutdownEnds
    /\ EngineM!ToolCallsEnd

\* A file that was announced to an armed watch is ingested or moved to failed/.
WatchedFileIsHandled == WatcherM!WatchedFileIsHandled

=============================================================================
