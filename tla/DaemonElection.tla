--------------------------- MODULE DaemonElection ---------------------------
(***************************************************************************)
(* How MCP clients find, start and replace the one hyperdb daemon of a     *)
(* state directory: hyperdb-mcp/src/daemon/{run,spawn,discovery,lock}.rs.  *)
(*                                                                         *)
(* Shared state is what the processes see of each other: the daemon lock   *)
(* (an flock, released by the kernel when its holder dies), daemon.json,   *)
(* the control socket and the socket hyperd binds.  The control socket's   *)
(* path is the same for every daemon of the directory, so whoever listens  *)
(* there answers, whichever daemon the caller meant.                       *)
(*                                                                         *)
(* Deadlines are choices that the constants Timeouts and Faults admit:     *)
(* a wait may end, a process may be killed, a call may fail.               *)
(***************************************************************************)
EXTENDS Naturals, FiniteSets

CONSTANTS Daemons,     \* daemon processes that may be launched
          Clients,     \* MCP clients that call ensure_daemon once
          NoOne,       \* nobody holds the lock, no record, no socket
          Version,     \* [Clients -> Nat]: a client's MCP_VERSION
          FirstVersion,\* version of the daemons users start by hand
          Manual,      \* may users start daemons by hand?
          Timeouts,    \* may a bounded wait expire?
          Faults       \* may processes die, calls fail, signals arrive?

ASSUME ConstAssumption ==
    /\ NoOne \notin Daemons \cup Clients
    /\ Daemons \cap Clients = {}
    /\ Version \in [Clients -> Nat]
    /\ FirstVersion \in Nat
    /\ {Manual, Timeouts, Faults} \subseteq BOOLEAN

VARIABLES dir,       \* does the state directory exist?
          lock,      \* DaemonLock: a daemon, a client or NoOne
          record,    \* daemon.json: the daemon it names
          sock,      \* the daemon that bound the control socket path
          dpc,       \* daemon: where run_daemon is
          ver,       \* daemon: CARGO_PKG_VERSION of its binary
          listening, \* daemon: does its HealthListener answer?
          shutdown,  \* daemon: DaemonState::shutdown
          hyperd,    \* daemon: its hyperd, "none", "up" or "orphan"
          cpc,       \* client: where ensure_daemon_in is
          info,      \* client: the DaemonInfo last read from daemon.json
          old        \* client: the daemon maybe_take_over decided to stop

files   == <<dir, lock, record, sock>>
daemons == <<dpc, ver, listening, shutdown, hyperd>>
clients == <<cpc, info, old>>
vars    == <<files, daemons, clients>>

-----------------------------------------------------------------------------
(* run_daemon's stages *)

\* Stages in which a daemon holds the lock
LockedStages == {"locked", "bound", "engine", "published", "serving", "stopping",
                 "unpublished", "joined", "failing", "released"}
\* Stages in which its hyperd runs under its control
EngineStages == {"engine", "published", "serving", "stopping", "unpublished", "joined"}
Stages == LockedStages \cup {"off", "locking", "seen_alive", "exited", "killed"}

\* Stages of ensure_daemon_in that hold the lock
ClientLocked == {"cleanup", "unlock", "probing"}
ClientStages == ClientLocked \cup
    {"start", "discover", "ping", "trylock", "held", "spawn", "wait", "wait_ping",
     "decide", "stop", "release", "rediscover", "re_ping", "ok", "error"}

Init ==
    /\ dir \in BOOLEAN
    /\ lock = NoOne
    /\ record = NoOne
    /\ sock = NoOne
    /\ dpc = [d \in Daemons |-> "off"]
    /\ ver = [d \in Daemons |-> FirstVersion]
    /\ listening = [d \in Daemons |-> FALSE]
    /\ shutdown = [d \in Daemons |-> FALSE]
    /\ hyperd = [d \in Daemons |-> "none"]
    /\ cpc = [c \in Clients |-> "start"]
    /\ info = [c \in Clients |-> NoOne]
    /\ old = [c \in Clients |-> NoOne]

DGoto(d, stage) == dpc' = [dpc EXCEPT ![d] = stage]
CGoto(c, stage) == cpc' = [cpc EXCEPT ![c] = stage]

\* An identified PING sent to the control socket is answered
Answered == sock # NoOne /\ listening[sock]

\* A connection to the control socket is accepted (by the backlog, before the
\* listener thread runs)
SocketOpen ==
    sock # NoOne /\ (listening[sock] \/ dpc[sock] \in {"bound", "engine", "published"})

\* discover_in, for a daemon that waits for the lock
Discovers == record # NoOne /\ Answered

-----------------------------------------------------------------------------
(* The daemon: run_daemon *)

\* `hyperdb-mcp daemon' typed by a user
StartByHand(d) ==
    /\ Manual
    /\ dpc[d] = "off"
    /\ DGoto(d, "locking")
    /\ dir' = TRUE
    /\ UNCHANGED <<lock, record, sock, ver, listening, shutdown, hyperd, clients>>

\* acquire_lock: the lock is free
TakeLock(d) ==
    /\ dpc[d] \in {"locking", "seen_alive"}
    /\ lock = NoOne
    /\ lock' = d
    /\ dir' = TRUE
    /\ DGoto(d, "locked")
    /\ UNCHANGED <<record, sock, ver, listening, shutdown, hyperd, clients>>

\* acquire_lock: the lock is held; give up once the holder has kept answering
LockHeld(d) ==
    /\ dpc[d] \in {"locking", "seen_alive"}
    /\ lock # NoOne
    /\ \/ Discovers /\ dpc[d] = "locking" /\ DGoto(d, "seen_alive")
       \/ Discovers /\ dpc[d] = "seen_alive" /\ DGoto(d, "exited")
       \/ ~Discovers /\ dpc[d] = "seen_alive" /\ DGoto(d, "locking")
       \/ Timeouts /\ DGoto(d, "exited")
    /\ UNCHANGED <<files, ver, listening, shutdown, hyperd, clients>>

\* HealthListener::bind: a socket nobody has open is reclaimed, a live one is
\* an error
Bind(d) ==
    /\ dpc[d] = "locked"
    /\ IF SocketOpen
         THEN DGoto(d, "failing") /\ UNCHANGED sock
         ELSE DGoto(d, "bound") /\ sock' = d
    /\ UNCHANGED <<dir, lock, record, ver, listening, shutdown, hyperd, clients>>

\* Some hyperd is bound to <state_dir>/sockets/hyper
EngineBound == \E d \in Daemons : hyperd[d] # "none"

\* Mutant: build_params without the pre-flight connect
StartEngineNoPreflight(d) ==
    /\ dpc[d] = "bound"
    /\ hyperd' = [hyperd EXCEPT ![d] = "up"]
    /\ DGoto(d, "engine")
    /\ UNCHANGED <<files, ver, listening, shutdown, clients>>

\* build_params_waiting, then HyperProcess::new
StartEngine(d) ==
    /\ dpc[d] = "bound"
    /\ ~EngineBound
    /\ hyperd' = [hyperd EXCEPT ![d] = "up"]
    /\ DGoto(d, "engine")
    /\ UNCHANGED <<files, ver, listening, shutdown, clients>>

\* The pre-flight keeps failing until the deadline
EngineSocketTimeout(d) ==
    /\ Timeouts
    /\ dpc[d] = "bound"
    /\ EngineBound
    /\ DGoto(d, "failing")
    /\ UNCHANGED <<files, ver, listening, shutdown, hyperd, clients>>

\* HyperProcess::new fails: before the spawn, or waiting for the callback, when
\* the child it started is left to notice that nobody accepts its connection
StartEngineFails(d) ==
    /\ Faults
    /\ dpc[d] = "bound"
    /\ ~EngineBound
    /\ \E left \in {"none", "orphan"} : hyperd' = [hyperd EXCEPT ![d] = left]
    /\ DGoto(d, "failing")
    /\ UNCHANGED <<files, ver, listening, shutdown, clients>>

\* write_enriched_discovery_file_in: temporary file, then rename
WriteRecord(d) ==
    /\ dpc[d] = "engine"
    /\ record' = d
    /\ DGoto(d, "published")
    /\ UNCHANGED <<dir, lock, sock, ver, listening, shutdown, hyperd, clients>>

\* The record cannot be written: `?' drops hyper, listener and lock, in that order
WriteRecordFails(d) ==
    /\ Faults
    /\ dpc[d] = "engine"
    /\ hyperd' = [hyperd EXCEPT ![d] = "none"]
    /\ DGoto(d, "failing")
    /\ UNCHANGED <<files, ver, listening, shutdown, clients>>

\* The listener thread starts to answer
StartListener(d) ==
    /\ dpc[d] = "published"
    /\ listening' = [listening EXCEPT ![d] = TRUE]
    /\ DGoto(d, "serving")
    /\ UNCHANGED <<files, ver, shutdown, hyperd, clients>>

\* select!: a STOP was received, or the idle timeout, a signal or the restart
\* limit ends the daemon; either way request_shutdown is called
BeginShutdown(d) ==
    /\ dpc[d] = "serving"
    /\ shutdown[d] \/ Faults
    /\ shutdown' = [shutdown EXCEPT ![d] = TRUE]
    /\ DGoto(d, "stopping")
    /\ UNCHANGED <<files, ver, listening, hyperd, clients>>

\* HealthListener::run returns: the listener is dropped, which unlinks the
\* socket if the path still is the one it bound
ListenerExits(d) ==
    /\ listening[d]
    /\ shutdown[d]
    /\ listening' = [listening EXCEPT ![d] = FALSE]
    /\ sock' = IF sock = d THEN NoOne ELSE sock
    /\ UNCHANGED <<dir, lock, record, dpc, ver, shutdown, hyperd, clients>>

\* remove_discovery_file_in
RemoveRecord(d) ==
    /\ dpc[d] = "stopping"
    /\ record' = NoOne
    /\ DGoto(d, "unpublished")
    /\ UNCHANGED <<dir, lock, sock, ver, listening, shutdown, hyperd, clients>>

\* health_handle.join()
JoinListener(d) ==
    /\ dpc[d] = "unpublished"
    /\ ~listening[d]
    /\ DGoto(d, "joined")
    /\ UNCHANGED <<files, ver, listening, shutdown, hyperd, clients>>

\* Mutant: the lock is dropped before hyperd
DropEngineAfterLock(d) ==
    /\ dpc[d] = "joined"
    /\ lock' = NoOne
    /\ DGoto(d, "released")
    /\ UNCHANGED <<dir, record, sock, ver, listening, shutdown, hyperd, clients>>

\* drop(hyper_state): hyperd has exited when the drop returns
DropEngine(d) ==
    /\ dpc[d] = "joined"
    /\ hyperd' = [hyperd EXCEPT ![d] = "none"]
    /\ DGoto(d, "released")
    /\ UNCHANGED <<files, ver, listening, shutdown, clients>>

\* The error path drops the listener, which unlinks its own socket
DropListener(d) ==
    /\ dpc[d] = "failing"
    /\ sock' = IF sock = d THEN NoOne ELSE sock
    /\ DGoto(d, "released")
    /\ UNCHANGED <<dir, lock, record, ver, listening, shutdown, hyperd, clients>>

\* drop(lock), the last thing a daemon does
ReleaseLock(d) ==
    /\ dpc[d] = "released"
    /\ lock' = NoOne
    /\ DGoto(d, "exited")
    /\ UNCHANGED <<dir, record, sock, ver, listening, shutdown, hyperd, clients>>

\* The daemon is killed.  The kernel releases the lock and closes its sockets;
\* daemon.json, the socket path and hyperd stay behind.
Kill(d) ==
    /\ Faults
    /\ dpc[d] \notin {"off", "exited", "killed"}
    /\ lock' = IF lock = d THEN NoOne ELSE lock
    /\ listening' = [listening EXCEPT ![d] = FALSE]
    /\ hyperd' = [hyperd EXCEPT ![d] = IF @ = "none" THEN "none" ELSE "orphan"]
    /\ DGoto(d, "killed")
    /\ UNCHANGED <<dir, record, sock, ver, shutdown, clients>>

\* hyperd sees its callback connection closed and exits
OrphanExits(d) ==
    /\ hyperd[d] = "orphan"
    /\ hyperd' = [hyperd EXCEPT ![d] = "none"]
    /\ UNCHANGED <<files, dpc, ver, listening, shutdown, clients>>

DaemonStep(d) ==
    \/ TakeLock(d) \/ LockHeld(d) \/ Bind(d) \/ StartEngine(d) \/ EngineSocketTimeout(d)
    \/ StartEngineFails(d) \/ WriteRecord(d) \/ WriteRecordFails(d) \/ StartListener(d)
    \/ BeginShutdown(d) \/ RemoveRecord(d) \/ JoinListener(d) \/ DropEngine(d)
    \/ DropListener(d) \/ ReleaseLock(d)

-----------------------------------------------------------------------------
(* The client: ensure_daemon_in *)

EnsureDaemon(c) ==
    /\ cpc[c] = "start"
    /\ CGoto(c, "discover")
    /\ UNCHANGED <<files, daemons, info, old>>

\* Mutant: a missing record is not told apart from one that was read
ReadRecordUnchecked(c) ==
    /\ cpc[c] \in {"discover", "wait", "rediscover"}
    /\ info' = [info EXCEPT ![c] = record]
    /\ CGoto(c, CASE cpc[c] = "discover"   -> "ping"
                  [] cpc[c] = "wait"       -> "wait_ping"
                  [] cpc[c] = "rediscover" -> "re_ping")
    /\ UNCHANGED <<files, daemons, old>>

\* discover_in, first half: read daemon.json.  A missing record ends it.
ReadRecord(c) ==
    /\ info' = [info EXCEPT ![c] = record]
    /\ \/ cpc[c] = "discover" /\ record = NoOne /\ CGoto(c, "trylock")
       \/ cpc[c] = "discover" /\ record # NoOne /\ CGoto(c, "ping")
       \/ cpc[c] = "wait" /\ record # NoOne /\ CGoto(c, "wait_ping")
       \/ cpc[c] = "rediscover" /\ record = NoOne /\ CGoto(c, "spawn")
       \/ cpc[c] = "rediscover" /\ record # NoOne /\ CGoto(c, "re_ping")
    /\ UNCHANGED <<files, daemons, old>>

\* discover_in, second half: whoever listens at the control socket answers the
\* PING.  After a takeover, only a daemon other than the stopped one is adopted.
Ping(c) ==
    /\ \/ cpc[c] = "ping" /\ CGoto(c, IF Answered THEN "decide" ELSE "trylock")
       \/ cpc[c] = "wait_ping" /\ CGoto(c, IF Answered THEN "ok" ELSE "wait")
       \/ /\ cpc[c] = "re_ping"
          /\ CGoto(c, IF Answered /\ info[c] # old[c] THEN "ok" ELSE "spawn")
    /\ UNCHANGED <<files, daemons, info, old>>

\* Mutant: looks whether the lock is free without keeping it
TryLockJustLooks(c) ==
    /\ cpc[c] = "trylock"
    /\ CGoto(c, IF ~dir THEN "spawn" ELSE IF lock = NoOne THEN "cleanup" ELSE "held")
    /\ UNCHANGED <<files, daemons, info, old>>

\* No live daemon was found: is the lock free?  Without a state directory there
\* is no lock to try, and the client spawns right away.
TryLock(c) ==
    /\ cpc[c] = "trylock"
    /\ \/ ~dir /\ CGoto(c, "spawn") /\ UNCHANGED lock
       \/ dir /\ lock = NoOne /\ lock' = c /\ CGoto(c, "cleanup")
       \/ dir /\ lock # NoOne /\ CGoto(c, "held") /\ UNCHANGED lock
    /\ UNCHANGED <<dir, record, sock, daemons, info, old>>

\* remove_stale_record, under the lock
RemoveStaleRecord(c) ==
    /\ cpc[c] = "cleanup"
    /\ record' = NoOne
    /\ CGoto(c, "unlock")
    /\ UNCHANGED <<dir, lock, sock, daemons, info, old>>

\* Mutant: the client keeps the lock while it waits for the daemon
UnlockForgotten(c) ==
    /\ cpc[c] = "unlock"
    /\ CGoto(c, "spawn")
    /\ UNCHANGED <<files, daemons, info, old>>

\* drop(lock)
Unlock(c) ==
    /\ cpc[c] = "unlock"
    /\ lock' = NoOne
    /\ CGoto(c, "spawn")
    /\ UNCHANGED <<dir, record, sock, daemons, info, old>>

\* The lock is held and nothing answers: a daemon starts or stops, wait for it
PollHeld(c) ==
    /\ cpc[c] = "held"
    /\ CGoto(c, "discover")
    /\ UNCHANGED <<files, daemons, info, old>>

\* A wait of ensure_daemon_in or of wait_for_daemon runs into its timeout
PollTimeout(c) ==
    /\ Timeouts
    /\ cpc[c] \in {"held", "wait"}
    /\ CGoto(c, "error")
    /\ UNCHANGED <<files, daemons, info, old>>

\* spawn_detached: the new daemon runs the client's own binary
Spawn(c) ==
    /\ cpc[c] = "spawn"
    /\ \E d \in Daemons :
          /\ dpc[d] = "off"
          /\ DGoto(d, "locking")
          /\ ver' = [ver EXCEPT ![d] = Version[c]]
    /\ CGoto(c, "wait")
    /\ UNCHANGED <<files, listening, shutdown, hyperd, info, old>>

\* The process cannot be started
SpawnFails(c) ==
    /\ cpc[c] = "spawn"
    /\ Faults \/ \A d \in Daemons : dpc[d] # "off"
    /\ CGoto(c, "error")
    /\ UNCHANGED <<files, daemons, info, old>>

\* client_should_take_over
ShouldTakeOver(c, d) == Version[c] > ver[d]

\* maybe_take_over: reuse the daemon, or replace it when the client is newer
Decide(c) ==
    /\ cpc[c] = "decide"
    /\ IF ShouldTakeOver(c, info[c])
         THEN CGoto(c, "stop") /\ old' = [old EXCEPT ![c] = info[c]]
         ELSE CGoto(c, "ok") /\ UNCHANGED old
    /\ UNCHANGED <<files, daemons, info>>

\* STOP goes to the endpoint the record named, which is the socket path of the
\* state directory; a daemon that has not started its listener reads it later
SendStop(c) ==
    /\ cpc[c] = "stop"
    /\ shutdown' = [d \in Daemons |-> shutdown[d] \/ (SocketOpen /\ d = sock)]
    /\ CGoto(c, "release")
    /\ UNCHANGED <<files, dpc, ver, listening, hyperd, info, old>>

\* wait_for_lock_release: the probe takes the lock for an instant
ProbeLock(c) ==
    /\ cpc[c] = "release"
    /\ lock = NoOne
    /\ lock' = c
    /\ CGoto(c, "probing")
    /\ UNCHANGED <<dir, record, sock, daemons, info, old>>

ProbeDone(c) ==
    /\ cpc[c] = "probing"
    /\ lock' = NoOne
    /\ CGoto(c, "rediscover")
    /\ UNCHANGED <<dir, record, sock, daemons, info, old>>

\* wait_for_lock_release runs into its timeout: no takeover
GiveUpTakeover(c) ==
    /\ Timeouts
    /\ cpc[c] = "release"
    /\ lock # NoOne
    /\ CGoto(c, "error")
    /\ UNCHANGED <<files, daemons, info, old>>

\* The client process dies; the kernel releases the lock
ClientDies(c) ==
    /\ Faults
    /\ cpc[c] \notin {"start", "ok", "error"}
    /\ lock' = IF lock = c THEN NoOne ELSE lock
    /\ CGoto(c, "error")
    /\ UNCHANGED <<dir, record, sock, daemons, info, old>>

ClientStep(c) ==
    \/ EnsureDaemon(c) \/ ReadRecord(c) \/ Ping(c) \/ TryLock(c)
    \/ RemoveStaleRecord(c) \/ Unlock(c) \/ PollHeld(c) \/ Spawn(c) \/ SpawnFails(c)
    \/ Decide(c) \/ SendStop(c) \/ ProbeLock(c) \/ ProbeDone(c)

-----------------------------------------------------------------------------
\* Every client has its answer and every launched daemon rests
Quiescent ==
    /\ \A c \in Clients : cpc[c] \in {"ok", "error"}
    /\ \A d \in Daemons : dpc[d] \in {"off", "serving", "exited", "killed"}
    /\ UNCHANGED vars

Next ==
    \/ \E d \in Daemons : StartByHand(d) \/ DaemonStep(d) \/ ListenerExits(d)
                           \/ Kill(d) \/ OrphanExits(d)
    \/ \E c \in Clients : ClientStep(c) \/ PollTimeout(c) \/ GiveUpTakeover(c)
                           \/ ClientDies(c)
    \/ Quiescent

Spec == Init /\ [][Next]_vars

(***************************************************************************)
(* Processes that can run do run, the listener thread notices a shutdown   *)
(* (HealthShutdown shows why) and an orphaned hyperd exits.  A wait checks *)
(* its deadline every time around its loop, so it cannot go on for ever.   *)
(***************************************************************************)
Fairness ==
    /\ \A d \in Daemons : /\ WF_vars(DaemonStep(d))
                           /\ WF_vars(ListenerExits(d))
                           /\ WF_vars(OrphanExits(d))
    /\ \A c \in Clients : /\ WF_vars(ClientStep(c))
                           /\ SF_vars(PollTimeout(c))
                           /\ SF_vars(GiveUpTakeover(c))

FairSpec == Spec /\ Fairness

-----------------------------------------------------------------------------
(* Properties *)

TypeOK ==
    /\ dir \in BOOLEAN
    /\ lock \in Daemons \cup Clients \cup {NoOne}
    /\ record \in Daemons \cup {NoOne}
    /\ sock \in Daemons \cup {NoOne}
    /\ dpc \in [Daemons -> Stages]
    /\ ver \in [Daemons -> Nat]
    /\ listening \in [Daemons -> BOOLEAN]
    /\ shutdown \in [Daemons -> BOOLEAN]
    /\ hyperd \in [Daemons -> {"none", "up", "orphan"}]
    /\ cpc \in [Clients -> ClientStages]
    /\ info \in [Clients -> Daemons \cup {NoOne}]
    /\ old \in [Clients -> Daemons \cup {NoOne}]
    /\ \A c \in Clients : cpc[c] \in {"ping", "wait_ping", "re_ping", "decide"} =>
                              info[c] \in Daemons

(***************************************************************************)
(* A daemon that serves can be found: daemon.json names it and the control *)
(* socket is its own until it shuts down.  Nobody else's cleanup, shutdown,*)
(* takeover or crash takes either away.                                    *)
(***************************************************************************)
ServingIsDiscoverable ==
    \A d \in Daemons :
        dpc[d] = "serving" =>
            /\ record = d
            /\ shutdown[d] \/ (sock = d /\ listening[d])

(***************************************************************************)
(* A free lock means the daemon is fully gone (the promise that            *)
(* wait_for_lock_release relies on): while a daemon answers or its hyperd  *)
(* runs under it, it holds the lock; and a daemon that has ended by itself *)
(* leaves neither record nor socket behind.                                *)
(***************************************************************************)
FreeLockMeansGone ==
    \A d \in Daemons :
        /\ listening[d] \/ hyperd[d] = "up" => lock = d
        /\ dpc[d] = "exited" => record # d /\ sock # d

(***************************************************************************)
(* At most one hyperd is bound in the state directory, across crashes that *)
(* leave an orphan behind and two daemons that start at the same time.     *)
(***************************************************************************)
OneEngine ==
    \A d, e \in Daemons : hyperd[d] # "none" /\ hyperd[e] # "none" => d = e

(***************************************************************************)
(* Without faults, and without a takeover, every client gets a daemon      *)
(* however many of them start at once: the losers of the race for the lock *)
(* do not strand the clients that spawned them.                            *)
(***************************************************************************)
EnsureSucceeds == \A c \in Clients : cpc[c] = "discover" ~> cpc[c] = "ok"

(***************************************************************************)
(* maybe_take_over: "If the client is newer, it sends `STOP' to the old    *)
(* daemon".  The daemon that a STOP reaches is older than its sender.      *)
(***************************************************************************)
StopReachesOlderDaemon ==
    [][\A c \in Clients, d \in Daemons :
          cpc[c] = "stop" /\ cpc'[c] = "release" /\ ~shutdown[d] /\ shutdown'[d]
             => ShouldTakeOver(c, d)]_vars
=============================================================================
