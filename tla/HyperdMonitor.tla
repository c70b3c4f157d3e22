---------------------------- MODULE HyperdMonitor ----------------------------
(***************************************************************************)
(* The daemon keeps its hyperd running: hyperd_monitor, try_restart_hyperd *)
(* and try_record_restart_attempt (hyperdb-mcp/src/daemon/run.rs), the     *)
(* restart flag of health.rs, and the clients that read the endpoint from  *)
(* daemon.json, compare it with STATUS, connect to it and report a hyperd  *)
(* that fails them (discovery.rs, engine.rs, server.rs).                   *)
(*                                                                         *)
(* A hyperd is named by its epoch.  Its endpoint is a pipe name of its own *)
(* on Windows and the one path <state_dir>/sockets/hyper on Unix.  Time is *)
(* measured in poll intervals and kept as ages, capped at RestartWindow.   *)
(***************************************************************************)
EXTENDS Integers, Sequences, FiniteSets

CONSTANTS Clients,
          MaxEpoch,        \* bound: hyperd processes started
          RestartLimit,    \* RESTART_LIMIT
          RestartWindow,   \* RESTART_WINDOW, in poll intervals
          CallbackTimeout, \* how long HyperProcess::new waits, in poll intervals
          Outcomes,        \* what a spawn may come to
          UniqueEndpoint   \* TRUE for named pipes, FALSE for the Unix socket

SpawnOutcomes == {"ok", "fails", "no_callback", "write_fails"}

ASSUME ConstAssumption ==
    /\ {MaxEpoch, RestartLimit, RestartWindow, CallbackTimeout} \subseteq Nat \ {0}
    /\ Outcomes \subseteq SpawnOutcomes
    /\ UniqueEndpoint \in BOOLEAN

VARIABLES mpc,      \* where the monitor task is
          due,      \* has the poll interval elapsed?
          hyper,    \* HyperState::hyper, 0 when None
          new,      \* try_restart_hyperd's new_hyper, 0 when there is none
          spawned,  \* epochs started so far
          alive,    \* epochs whose process runs
          orphans,  \* epochs whose start timed out: no handle was kept
          history,  \* HyperState::restart_history, as ages
          recent,   \* ages of the last RestartLimit attempts, never pruned
          file,     \* the endpoint in daemon.json
          status,   \* the endpoint STATUS reports
          reports,  \* restart_requested: the epochs it was set for
          cpc,      \* where each client is
          used,     \* the endpoint each client works with
          session   \* the hyperd each client is connected to, 0 for none

monitor == <<mpc, due, hyper, new, spawned, history, recent>>
clients == <<cpc, used, session>>
vars == <<monitor, alive, orphans, file, status, reports, clients>>

\* connection_endpoint_string
EndpointOf(e) == IF UniqueEndpoint THEN e ELSE 1

Init ==
    /\ mpc = "sleep"
    /\ due = FALSE
    /\ hyper = 1
    /\ new = 0
    /\ spawned = 1
    /\ alive = {1}
    /\ orphans = {}
    /\ history = <<>>
    /\ recent = <<>>
    /\ file = EndpointOf(1)
    /\ status = EndpointOf(1)
    /\ reports = {}
    /\ cpc = [c \in Clients |-> "idle"]
    /\ used = [c \in Clients |-> 0]
    /\ session = [c \in Clients |-> 0]

-----------------------------------------------------------------------------
(* Time *)

Older(ages, n) == [i \in DOMAIN ages |->
                     IF ages[i] + n < RestartWindow THEN ages[i] + n ELSE RestartWindow]

\* The monitor's sleep ends
PollElapses ==
    /\ mpc = "sleep"
    /\ ~due
    /\ due' = TRUE
    /\ history' = Older(history, 1)
    /\ recent' = Older(recent, 1)
    /\ UNCHANGED <<mpc, hyper, new, spawned, alive, file, status, reports, clients, orphans>>

\* hyperd crashes
HyperdDies(e) ==
    /\ e \in alive
    /\ alive' = alive \ {e}
    /\ UNCHANGED <<monitor, file, status, reports, clients, orphans>>

-----------------------------------------------------------------------------
(* hyperd_monitor *)

ProcessDead == hyper = 0 \/ hyper \notin alive

\* Mutant: only a reported hyperd is looked at
PollReportsOnly ==
    /\ mpc = "sleep"
    /\ due
    /\ due' = FALSE
    /\ reports' = {}
    /\ mpc' = IF reports # {} THEN "restart" ELSE "sleep"
    /\ UNCHANGED <<hyper, new, spawned, history, recent, alive, file, status, clients, orphans>>

\* One poll: a dead process is restarted, and so is one that clients reported.
\* Either way the flag is consumed with the decision.
Poll ==
    /\ mpc = "sleep"
    /\ due
    /\ due' = FALSE
    /\ reports' = {}
    /\ mpc' = IF ProcessDead \/ reports # {} THEN "restart" ELSE "sleep"
    /\ UNCHANGED <<hyper, new, spawned, history, recent, alive, file, status, clients, orphans>>

\* Mutant: an attempt leaves the window a poll early
PrunedEarly == SubSeq(history, Cardinality({i \in DOMAIN history : history[i] + 1 >= RestartWindow}) + 1, Len(history))

\* try_record_restart_attempt: prune, compare, push.  The attempts are in the
\* order they were made, so what `retain' drops is at the front
Expired == {i \in DOMAIN history : history[i] >= RestartWindow}
Pruned == SubSeq(history, Cardinality(Expired) + 1, Len(history))

\* The rate limit, then the old hyperd is dropped (and reaped)
RecordAttempt ==
    /\ mpc = "restart"
    /\ IF Len(Pruned) >= RestartLimit
         THEN /\ mpc' = "returned"
              /\ history' = Pruned
              /\ UNCHANGED <<hyper, alive, recent>>
         ELSE /\ mpc' = "respawn"
              /\ history' = Append(Pruned, 0)
              /\ recent' = (IF Len(recent) = RestartLimit THEN Tail(recent) ELSE recent) \o <<0>>
              /\ hyper' = 0
              /\ alive' = alive \ {hyper}
    /\ UNCHANGED <<due, new, spawned, file, status, reports, clients, orphans>>

\* build_params refuses to start a hyperd while another one answers on the
\* Unix socket
SocketTaken == ~UniqueEndpoint /\ alive # {}

\* build_params and HyperProcess::new
Respawn ==
    /\ mpc = "respawn"
    /\ Outcomes \cap {"ok", "write_fails"} # {}
    /\ ~SocketTaken
    /\ spawned < MaxEpoch
    /\ spawned' = spawned + 1
    /\ new' = spawned + 1
    /\ alive' = alive \cup {spawned + 1}
    /\ mpc' = "publish"
    /\ UNCHANGED <<due, hyper, history, recent, file, status, reports, clients, orphans>>

\* SpawnFailed at once
RespawnFails ==
    /\ mpc = "respawn"
    /\ SocketTaken \/ "fails" \in Outcomes
    /\ mpc' = "sleep"
    /\ UNCHANGED <<due, hyper, new, spawned, history, recent, alive, file, status, reports, clients, orphans>>

\* SpawnFailed after the wait for the callback connection.  start_server drops
\* the Child without killing it: the process may have exited, or it runs on.
RespawnTimesOut ==
    /\ mpc = "respawn"
    /\ "no_callback" \in Outcomes
    /\ ~SocketTaken
    /\ history' = Older(history, CallbackTimeout)
    /\ recent' = Older(recent, CallbackTimeout)
    /\ \/ UNCHANGED <<spawned, alive, orphans>>
       \/ /\ spawned < MaxEpoch
          /\ spawned' = spawned + 1
          /\ alive' = alive \cup {spawned + 1}
          /\ orphans' = orphans \cup {spawned + 1}
    /\ mpc' = "sleep"
    /\ UNCHANGED <<due, hyper, new, file, status, reports, clients>>

\* The info lock is taken and daemon.json written
WriteFile ==
    /\ mpc = "publish"
    /\ "ok" \in Outcomes
    /\ file' = EndpointOf(new)
    /\ mpc' = "status"
    /\ UNCHANGED <<due, hyper, new, spawned, history, recent, alive, status, reports, clients, orphans>>

\* Mutant: new_hyper outlives the failed write
WriteFileFailsLeaks ==
    /\ mpc = "publish"
    /\ "write_fails" \in Outcomes
    /\ new' = 0
    /\ mpc' = "sleep"
    /\ UNCHANGED <<due, hyper, spawned, history, recent, alive, file, status, reports, clients, orphans>>

\* The write fails: `?' drops new_hyper and leaves STATUS as it was
WriteFileFails ==
    /\ mpc = "publish"
    /\ "write_fails" \in Outcomes
    /\ alive' = alive \ {new}
    /\ new' = 0
    /\ mpc' = "sleep"
    /\ UNCHANGED <<due, hyper, spawned, history, recent, file, status, reports, clients, orphans>>

\* Mutant: STATUS is not updated after the file
UpdateStatusForgotten ==
    /\ mpc = "status"
    /\ hyper' = new
    /\ new' = 0
    /\ mpc' = "drain"
    /\ UNCHANGED <<due, spawned, history, recent, alive, file, status, reports, clients, orphans>>

\* STATUS follows, the info lock is released and the new hyperd takes its place
UpdateStatus ==
    /\ mpc = "status"
    /\ status' = EndpointOf(new)
    /\ hyper' = new
    /\ new' = 0
    /\ mpc' = "drain"
    /\ UNCHANGED <<due, spawned, history, recent, alive, file, reports, clients, orphans>>

\* Reports that came in during the restart were about the old hyperd
Drain ==
    /\ mpc = "drain"
    /\ reports' = {}
    /\ mpc' = "sleep"
    /\ UNCHANGED <<due, hyper, new, spawned, history, recent, alive, file, status, clients, orphans>>

MonitorStep ==
    \/ PollElapses \/ Poll \/ RecordAttempt \/ Respawn \/ RespawnFails
    \/ RespawnTimesOut \/ WriteFile \/ WriteFileFails \/ UpdateStatus \/ Drain

-----------------------------------------------------------------------------
(* Clients *)

CGoto(c, where) == cpc' = [cpc EXCEPT ![c] = where]

\* discover_in: the endpoint in daemon.json
ReadRecord(c) ==
    /\ cpc[c] = "idle"
    /\ used' = [used EXCEPT ![c] = file]
    /\ CGoto(c, "ask")
    /\ UNCHANGED <<monitor, alive, orphans, file, status, reports, session>>

\* trusted_hyperd_endpoint: STATUS, which waits for the info lock, must agree;
\* otherwise the client works without the daemon
AskStatus(c) ==
    /\ cpc[c] = "ask"
    /\ mpc # "status"
    /\ CGoto(c, IF status = used[c] THEN "connect" ELSE "local")
    /\ UNCHANGED <<monitor, alive, orphans, file, status, reports, used, session>>

\* try_daemon_mode connects: some hyperd answers at the endpoint, or none does
Connect(c) ==
    /\ cpc[c] = "connect"
    /\ \/ \E e \in alive :
             /\ EndpointOf(e) = used[c]
             /\ session' = [session EXCEPT ![c] = e]
             /\ CGoto(c, "connected")
       \/ /\ \A e \in alive : EndpointOf(e) # used[c]
          /\ CGoto(c, "report")
          /\ UNCHANGED session
    /\ UNCHANGED <<monitor, alive, orphans, file, status, reports, used>>

\* with_engine: a tool call comes back with ConnectionLost, because hyperd is
\* gone or because this client's wire lost its place; the engine is dropped
ConnectionLost(c) ==
    /\ cpc[c] = "connected"
    /\ CGoto(c, "report")
    /\ UNCHANGED <<monitor, alive, orphans, file, status, reports, used, session>>

\* report_hyperd_error_to_daemon.  The message does not say which hyperd it is
\* about; `reports' remembers it, as 0 when none answered.
Report(c) ==
    /\ cpc[c] = "report"
    /\ reports' = reports \cup {session[c]}
    /\ session' = [session EXCEPT ![c] = 0]
    /\ CGoto(c, "idle")
    /\ UNCHANGED <<monitor, alive, orphans, file, status, used>>

ClientStep(c) ==
    ReadRecord(c) \/ AskStatus(c) \/ Connect(c) \/ ConnectionLost(c) \/ Report(c)

-----------------------------------------------------------------------------
\* The monitor has returned; run_daemon shuts the daemon down
Stopped == mpc = "returned" /\ UNCHANGED vars

\* should_shutdown is seen after the sleep
ShutdownSeen ==
    /\ mpc = "sleep"
    /\ due
    /\ mpc' = "returned"
    /\ UNCHANGED <<due, hyper, new, spawned, history, recent, alive, orphans, file, status, reports, clients>>

Next ==
    \/ MonitorStep
    \/ ShutdownSeen
    \/ \E e \in 1 .. MaxEpoch : HyperdDies(e)
    \/ \E c \in Clients : ClientStep(c)
    \/ Stopped

Spec == Init /\ [][Next]_vars

\* The monitor task is polled by the runtime; nothing makes hyperd die or
\* clients call.
FairSpec == Spec /\ WF_vars(MonitorStep)

-----------------------------------------------------------------------------
(* Properties *)

Epochs == 0 .. MaxEpoch
Ages == Seq(0 .. RestartWindow)

TypeOK ==
    /\ mpc \in {"sleep", "restart", "respawn", "publish", "status", "drain", "returned"}
    /\ due \in BOOLEAN
    /\ {hyper, new, spawned, file, status} \subseteq Epochs
    /\ alive \subseteq 1 .. spawned
    /\ orphans \subseteq 1 .. spawned
    /\ history \in Ages /\ Len(history) <= RestartLimit
    /\ recent \in Ages
    /\ reports \subseteq 0 .. spawned
    /\ cpc \in [Clients -> {"idle", "ask", "local", "connect", "connected", "report"}]
    /\ used \in [Clients -> Epochs]
    /\ session \in [Clients -> 0 .. spawned]

(***************************************************************************)
(* daemon.json and STATUS never disagree for a client that can ask, and    *)
(* both name the hyperd the daemon manages whenever it manages one: a      *)
(* failed write or spawn leaves no endpoint behind that was never served.  *)
(***************************************************************************)
PublishedTogether ==
    /\ mpc # "status" => status = file
    /\ hyper # 0 => status = EndpointOf(hyper)

(***************************************************************************)
(* A live hyperd is the one the daemon manages or is about to publish, or  *)
(* one whose start timed out; and a client that went through daemon.json   *)
(* and STATUS to an endpoint of its own never reaches that last kind.  On  *)
(* every error path of a restart, no other process is left behind.         *)
(***************************************************************************)
NoUnmanagedEngine ==
    /\ alive \subseteq {hyper, new} \cup orphans
    /\ UniqueEndpoint =>
         \A c \in Clients : session[c] \in alive => session[c] \in {hyper, new}

(***************************************************************************)
(* More than RESTART_LIMIT attempts never fall within RESTART_WINDOW: the  *)
(* history stays within the limit (TypeOK), and when an attempt is made,   *)
(* the one RESTART_LIMIT attempts back is out of the window.               *)
(***************************************************************************)
RestartsAreRateLimited ==
    /\ []TypeOK
    /\ [][mpc = "restart" /\ mpc' = "respawn" /\ Len(recent) = RestartLimit
            => recent[1] >= RestartWindow]_vars

(***************************************************************************)
(* A hyperd that died is handled without anyone reporting it: a new one is *)
(* being started, or runs, or the daemon has given up and shuts down.      *)
(***************************************************************************)
DeadEngineIsHandled ==
    ProcessDead ~> (~ProcessDead \/ mpc \in {"respawn", "returned"})

(***************************************************************************)
(* "a broken hyperd binary should not spin forever" (try_restart_hyperd).  *)
(***************************************************************************)
BrokenEngineGivesUp == ProcessDead ~> mpc = "returned"

(***************************************************************************)
(* The monitor drains the flag "so a stale post-death report doesn't cause *)
(* a spurious double-restart": it restarts a live hyperd only when that    *)
(* very hyperd was reported.                                               *)
(***************************************************************************)
NoSpuriousRestart ==
    [][mpc = "sleep" /\ mpc' = "restart" /\ ~ProcessDead => hyper \in reports]_vars
=============================================================================
