--------------------------- MODULE HealthShutdown ---------------------------
(***************************************************************************)
(* Shutting the daemon down: DaemonState::request_shutdown against the     *)
(* accept loop of HealthListener::run and the join in run_daemon           *)
(* (hyperdb-mcp/src/daemon/{health,run}.rs).                               *)
(*                                                                         *)
(* A requester stores `shutdown', leaves a permit for the main task, then  *)
(* looks whether a listener is registered and connects to it if so; the    *)
(* listener registers, then looks at `shutdown' before it waits.  Both     *)
(* flags are SeqCst atomics, so steps are simply interleaved.              *)
(***************************************************************************)
EXTENDS Integers, Sequences, FiniteSets

CONSTANTS Handlers,     \* handle_client threads that will get a STOP
          MaxClients    \* bound: connections by other clients

ASSUME ConstAssumption ==
    /\ IsFiniteSet(Handlers)
    /\ "main" \notin Handlers
    /\ MaxClients \in Nat

VARIABLES lossy,               \* can wake connections fail on this machine?
          shutdown,            \* DaemonState::shutdown
          listener_registered, \* DaemonState::listener_registered
          permit,              \* the permit stored in shutdown_notify
          backlog,             \* connections waiting to be accepted
          wakes,               \* health-wake threads about to connect
          lpc,                 \* listener thread
          rpc,                 \* requesters: the main task and the handlers
          connected            \* connections by other clients so far

vars == <<lossy, shutdown, listener_registered, permit, backlog, wakes, lpc, rpc, connected>>

Requesters == Handlers \cup {"main"}

Init ==
    /\ lossy \in BOOLEAN
    /\ shutdown = FALSE
    /\ listener_registered = FALSE
    /\ permit = FALSE
    /\ backlog = <<>>
    /\ wakes = 0
    /\ lpc = "spawned"
    /\ rpc = [r \in Requesters |-> IF r = "main" THEN "select" ELSE "unborn"]
    /\ connected = 0

Goto(r, where) == rpc' = [rpc EXCEPT ![r] = where]

-----------------------------------------------------------------------------
(* Clients and the wake connection *)

SocketOpen == lpc # "done"

\* A client connects to send STOP (its handler h reads it), or something else
ClientConnects(h) ==
    /\ SocketOpen
    /\ rpc[h] = "unborn"
    /\ Goto(h, "queued")
    /\ backlog' = Append(backlog, h)
    /\ UNCHANGED <<lossy, shutdown, listener_registered, permit, wakes, lpc, connected>>

OtherClientConnects ==
    /\ SocketOpen
    /\ connected < MaxClients
    /\ connected' = connected + 1
    /\ backlog' = Append(backlog, "other")
    /\ UNCHANGED <<lossy, shutdown, listener_registered, permit, wakes, lpc, rpc>>

\* ControlListener::wake on its detached thread
WakeConnects ==
    /\ wakes > 0
    /\ wakes' = wakes - 1
    /\ \/ SocketOpen /\ backlog' = Append(backlog, "wake")
       \/ ~SocketOpen /\ UNCHANGED backlog
       \/ lossy /\ UNCHANGED backlog
    /\ UNCHANGED <<lossy, shutdown, listener_registered, permit, lpc, rpc, connected>>

-----------------------------------------------------------------------------
(* request_shutdown, by a handler that read STOP or by the main task *)

StoreShutdown(r) ==
    /\ rpc[r] = "store"
    /\ shutdown' = TRUE
    /\ Goto(r, "notify")
    /\ UNCHANGED <<lossy, listener_registered, permit, backlog, wakes, lpc, connected>>

\* notify_one stores a permit when nobody waits
NotifyMain(r) ==
    /\ rpc[r] = "notify"
    /\ permit' = TRUE
    /\ Goto(r, "wake")
    /\ UNCHANGED <<lossy, shutdown, listener_registered, backlog, wakes, lpc, connected>>

\* wake_accept_loop: only a registered listener is woken
WakeAcceptLoop(r) ==
    /\ rpc[r] = "wake"
    /\ wakes' = IF listener_registered THEN wakes + 1 ELSE wakes
    /\ Goto(r, IF r = "main" THEN "join" ELSE "done")
    /\ UNCHANGED <<lossy, shutdown, listener_registered, permit, backlog, lpc, connected>>

\* select! in run_daemon: the permit, or any other branch, ends the daemon
MainSelects ==
    /\ rpc["main"] = "select"
    /\ permit' \in {FALSE, permit}
    /\ Goto("main", "store")
    /\ UNCHANGED <<lossy, shutdown, listener_registered, backlog, wakes, lpc, connected>>

\* health_handle.join()
MainJoins ==
    /\ rpc["main"] = "join"
    /\ lpc = "done"
    /\ Goto("main", "done")
    /\ UNCHANGED <<lossy, shutdown, listener_registered, permit, backlog, wakes, lpc, connected>>

-----------------------------------------------------------------------------
(* HealthListener::run *)

LGoto(where) == lpc' = where /\ UNCHANGED <<lossy, shutdown, permit, wakes, connected>>

\* Mutant: the listener never registers
NeverRegister ==
    /\ lpc = "spawned"
    /\ LGoto("check")
    /\ UNCHANGED <<listener_registered, backlog, rpc>>

Register ==
    /\ lpc = "spawned"
    /\ listener_registered' = TRUE
    /\ LGoto("check")
    /\ UNCHANGED <<backlog, rpc>>

\* should_shutdown at the head of the loop
CheckShutdown ==
    /\ lpc = "check"
    /\ LGoto(IF shutdown THEN "leave" ELSE "accept")
    /\ UNCHANGED <<listener_registered, backlog, rpc>>

\* accept_timeout returns a connection; shutdown is looked at once more before
\* a handler thread is spent on it
Accept ==
    /\ lpc = "accept"
    /\ backlog # <<>>
    /\ backlog' = Tail(backlog)
    /\ IF shutdown
         THEN LGoto("leave") /\ UNCHANGED rpc
         ELSE /\ LGoto("check")
              /\ IF Head(backlog) \in Handlers
                   THEN Goto(Head(backlog), "store")
                   ELSE UNCHANGED rpc
    /\ UNCHANGED listener_registered

\* accept_timeout runs into ACCEPT_POLL_INTERVAL, or fails and the loop pauses
AcceptReturnsNothing ==
    /\ lpc = "accept"
    /\ LGoto("check")
    /\ UNCHANGED <<listener_registered, backlog, rpc>>

\* The registration guard is dropped before the listener is
ClearListener ==
    /\ lpc = "leave"
    /\ listener_registered' = FALSE
    /\ LGoto("cleared")
    /\ UNCHANGED <<backlog, rpc>>

\* The listener is dropped: waiting connections are reset
DropListener ==
    /\ lpc = "cleared"
    /\ backlog' = <<>>
    /\ LGoto("done")
    /\ UNCHANGED <<listener_registered, rpc>>

ListenerStep ==
    \/ Register \/ CheckShutdown \/ Accept \/ ClearListener \/ DropListener

-----------------------------------------------------------------------------
Finished == rpc["main"] = "done" /\ UNCHANGED vars

Next ==
    \/ \E h \in Handlers : ClientConnects(h)
    \/ OtherClientConnects \/ WakeConnects
    \/ \E r \in Requesters : StoreShutdown(r) \/ NotifyMain(r) \/ WakeAcceptLoop(r)
    \/ MainSelects \/ MainJoins
    \/ ListenerStep \/ AcceptReturnsNothing
    \/ Finished

Spec == Init /\ [][Next]_vars

\* Threads run; a permit or a stored request wakes the main task.  That the
\* accept wait ends by itself is assumed only where wake connections can fail:
\* elsewhere the wake alone has to end it.
Fairness ==
    /\ WF_vars(ListenerStep)
    /\ WF_vars(lossy /\ AcceptReturnsNothing)
    /\ WF_vars(WakeConnects)
    /\ WF_vars(MainJoins)
    /\ WF_vars(permit /\ MainSelects)
    /\ \A r \in Requesters :
          WF_vars(StoreShutdown(r) \/ NotifyMain(r) \/ WakeAcceptLoop(r))

FairSpec == Spec /\ Fairness

-----------------------------------------------------------------------------
(* Properties *)

TypeOK ==
    /\ lossy \in BOOLEAN
    /\ shutdown \in BOOLEAN
    /\ listener_registered \in BOOLEAN
    /\ permit \in BOOLEAN
    /\ backlog \in Seq(Handlers \cup {"other", "wake"})
    /\ wakes \in Nat
    /\ lpc \in {"spawned", "check", "accept", "leave", "cleared", "done"}
    /\ rpc \in [Requesters -> {"unborn", "queued", "select", "store", "notify", "wake",
                               "join", "done"}]
    /\ connected \in Nat

(***************************************************************************)
(* The store-then-load pairing of request_shutdown and run loses no wake:  *)
(* where wake connections get through, a listener that waits with          *)
(* `shutdown' already set has one coming, or the requester that will make  *)
(* it is still on its way.                                                 *)
(***************************************************************************)
WaitingListenerIsWoken ==
    ~lossy /\ lpc = "accept" /\ shutdown =>
        \/ backlog # <<>>
        \/ wakes > 0
        \/ \E r \in Requesters : rpc[r] \in {"notify", "wake"}

(***************************************************************************)
(* Once a STOP is being handled, or the main task has left its select!, the*)
(* listener thread is joined: shutdown does not hang, and the daemon lock  *)
(* behind the join is released.                                            *)
(***************************************************************************)
ShutdownCompletes ==
    (\E r \in Requesters : rpc[r] = "store") ~> rpc["main"] = "done"
=============================================================================
