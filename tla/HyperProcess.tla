--------------------------- MODULE HyperProcess ---------------------------
(***************************************************************************)
(* The hyperd processes a program starts and owns (hyperdb-api,            *)
(* process.rs): start_server spawns hyperd and waits for it to connect     *)
(* back, the callback connection keeps it alive, and shutdown or Drop      *)
(* closes the callback, waits, kills after a timeout, and removes the      *)
(* socket directory it made.  Several instances live in one program, and   *)
(* may be told to use the same directory.                                  *)
(*                                                                         *)
(* hyperd is external: it connects back, may hang or crash, and exits when *)
(* its callback connection closes, unless it hangs.                        *)
(***************************************************************************)
EXTENDS Integers, FiniteSets

CONSTANT Instances   \* the HyperProcess values of the program

CustomDir == 0       \* the directory given by the caller; others are numbered

VARIABLES
    proc,            \* [Instances -> the handle and its hyperd]
    dirs,            \* socket directories that exist
    ipcSeq           \* IPC_INSTANCE_SEQ

processVars == <<proc, dirs, ipcSeq>>

NoDir == -1
NoProcess == [stage |-> "none", hyperd |-> "none", callback |-> FALSE, dir |-> NoDir,
              owned |-> FALSE, timeout |-> FALSE]

ProcessInit ==
    /\ proc = [i \in Instances |-> NoProcess]
    /\ dirs = {CustomDir}
    /\ ipcSeq = 0

Is(i, stage) == proc[i].stage = stage
Set(i, change) == proc' = [proc EXCEPT ![i] = change]

-----------------------------------------------------------------------------
(* start_server                                                            *)

\* Mutant: the directory is named after the process alone.
DirNamedByPid == 1

\* default_socket_dir: process id and sequence number
DefaultSocketDir == ipcSeq + 1

\* The directory, when the transport is IPC: the caller's, or one made for this
\* instance, which it then owns
StartServer(i, transport) ==
    /\ Is(i, "none")
    /\ LET made == transport = "ipc"
           dir == CASE transport = "tcp" -> NoDir
                    [] transport = "custom" -> CustomDir
                    [] made -> DefaultSocketDir
       IN /\ Set(i, [NoProcess EXCEPT !.stage = "spawning", !.dir = dir, !.owned = made])
          /\ dirs' = IF made THEN dirs \cup {dir} ELSE dirs
          /\ ipcSeq' = IF made THEN ipcSeq + 1 ELSE ipcSeq

Spawn(i) ==
    /\ Is(i, "spawning")
    /\ Set(i, [proc[i] EXCEPT !.stage = "waiting", !.hyperd = "starting"])
    /\ UNCHANGED <<dirs, ipcSeq>>

\* find_hyperd or the spawn fails: the error leaves without the directory's owner
SpawnFails(i) ==
    /\ Is(i, "spawning")
    /\ Set(i, [proc[i] EXCEPT !.stage = "failed"])
    /\ UNCHANGED <<dirs, ipcSeq>>

\* wait_for_callback: hyperd connected and sent its endpoint descriptor
AcceptCallback(i) ==
    /\ Is(i, "waiting") /\ proc[i].callback
    /\ Set(i, [proc[i] EXCEPT !.stage = "up"])
    /\ UNCHANGED <<dirs, ipcSeq>>

\* It did not connect in time, or sent no usable descriptor: the listener and
\* the stream are closed, the child is neither killed nor waited for
CallbackFails(i) ==
    /\ Is(i, "waiting")
    /\ Set(i, [proc[i] EXCEPT !.stage = "failed", !.callback = FALSE])
    /\ UNCHANGED <<dirs, ipcSeq>>

-----------------------------------------------------------------------------
(* Use and shutdown                                                        *)

\* has_exited waits without blocking, so it reaps what it sees
HasExited(i) ==
    /\ Is(i, "up") /\ proc[i].hyperd = "zombie"
    /\ Set(i, [proc[i] EXCEPT !.hyperd = "exited"])
    /\ UNCHANGED <<dirs, ipcSeq>>

\* close_callback_connection, the first step of every shutdown
CloseCallback(i, timeout) ==
    /\ Is(i, "up")
    /\ Set(i, [proc[i] EXCEPT !.stage = "stopping", !.callback = FALSE, !.timeout = timeout])
    /\ UNCHANGED <<dirs, ipcSeq>>

ShutdownGraceful(i) == CloseCallback(i, FALSE)
ShutdownTimeout(i) == CloseCallback(i, TRUE)
DropHandle(i) == CloseCallback(i, TRUE)

\* do_shutdown: the wait saw the exit and reaped the child
WaitReturns(i) ==
    /\ Is(i, "stopping") /\ proc[i].hyperd \in {"zombie", "exited"}
    /\ Set(i, [proc[i] EXCEPT !.stage = "reaped", !.hyperd = "exited"])
    /\ UNCHANGED <<dirs, ipcSeq>>

\* Mutant: after the timeout the child is left to the system.
GivesUpAfterTimeout(i) ==
    /\ Is(i, "stopping") /\ proc[i].timeout /\ proc[i].hyperd \in {"starting", "running", "hung"}
    /\ Set(i, [proc[i] EXCEPT !.stage = "reaped"])
    /\ UNCHANGED <<dirs, ipcSeq>>

\* Mutant: SIGTERM alone, which a hung process does not act on.
OnlyTerminates(i) ==
    /\ Is(i, "stopping") /\ proc[i].timeout /\ proc[i].hyperd \in {"starting", "running"}
    /\ Set(i, [proc[i] EXCEPT !.stage = "reaped", !.hyperd = "exited"])
    /\ UNCHANGED <<dirs, ipcSeq>>

\* After the timeout SIGTERM, SIGKILL and a wait that cannot hang
KillAfterTimeout(i) ==
    /\ Is(i, "stopping") /\ proc[i].timeout /\ proc[i].hyperd \in {"starting", "running", "hung"}
    /\ Set(i, [proc[i] EXCEPT !.stage = "reaped", !.hyperd = "exited"])
    /\ UNCHANGED <<dirs, ipcSeq>>

\* The end of Drop: the directory goes with its owner
RemoveSocketDir(i) ==
    /\ Is(i, "reaped")
    /\ Set(i, [proc[i] EXCEPT !.stage = "gone"])
    /\ dirs' = IF proc[i].owned THEN dirs \ {proc[i].dir} ELSE dirs
    /\ UNCHANGED ipcSeq

-----------------------------------------------------------------------------
(* hyperd                                                                  *)

HyperdConnects(i) ==
    /\ proc[i].hyperd = "starting"
    /\ Set(i, IF Is(i, "waiting") THEN [proc[i] EXCEPT !.hyperd = "running", !.callback = TRUE]
              ELSE [proc[i] EXCEPT !.hyperd = "zombie"])
    /\ UNCHANGED <<dirs, ipcSeq>>

HyperdExits(i) ==
    /\ proc[i].hyperd = "running" /\ ~proc[i].callback
    /\ Set(i, [proc[i] EXCEPT !.hyperd = "zombie"])
    /\ UNCHANGED <<dirs, ipcSeq>>

HyperdFails(i) ==
    /\ proc[i].hyperd \in {"starting", "running"}
    /\ \E end \in {"hung", "zombie"} : Set(i, [proc[i] EXCEPT !.hyperd = end])
    /\ UNCHANGED <<dirs, ipcSeq>>

ProcessNext ==
    \E i \in Instances :
        \/ \E transport \in {"tcp", "ipc", "custom"} : StartServer(i, transport)
        \/ Spawn(i) \/ SpawnFails(i) \/ AcceptCallback(i) \/ CallbackFails(i)
        \/ HasExited(i) \/ ShutdownGraceful(i) \/ ShutdownTimeout(i) \/ DropHandle(i)
        \/ WaitReturns(i) \/ KillAfterTimeout(i) \/ RemoveSocketDir(i)
        \/ HyperdConnects(i) \/ HyperdExits(i) \/ HyperdFails(i)

\* The program runs on, and the kill timer expires
ProcessFairness ==
    \A i \in Instances : WF_processVars(WaitReturns(i) \/ KillAfterTimeout(i) \/ RemoveSocketDir(i))

ProcessSpec == ProcessInit /\ [][ProcessNext]_processVars /\ ProcessFairness

-----------------------------------------------------------------------------
(* Properties                                                              *)

\* The socket directory of a server that is up is there, whatever the other
\* instances of the program do: none removes a directory it does not own.
LiveServerHasItsSocket ==
    \A i \in Instances :
        Is(i, "up") /\ proc[i].dir # NoDir => proc[i].dir \in dirs

\* When shutdown or Drop is over, the child has ended and was waited for, and
\* the directory made for it is gone.
ShutdownLeavesNothing ==
    \A i \in Instances :
        Is(i, "gone") => /\ proc[i].hyperd = "exited"
                         /\ proc[i].owned => proc[i].dir \notin dirs

\* A shutdown with a timeout, which is also what Drop does, ends even when
\* hyperd hangs.
TimedShutdownEnds ==
    \A i \in Instances : Is(i, "stopping") /\ proc[i].timeout ~> Is(i, "gone")

\* A live server has its socket, and one that was shut down leaves neither a
\* process nor a directory, with several instances in one program.
ServersAreOwned == LiveServerHasItsSocket /\ ShutdownLeavesNothing
=============================================================================
