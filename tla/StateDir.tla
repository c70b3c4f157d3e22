------------------------------ MODULE StateDir ------------------------------
(***************************************************************************)
(* The daemon's state directory: the discovery record and the way it is    *)
(* replaced (state_perms.rs, discovery.rs), the control endpoint in it     *)
(* (control.rs: a Unix socket, or on Windows the instances of a named      *)
(* pipe), and the retirement of a pre-1.0 daemon by a client that holds    *)
(* the daemon lock (legacy.rs). Daemons may be killed between any two      *)
(* steps; a pre-1.0 daemon takes no lock.                                  *)
(***************************************************************************)
EXTENDS Integers, FiniteSets

CONSTANTS Daemons,      \* 1.x daemon processes, each started once
          MaxClients    \* control connections opened on Windows in one behaviour

\* A daemon is none of the other things a socket path or the lock can be
ASSUME DaemonsAssumption == Daemons \cap {"none", "dead", "file", "free", "client"} = {}

VARIABLES disk,         \* daemon.json, daemon.json.tmp and daemon.sock
          port,         \* who listens on the recorded TCP port, and the pre-1.0 daemon
          daemon,       \* where each 1.x daemon is
          client,       \* the client that retires under the lock
          dlock,        \* "free", "client", or a daemon
          pipe,         \* Windows: the pipe's instances and connections
          io            \* one overlapped operation on a control stream

svars == <<disk, port, daemon, client, dlock, pipe, io>>

NoFile == [shape |-> "none", private |-> TRUE]
File(shape, private) == [shape |-> shape, private |-> private]

StateInit ==
  /\ disk = [record |-> NoFile, temp |-> NoFile, sock |-> "none", os |-> "unix"]
  /\ port = [holder |-> "none", started |-> FALSE, leaving |-> FALSE, stopped |-> {}, moved |-> FALSE]
  /\ daemon = [d \in Daemons |-> "new"]
  /\ client = [pc |-> "idle", found |-> FALSE, late |-> FALSE]
  /\ dlock = "free"
  /\ pipe = [listening |-> 0, pending |-> 0, streams |-> 0, opened |-> 0, notFound |-> FALSE]
  /\ io = [pc |-> "idle", moved |-> FALSE, said |-> ""]

-----------------------------------------------------------------------------
(* The surroundings: a leftover from earlier days, a pre-1.0 daemon, and     *)
(* other owners of its port.                                                *)
Fresh == client.pc = "idle" /\ (\A d \in Daemons : daemon[d] = "new") /\ pipe.opened = 0 /\ io.pc = "idle"
Leftover(record, temp, sock, os) ==
  /\ Fresh /\ disk.record = NoFile /\ disk.temp = NoFile /\ port.holder = "none" /\ disk.os = "unix"
  /\ disk' = [record |-> record, temp |-> temp, sock |-> sock, os |-> os]
  /\ UNCHANGED <<port, daemon, client, dlock, pipe, io>>
OldStarts ==
  /\ ~port.started /\ port.holder = "none"
  /\ port' = [port EXCEPT !.holder = "old", !.started = TRUE, !.moved = TRUE]
  /\ disk' = [disk EXCEPT !.record = File("legacy", FALSE)]
  /\ client' = [client EXCEPT !.late = client.pc # "idle"]
  /\ UNCHANGED <<daemon, dlock, pipe, io>>
OldRemovesRecord ==
  /\ port.leaving /\ disk.record.shape = "legacy"
  /\ disk' = [disk EXCEPT !.record = NoFile]
  /\ UNCHANGED <<port, daemon, client, dlock, pipe, io>>
OldReleasesPort ==
  /\ port.leaving /\ disk.record.shape # "legacy"
  /\ port' = [port EXCEPT !.holder = "none", !.leaving = FALSE, !.moved = TRUE]
  /\ UNCHANGED <<disk, daemon, client, dlock, pipe, io>>
OldKilled ==
  /\ port.holder = "old"
  /\ port' = [port EXCEPT !.holder = "none", !.leaving = FALSE, !.moved = TRUE]
  /\ UNCHANGED <<disk, daemon, client, dlock, pipe, io>>
PortTaken(by) ==
  /\ port.holder = "none" /\ port.started
  /\ port' = [port EXCEPT !.holder = by, !.moved = TRUE]
  /\ UNCHANGED <<disk, daemon, client, dlock, pipe, io>>

-----------------------------------------------------------------------------
(* legacy.rs. exchange: a refused connection, a line, or Unknown (timeout,  *)
(* reset, oversized) from an open port.                                     *)
Exchange(command) ==
  IF port.holder = "none" THEN {"refused"}
  ELSE {"unknown"} \cup
       CASE port.holder = "old" -> {IF command = "PING" THEN "pong" ELSE "pid"}
         [] port.holder = "other" -> {IF command = "PING" THEN "pong" ELSE "other pid"}
         [] port.holder = "foreign" -> {"line"}
ClassifyPing(reply) ==
  CASE reply = "refused" -> "dead" [] reply = "unknown" -> "unknown"
    [] reply = "pong" -> "identified" [] OTHER -> "foreign"
StatusPid(reply) == IF reply = "line" THEN "unknown" ELSE reply

(* retire_under_lock, from the caller's lock on. A read of daemon.json that  *)
(* parses as a 1.x record, or not at all, is not a legacy record.            *)
ReadLegacyRecord == disk.record.shape = "legacy"
RetireUnderLock ==
  /\ client.pc = "idle" /\ dlock = "free"
  /\ dlock' = "client"
  /\ client' = [client EXCEPT !.pc = IF ReadLegacyRecord THEN "ping" ELSE "clean", !.found = ReadLegacyRecord]
  /\ port' = [port EXCEPT !.moved = FALSE]
  /\ UNCHANGED <<disk, daemon, pipe, io>>
RetirePing ==
  /\ client.pc = "ping"
  /\ \E reply \in Exchange("PING") :
       client' = [client EXCEPT !.pc = CASE ClassifyPing(reply) = "identified" -> "status"
                                         [] ClassifyPing(reply) = "unknown" -> "refused"
                                         [] OTHER -> "remove"]
  /\ UNCHANGED <<disk, port, daemon, dlock, pipe, io>>
\* Mutant: any daemon that answers STATUS is taken for the recorded one.
RetireAnyStatus ==
  /\ client.pc = "status"
  /\ \E reply \in Exchange("STATUS") :
       client' = [client EXCEPT !.pc = CASE StatusPid(reply) \in {"pid", "other pid"} -> "stop"
                                         [] StatusPid(reply) = "unknown" -> "refused"
                                         [] OTHER -> "remove"]
  /\ port' = [port EXCEPT !.moved = FALSE]
  /\ UNCHANGED <<disk, daemon, dlock, pipe, io>>
RetireStatus ==
  /\ client.pc = "status"
  /\ \E reply \in Exchange("STATUS") :
       client' = [client EXCEPT !.pc = CASE StatusPid(reply) = "pid" -> "stop"
                                         [] StatusPid(reply) = "unknown" -> "refused"
                                         [] OTHER -> "remove"]
  /\ port' = [port EXCEPT !.moved = FALSE]
  /\ UNCHANGED <<disk, daemon, dlock, pipe, io>>
RetireStop ==
  /\ client.pc = "stop"
  /\ \E heard \in BOOLEAN :
       port' = IF port.holder = "none" THEN port
               ELSE [port EXCEPT !.stopped = @ \cup {port.holder},
                                 !.leaving = @ \/ (port.holder = "old" /\ heard)]
  /\ client' = [client EXCEPT !.pc = "wait"]
  /\ UNCHANGED <<disk, daemon, dlock, pipe, io>>
\* Mutant: the wait takes an unknown answer for a quiet port.
RetireWaitTrusts ==
  /\ client.pc = "wait"
  /\ \E reply \in Exchange("PING") :
       \/ ClassifyPing(reply) # "identified" /\ client' = [client EXCEPT !.pc = "remove"]
       \/ ClassifyPing(reply) = "identified" /\ client' = [client EXCEPT !.pc = "refused"]
  /\ UNCHANGED <<disk, port, daemon, dlock, pipe, io>>
RetireWait ==
  /\ client.pc = "wait"
  /\ \E reply \in Exchange("PING") :
       \/ ClassifyPing(reply) \in {"dead", "foreign"} /\ client' = [client EXCEPT !.pc = "remove"]
       \/ ClassifyPing(reply) \in {"identified", "unknown"} /\ client' = [client EXCEPT !.pc = "refused"]
  /\ UNCHANGED <<disk, port, daemon, dlock, pipe, io>>
(* remove_legacy_record: only while the file still is that record.           *)
RemoveLegacyRecord ==
  /\ client.pc = "remove"
  /\ disk' = IF ReadLegacyRecord THEN [disk EXCEPT !.record = NoFile] ELSE disk
  /\ client' = [client EXCEPT !.pc = "clean"]
  /\ UNCHANGED <<port, daemon, dlock, pipe, io>>
(* remove_stale_record: a record that parses, of a daemon that cannot live   *)
(* because the lock is held here; a malformed file is left.                  *)
RemoveStaleRecord ==
  /\ client.pc = "clean"
  /\ disk' = IF disk.record.shape = "current" THEN [disk EXCEPT !.record = NoFile] ELSE disk
  /\ client' = [client EXCEPT !.pc = "ready"]
  /\ UNCHANGED <<port, daemon, dlock, pipe, io>>
Unlock ==
  /\ client.pc \in {"ready", "refused"}
  /\ client' = [client EXCEPT !.pc = IF client.pc = "ready" THEN "spawned" ELSE "local"]
  /\ dlock' = "free"
  /\ UNCHANGED <<disk, port, daemon, pipe, io>>

-----------------------------------------------------------------------------
(* A 1.x daemon. ensure_owner_only_dir tightens what it finds, as far as the *)
(* file system lets it.                                                      *)
IsAt(d, place) == daemon[d] = place
GoesTo(d, place) == daemon' = [daemon EXCEPT ![d] = place]
AcquireLock(d) ==
  /\ IsAt(d, "new") /\ dlock = "free" /\ client.pc \in {"idle", "spawned"}
  /\ dlock' = d /\ GoesTo(d, "locked")
  /\ UNCHANGED <<disk, port, client, pipe, io>>
RestrictExisting(f, allowed) == [f EXCEPT !.private = @ \/ allowed]
EnsureOwnerOnlyDir(d) ==
  /\ IsAt(d, "locked") /\ GoesTo(d, "reclaim")
  /\ \E allowed \in BOOLEAN :
       disk' = [disk EXCEPT !.record = RestrictExisting(@, allowed), !.temp = RestrictExisting(@, allowed)]
  /\ UNCHANGED <<port, client, dlock, pipe, io>>

(* Listener::bind. On Unix the path is reclaimed first: a regular file and a *)
(* socket that answers are refused. On Windows the name is the daemon's own. *)
Listens(d) == daemon[d] \in {"bound", "started", "create", "restrict", "write", "torn", "rename", "serving", "closing"}
SocketAnswers == \E d \in Daemons : disk.sock = d /\ Listens(d)
ReclaimStaleSocket(d) ==
  /\ IsAt(d, "reclaim") /\ disk.os = "unix"
  /\ IF disk.sock = "file" \/ SocketAnswers
     THEN GoesTo(d, "failed") /\ UNCHANGED disk
     ELSE GoesTo(d, "bind") /\ disk' = [disk EXCEPT !.sock = "none"]
  /\ UNCHANGED <<port, client, dlock, pipe, io>>
BindSocket(d) ==
  /\ IsAt(d, "bind") /\ GoesTo(d, "bound")
  /\ disk' = [disk EXCEPT !.sock = d]
  /\ UNCHANGED <<port, client, dlock, pipe, io>>
BindPipe(d) ==
  /\ IsAt(d, "reclaim") /\ disk.os = "windows" /\ GoesTo(d, "bound")
  /\ pipe' = [pipe EXCEPT !.listening = 1, !.pending = 0, !.streams = 0]
  /\ UNCHANGED <<disk, port, client, dlock, io>>

(* hyperd cannot be started beside the engine of a pre-1.0 daemon.           *)
StartHyperd(d) ==
  /\ IsAt(d, "bound") /\ GoesTo(d, IF port.holder = "old" THEN "failed" ELSE "started")
  /\ UNCHANGED <<disk, port, client, dlock, pipe, io>>

(* write_owner_only_atomic. The leftover temporary file goes first, the new  *)
(* one is created with a mode the file system may widen, chmod may be        *)
(* refused, and a refusal is tolerated only if the mode is already narrow.   *)
RemoveTemp(d) ==
  /\ IsAt(d, "started") /\ GoesTo(d, "create")
  /\ disk' = [disk EXCEPT !.temp = NoFile]
  /\ UNCHANGED <<port, client, dlock, pipe, io>>
CreateTemp(d) ==
  /\ IsAt(d, "create") /\ GoesTo(d, "restrict")
  /\ \E private \in BOOLEAN : disk' = [disk EXCEPT !.temp = File("empty", private)]
  /\ UNCHANGED <<port, client, dlock, pipe, io>>
\* Mutant: a refused chmod is only logged.
RefusalTolerated(f) == TRUE
ReconcileRefusedChmod(f) == f.private
RestrictOpenStateFile(d) ==
  /\ IsAt(d, "restrict")
  /\ \/ disk' = [disk EXCEPT !.temp.private = TRUE] /\ GoesTo(d, "write")
     \/ UNCHANGED disk /\ GoesTo(d, IF ReconcileRefusedChmod(disk.temp) THEN "write" ELSE "failed")
  /\ UNCHANGED <<port, client, dlock, pipe, io>>
WriteContents(d) ==
  /\ \/ IsAt(d, "write") /\ GoesTo(d, "torn") /\ disk' = [disk EXCEPT !.temp.shape = "torn"]
     \/ IsAt(d, "torn") /\ GoesTo(d, "rename") /\ disk' = [disk EXCEPT !.temp.shape = "current"]
     \/ IsAt(d, "torn") /\ GoesTo(d, "failed") /\ UNCHANGED disk
  /\ UNCHANGED <<port, client, dlock, pipe, io>>
Rename(d) ==
  /\ IsAt(d, "rename") /\ GoesTo(d, "serving")
  /\ disk' = [disk EXCEPT !.record = disk.temp, !.temp = NoFile]
  /\ UNCHANGED <<port, client, dlock, pipe, io>>

(* Shutdown and the early returns: the record first, then the listener (its  *)
(* drop unlinks only its own socket), then the lock. A kill does none of it. *)
RemoveDiscoveryFile(d) ==
  /\ IsAt(d, "serving") /\ GoesTo(d, "closing")
  /\ disk' = [disk EXCEPT !.record = NoFile]
  /\ UNCHANGED <<port, client, dlock, pipe, io>>
PipeGone == [pipe EXCEPT !.listening = 0, !.pending = 0, !.streams = 0]
DropListener(d) ==
  /\ daemon[d] \in {"closing", "failed"} /\ GoesTo(d, "gone")
  /\ disk' = [disk EXCEPT !.sock = IF @ = d THEN "none" ELSE @]
  /\ pipe' = PipeGone /\ dlock' = "free"
  /\ UNCHANGED <<port, client, io>>
Killed(d) ==
  /\ daemon[d] \notin {"new", "gone", "killed"} /\ GoesTo(d, "killed")
  /\ dlock' = "free" /\ pipe' = PipeGone
  /\ UNCHANGED <<disk, port, client, io>>

-----------------------------------------------------------------------------
(* Windows: a client opens the listening instance, waits while all are busy,  *)
(* and learns NotFound when the name has no instance at all.                  *)
Instances == pipe.listening + pipe.pending + pipe.streams
Serving == \E d \in Daemons : daemon[d] = "serving"
ConnectPipe ==
  /\ disk.os = "windows" /\ Serving /\ pipe.opened < MaxClients
  /\ \/ pipe.listening = 1
        /\ pipe' = [pipe EXCEPT !.listening = 0, !.pending = 1, !.opened = @ + 1]
     \/ Instances = 0
        /\ pipe' = [pipe EXCEPT !.notFound = TRUE, !.opened = @ + 1]
  /\ UNCHANGED <<disk, port, daemon, client, dlock, io>>
\* Mutant: the next instance is made when the next accept begins.
AcceptThenCreate ==
  /\ Serving
  /\ \/ pipe.pending = 1 /\ pipe' = [pipe EXCEPT !.pending = 0, !.streams = @ + 1]
     \/ pipe.listening = 0 /\ pipe.pending = 0 /\ pipe.streams > 0 /\ pipe' = [pipe EXCEPT !.listening = 1]
  /\ UNCHANGED <<disk, port, daemon, client, dlock, io>>
AcceptTimeout ==
  /\ Serving
  /\ pipe.pending = 1 /\ pipe' = [pipe EXCEPT !.pending = 0, !.listening = 1, !.streams = @ + 1]
  /\ UNCHANGED <<disk, port, daemon, client, dlock, io>>
StreamCloses ==
  /\ pipe.streams > 0 /\ pipe' = [pipe EXCEPT !.streams = @ - 1]
  /\ UNCHANGED <<disk, port, daemon, client, dlock, io>>

(* Stream::complete: the transfer may finish before the wait, after it timed  *)
(* out, or be cancelled; the result is asked for once more after the cancel.  *)
StartIo ==
  /\ disk.os = "windows" /\ io.pc = "idle" /\ pipe.streams > 0
  /\ io' = [io EXCEPT !.pc = "pending"]
  /\ UNCHANGED <<disk, port, daemon, client, dlock, pipe>>
Transfer ==
  /\ io.pc \in {"pending", "cancelling"} /\ ~io.moved
  /\ io' = [io EXCEPT !.moved = TRUE]
  /\ UNCHANGED <<disk, port, daemon, client, dlock, pipe>>
WaitForIo ==
  /\ io.pc = "pending"
  /\ \/ io.moved /\ io' = [io EXCEPT !.pc = "done", !.said = "bytes"]
     \/ io' = [io EXCEPT !.pc = "cancelling"]
  /\ UNCHANGED <<disk, port, daemon, client, dlock, pipe>>
\* Mutant: a wait that timed out answers so, without a look at the result.
TimeoutWithoutResult == "timeout"
ResultAfterCancel == IF io.moved THEN "bytes" ELSE "timeout"
CancelIo ==
  /\ io.pc = "cancelling"
  /\ io' = [io EXCEPT !.pc = "done", !.said = ResultAfterCancel]
  /\ UNCHANGED <<disk, port, daemon, client, dlock, pipe>>

-----------------------------------------------------------------------------
StateNext ==
  \/ \E record \in {File("garbage", FALSE), File("current", FALSE), NoFile}, temp \in {File("torn", FALSE), NoFile},
        sock \in {"none", "dead", "file"} : Leftover(record, temp, sock, "unix")
  \/ Leftover(NoFile, NoFile, "none", "windows")
  \/ OldStarts \/ OldRemovesRecord \/ OldReleasesPort \/ OldKilled
  \/ \E by \in {"foreign", "other"} : PortTaken(by)
  \/ RetireUnderLock \/ RetirePing \/ RetireStatus \/ RetireStop \/ RetireWait
  \/ RemoveLegacyRecord \/ RemoveStaleRecord \/ Unlock
  \/ \E d \in Daemons :
       \/ AcquireLock(d) \/ EnsureOwnerOnlyDir(d) \/ ReclaimStaleSocket(d) \/ BindSocket(d) \/ BindPipe(d)
       \/ StartHyperd(d) \/ RemoveTemp(d) \/ CreateTemp(d) \/ RestrictOpenStateFile(d) \/ WriteContents(d) \/ Rename(d)
       \/ RemoveDiscoveryFile(d) \/ DropListener(d) \/ Killed(d)
  \/ ConnectPipe \/ AcceptTimeout \/ StreamCloses
  \/ StartIo \/ Transfer \/ WaitForIo \/ CancelIo

StateSpec == StateInit /\ [][StateNext]_svars

-----------------------------------------------------------------------------
(* daemon.json is never half written, and the record a serving daemon        *)
(* published is readable by its owner only, over a leftover temporary file,  *)
(* a file system that widens modes or refuses chmod, and kills at any step.  *)
RecordIsWholeAndPrivate ==
  /\ disk.record.shape \notin {"empty", "torn"}
  /\ Serving /\ disk.record.shape = "current" => disk.record.private

(* When a client that found a pre-1.0 record goes on to spawn, that daemon   *)
(* no longer listens and the record is gone, unless it was started meanwhile *)
(* by somebody: the new daemon would fail against the old engine.            *)
RetiredMeansGone ==
  client.pc = "ready" /\ client.found /\ ~client.late => port.holder # "old" /\ disk.record.shape # "legacy"

(* STOP reaches only the daemon the record names, unless the port changed    *)
(* hands after that daemon had answered STATUS.                              *)
StopReachesRecorded ==
  client.pc = "wait" /\ ~port.moved => port.stopped \subseteq {"old"}

(* A daemon that serves can be reached: on Unix its own socket is the one at *)
(* the path, whatever its predecessors left or removed; on Windows a client  *)
(* is never told that the pipe does not exist.                               *)
ServingIsReachable ==
  \A d \in Daemons : daemon[d] = "serving" =>
    IF disk.os = "unix" THEN disk.sock = d ELSE ~pipe.notFound /\ Instances > 0

(* An operation that reports a timeout moved no bytes: a late answer is      *)
(* handed to the caller, not dropped by the cancel.                          *)
TimeoutLosesNothing ==
  io.said = "timeout" => ~io.moved

\* The state directory never misleads a client: its record is whole and private,
\* the daemon it leads to answers, a bounded operation that timed out had no
\* effect, and a pre-1.0 daemon counts as retired only when it, and no other
\* process, was stopped.
StateDirIsSound ==
    /\ RecordIsWholeAndPrivate /\ ServingIsReachable /\ TimeoutLosesNothing
    /\ RetiredMeansGone /\ StopReachesRecorded
=============================================================================
