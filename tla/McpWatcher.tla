----------------------------- MODULE McpWatcher -----------------------------
(***************************************************************************)
(* The directory watcher of hyperdb-mcp (watcher.rs) and its two tools.  A *)
(* producer writes a data file and then its .ready file; the watcher       *)
(* appends the data to a table and removes both, or moves both to failed/. *)
(*                                                                         *)
(* One directory.  A name can be used again for a new version once its     *)
(* .ready file is gone, which is what the README tells producers to wait   *)
(* for.  Jobs run side by side, one per slot; the job of the initial sweep *)
(* has slot 0.  The process can crash, and an ingest can lose its          *)
(* connection before or after its COMMIT.                                  *)
(***************************************************************************)
EXTENDS Integers, Sequences, FiniteSets, FiniteSetsExt

CONSTANTS
    Files,          \* names of data files
    MaxVersions,    \* bound: how often a name is produced
    Slots,          \* the jobs that can run at once, numbered from 1 (pool size)
    MaxStarts,      \* bound: calls of watch_directory
    MaxLost         \* bound: connections lost

VARIABLES
    dir,        \* per name: the version on disk (0: none), the .ready file, versions in failed/
    landed,     \* per name and version: how often its rows were committed
    watch,      \* the watcher: phase, sweep list, queued events, in_flight_paths, target database;
                \* and how the alias it may target is attached
    job,        \* per slot: the name it works on and where it is
    excuse      \* what the producer and the faults did

watcherVars == <<dir, landed, watch, job, excuse>>

Versions == 1..MaxVersions
JobSlots == {0} \cup Slots
NoJob == [file |-> 0, at |-> "none", era |-> 0]

WatcherInit ==
    /\ dir = [f \in Files |-> [data |-> 0, made |-> 0, signed |-> 0, ready |-> FALSE, failed |-> {}, announced |-> FALSE]]
    /\ landed = [f \in Files |-> [v \in Versions |-> 0]]
    /\ watch = [phase |-> "off", todo |-> {}, events |-> <<>>, claims |-> {}, era |-> 0,
                target |-> "local", alias |-> "writable"]
    /\ job = [j \in JobSlots |-> NoJob]
    /\ excuse = [twice |-> {}, reused |-> {}, lost |-> 0]

InJob(j, at) == job[j].at = at
JobAt(j, at) == job' = [job EXCEPT ![j].at = at]
Working(f) == \E j \in JobSlots : job[j].file = f

-----------------------------------------------------------------------------
(* The producer and the file system events                                 *)

\* The data file is renamed into place, when no .ready file of the name is left
WriteData(f) ==
    /\ ~dir[f].ready /\ dir[f].signed = dir[f].made /\ dir[f].made < MaxVersions
    /\ dir' = [dir EXCEPT ![f].data = dir[f].made + 1, ![f].made = @ + 1, ![f].announced = FALSE]
    /\ excuse' = IF Working(f) \/ dir[f].data # 0 THEN [excuse EXCEPT !.reused = @ \cup {f}] ELSE excuse
    /\ UNCHANGED <<landed, watch, job>>

\* The .ready file; notify reports it once or twice when a watch is installed
WriteReady(f) ==
    /\ dir[f].signed < dir[f].made
    /\ dir' = [dir EXCEPT ![f].ready = TRUE, ![f].signed = dir[f].made, ![f].announced = watch.phase = "armed"]
    /\ \E n \in {1, 2} :
          watch' = IF watch.phase = "armed" THEN [watch EXCEPT !.events = @ \o [i \in 1..n |-> f]] ELSE watch
    /\ UNCHANGED <<landed, job, excuse>>

-----------------------------------------------------------------------------
(* watch_directory and unwatch_directory                                   *)

\* scan_ready_files
ReadyFiles == {f \in Files : dir[f].ready}

\* resolve_pool_workspace: the file of the local or persistent database, or of an alias
\* that is attached and writable
ResolvePoolWorkspace(t) == t = "local" \/ watch.alias = "writable"

\* build_watcher_pool takes the engine's endpoint; there may be no engine or none running
BuildWatcherPool(t) == ResolvePoolWorkspace(t)

\* start_watching after its checks (a directory, not watched)
StartWatching(t) ==
    /\ watch.phase = "off" /\ watch.era < MaxStarts /\ BuildWatcherPool(t)
    /\ watch' = [phase |-> "sweep", todo |-> ReadyFiles, events |-> <<>>, claims |-> {}, era |-> watch.era + 1,
                 target |-> t, alias |-> watch.alias]
    /\ dir' = [f \in Files |-> [dir[f] EXCEPT !.announced = dir[f].ready /\ dir[f].data # 0]]
    /\ excuse' = [excuse EXCEPT !.twice = @ \cup {f \in Files : Working(f)}]
    /\ UNCHANGED <<landed, job>>

\* The initial sweep takes its files one after the other and claims none
SweepNext ==
    /\ watch.phase = "sweep" /\ InJob(0, "none")
    /\ \E f \in watch.todo :
          /\ watch' = [watch EXCEPT !.todo = @ \ {f}]
          /\ job' = [job EXCEPT ![0] = [file |-> f, at |-> "check", era |-> watch.era]]
    /\ UNCHANGED <<dir, landed, excuse>>

\* The watch is installed and the handle registered once the sweep is through
Arm ==
    /\ watch.phase = "sweep" /\ watch.todo = {} /\ InJob(0, "none")
    /\ watch' = [watch EXCEPT !.phase = "armed"]
    /\ UNCHANGED <<dir, landed, job, excuse>>

\* The pool, the notify watcher or the forwarder thread cannot be created
StartFails ==
    /\ watch.phase = "sweep" /\ watch.todo = {} /\ InJob(0, "none")
    /\ watch' = [watch EXCEPT !.phase = "off"]
    /\ UNCHANGED <<dir, landed, job, excuse>>

\* stop_watching drops the handle: the consumer ends, the jobs it spawned go on
StopWatching ==
    /\ watch.phase = "armed"
    /\ watch' = [watch EXCEPT !.phase = "off", !.events = <<>>]
    /\ UNCHANGED <<dir, landed, job, excuse>>

\* detach_database: refused while a registered watcher targets the alias
DetachDatabase ==
    /\ watch.alias = "writable" /\ ~(watch.phase = "armed" /\ watch.target = "alias")
    /\ watch' = [watch EXCEPT !.alias = "none"]
    /\ UNCHANGED <<dir, landed, job, excuse>>

-----------------------------------------------------------------------------
(* The consumer task                                                       *)

\* Mutant: an event is taken for a path that a job already has.
TakeEventUnclaimed ==
    /\ watch.phase = "armed" /\ watch.events # <<>>
    /\ LET f == Head(watch.events) IN
       \E j \in {j \in Slots : InJob(j, "none")} :
          /\ job' = [job EXCEPT ![j] = [file |-> f, at |-> "check", era |-> watch.era]]
          /\ watch' = [watch EXCEPT !.events = Tail(@), !.claims = @ \cup {f}]
    /\ UNCHANGED <<dir, landed, excuse>>

TakeEvent ==
    /\ watch.phase = "armed" /\ watch.events # <<>>
    /\ LET f == Head(watch.events) IN
       IF f \in watch.claims
       THEN watch' = [watch EXCEPT !.events = Tail(@)] /\ UNCHANGED job
       ELSE \E j \in {j \in Slots : InJob(j, "none")} :
               /\ job' = [job EXCEPT ![j] = [file |-> f, at |-> "check", era |-> watch.era]]
               /\ watch' = [watch EXCEPT !.events = Tail(@), !.claims = @ \cup {f}]
    /\ UNCHANGED <<dir, landed, excuse>>

-----------------------------------------------------------------------------
(* process_ready_with_recovery, in a job                                   *)

\* The claim goes with the job; a later watch has a set of its own
Finish(j) ==
    /\ job' = [job EXCEPT ![j] = NoJob]
    /\ watch' = IF j # 0 /\ job[j].era = watch.era
                THEN [watch EXCEPT !.claims = @ \ {job[j].file}] ELSE watch

\* Either file may be gone already
CheckFiles(j) ==
    /\ InJob(j, "check")
    /\ LET f == job[j].file IN
       IF dir[f].ready /\ dir[f].data # 0
       THEN JobAt(j, "ingest") /\ UNCHANGED watch
       ELSE Finish(j)
    /\ UNCHANGED <<dir, landed, excuse>>

Ingesting(j) == InJob(j, "ingest") \/ InJob(j, "retry")
Commits(j) == landed' = [landed EXCEPT ![job[j].file][dir[job[j].file].data] = @ + 1]

\* ingest_one_ready_file: BEGIN, the rows, COMMIT on a connection of the pool
IngestCommits(j) ==
    /\ Ingesting(j) /\ dir[job[j].file].data # 0
    /\ Commits(j)
    /\ JobAt(j, "ok")
    /\ UNCHANGED <<dir, watch, excuse>>

\* Mutant: the rows before the bad one stay, as without a transaction.
FailsAfterRows(j) ==
    /\ Ingesting(j) /\ dir[job[j].file].data # 0
    /\ Commits(j) /\ JobAt(j, "failed")
    /\ UNCHANGED <<dir, watch, excuse>>

\* The file is gone, does not parse, or does not fit the table
IngestFails(j) ==
    /\ Ingesting(j)
    /\ JobAt(j, "failed")
    /\ UNCHANGED <<dir, landed, watch, excuse>>

\* The connection is lost, the COMMIT done or not
AfterLost(j) == IF InJob(j, "ingest") THEN "lost" ELSE "failed"
JobLosesConnection(j) ==
    /\ Ingesting(j) /\ excuse.lost < MaxLost
    /\ JobAt(j, AfterLost(j))
    /\ \/ UNCHANGED landed /\ excuse' = [excuse EXCEPT !.lost = @ + 1]
       \/ /\ dir[job[j].file].data # 0 /\ Commits(j)
          /\ excuse' = [excuse EXCEPT !.lost = @ + 1, !.twice = @ \cup {job[j].file}]
    /\ UNCHANGED <<dir, watch>>

\* Mutant: a pool that cannot be rebuilt leaves the job as if it were done.
RebuildFailureIsDone(j) ==
    /\ InJob(j, "lost")
    /\ JobAt(j, "retry") \/ JobAt(j, "ok")
    /\ UNCHANGED <<dir, landed, watch, excuse>>

\* rebuild_watcher_pool, and one retry; when it fails the first error stands
RebuildPool(j) ==
    /\ InJob(j, "lost")
    /\ \/ BuildWatcherPool(watch.target) /\ JobAt(j, "retry")
       \/ JobAt(j, "failed")
    /\ UNCHANGED <<dir, landed, watch, excuse>>

\* Success: the .ready file goes first, then the data file
RemoveReady(j) ==
    /\ InJob(j, "ok")
    /\ dir' = [dir EXCEPT ![job[j].file].ready = FALSE]
    /\ JobAt(j, "removed")
    /\ UNCHANGED <<landed, watch, excuse>>

RemoveData(j) ==
    /\ InJob(j, "removed")
    /\ dir' = [dir EXCEPT ![job[j].file].data = 0]
    /\ JobAt(j, "report")
    /\ UNCHANGED <<landed, watch, excuse>>

\* Failure: the data file and then the .ready file are moved to failed/
MoveData(j) ==
    /\ InJob(j, "failed")
    /\ LET f == job[j].file IN
       dir' = [dir EXCEPT ![f].failed = @ \cup ({dir[f].data} \ {0}), ![f].data = 0]
    /\ JobAt(j, "moved")
    /\ UNCHANGED <<landed, watch, excuse>>

\* Mutant: the move of a failed file leaves its .ready file.
MoveDataOnly(j) ==
    /\ InJob(j, "moved") /\ JobAt(j, "report") /\ UNCHANGED <<dir, landed, watch, excuse>>

MoveReady(j) ==
    /\ InJob(j, "moved")
    /\ dir' = [dir EXCEPT ![job[j].file].ready = FALSE]
    /\ JobAt(j, "report")
    /\ UNCHANGED <<landed, watch, excuse>>

\* The counters, the catalog row under the engine lock, the notification; the claim is let go last
ReportOutcome(j) == InJob(j, "report") /\ Finish(j) /\ UNCHANGED <<dir, landed, excuse>>

\* The process dies: jobs and watcher are gone, what is committed and on disk stays
Crash ==
    /\ excuse.lost < MaxLost
    /\ job' = [j \in JobSlots |-> NoJob]
    /\ watch' = [watch EXCEPT !.phase = "off", !.todo = {}, !.events = <<>>, !.claims = {}]
    /\ excuse' = [excuse EXCEPT !.lost = @ + 1,
                     !.twice = @ \cup {job[j].file : j \in {j \in JobSlots : InJob(j, "ok")}}]
    /\ UNCHANGED <<dir, landed>>

-----------------------------------------------------------------------------

JobStep(j) ==
    \/ CheckFiles(j) \/ IngestCommits(j) \/ IngestFails(j) \/ JobLosesConnection(j) \/ RebuildPool(j)
    \/ RemoveReady(j) \/ RemoveData(j) \/ MoveData(j) \/ MoveReady(j) \/ ReportOutcome(j)

WatcherNext ==
    \/ \E f \in Files : WriteData(f) \/ WriteReady(f)
    \/ \E t \in {"local", "alias"} : StartWatching(t)
    \/ DetachDatabase
    \/ SweepNext \/ Arm \/ StartFails \/ StopWatching \/ TakeEvent \/ Crash
    \/ \E j \in JobSlots : JobStep(j)

WatcherFairness ==
    /\ WF_watcherVars(TakeEvent) /\ WF_watcherVars(SweepNext) /\ WF_watcherVars(Arm)
    /\ \A j \in JobSlots : WF_watcherVars(JobStep(j))

WatcherSpec == WatcherInit /\ [][WatcherNext]_watcherVars /\ WatcherFairness

-----------------------------------------------------------------------------
(* Properties                                                              *)

(* watcher.rs:473-477: Create and Modify of one write, a sweep and the retry after a
   rebuilt pool do not append a file twice.  What the code cannot tell is left out:
   a COMMIT whose answer is lost, a crash between it and the removal, and a job
   of an earlier watch that a new watch meets.                                *)
IngestedOnce == \A f \in Files, v \in Versions : f \notin excuse.twice => landed[f][v] <= 1

(* watcher.rs:858-937: a version leaves the directory only into the table or into failed/,
   when the name was not used again before its job ended.                     *)
LandsOrIsKept ==
    \A f \in Files : f \notin excuse.reused =>
        \A v \in 1..dir[f].made : v = dir[f].data \/ v \in dir[f].failed \/ landed[f][v] > 0

(* watcher.rs:786-792: what is in failed/ for manual intervention is not in the table too. *)
FailedHasNoRows ==
    \A f \in Files, v \in Versions : (v \in dir[f].failed /\ f \notin excuse.twice) => landed[f][v] = 0

(* README.md:803-808: a producer that polls for the absence of its .ready file, which was
   there at the sweep or came while the watch was installed, gets its answer while
   the watch lasts.                                                            *)
WatchedFileIsHandled ==
    \A f \in Files :
        (watch.phase = "armed" /\ dir[f].ready /\ dir[f].announced)
            ~> (~dir[f].ready \/ watch.phase = "off" \/ f \in excuse.reused)

(* README.md:805-807: a producer that waits for the absence of foo.csv.ready can use the
   name again: no version is lost.                                             *)
NoVersionLost ==
    \A f \in Files : \A v \in 1..dir[f].made :
        v = dir[f].data \/ v \in dir[f].failed \/ landed[f][v] > 0

\* A version of a watched file ends in exactly one place, whatever events are
\* repeated, connections lost and jobs retried: in the table once, or in failed/.
VersionLandsInOnePlace == IngestedOnce /\ LandsOrIsKept /\ FailedHasNoRows
=============================================================================
