--------------------------- MODULE ApiConnection ---------------------------
(***************************************************************************)
(* The public connection of hyperdb-api: how the builders open one         *)
(* (connection_builder.rs, async_connection_builder.rs), the statements it *)
(* sends, the transaction guards (transaction.rs, async_transaction.rs)    *)
(* and close, for both the blocking and the async connection, over the     *)
(* socket transports and over the read-only gRPC one (transport.rs).       *)
(*                                                                         *)
(* The server is external: a statement is accepted, refused (inside a      *)
(* transaction that aborts it, and then only ROLLBACK is accepted), or     *)
(* finds the connection lost, which ends the session and rolls back.  A    *)
(* second BEGIN is refused or only draws a warning.                        *)
(***************************************************************************)
EXTENDS Integers, FiniteSets

CONSTANTS
    MaxGuards,       \* bound: transaction guards opened
    MaxWrites        \* bound: rows written

VARIABLES
    api,             \* the connection object and the guard that borrows it
    session,         \* the server's side of the connection
    disk,            \* the database file
    story            \* history: which writes were accepted, which commits sent

apiVars == <<api, session, disk, story>>

CreateModes == {"DoNotCreate", "Create", "CreateIfNotExists", "CreateAndReplace"}
Guards == 1..MaxGuards
NoSession == [alive |-> FALSE, tx |-> "none", work |-> {}, attached |-> FALSE,
              path |-> FALSE, timeout |-> FALSE]

ApiInit ==
    /\ api \in [kind : {"sync", "async"}, transport : {"tcp", "grpc"}, stage : {"none"},
                mode : {"DoNotCreate"}, wantTimeout : {FALSE}, guard : {0}, opened : {0}]
    /\ session = NoSession
    /\ disk \in [exists : BOOLEAN, gen : {"old"}, rows : {{}}]
    /\ story = [written |-> {}, commits |-> {}, left |-> {}]

-----------------------------------------------------------------------------
(* Statements                                                              *)

At(stage) == api.stage = stage
Go(stage) == api' = [api EXCEPT !.stage = stage]

Accepts == session.alive /\ session.tx # "failed"
StatementRefused == /\ session.alive
           /\ session' = [session EXCEPT !.tx = IF @ = "none" THEN "none" ELSE "failed"]
Lost == session' = NoSession
Fails == StatementRefused \/ Lost

\* A statement that succeeds with the effect `ok`, or fails and changes nothing else
Statement(ok) == \/ Accepts /\ ok
                 \/ Fails /\ UNCHANGED <<api, disk, story>>

-----------------------------------------------------------------------------
(* Opening                                                                 *)

\* build: the transport follows from the endpoint.  gRPC refuses what it cannot
\* do before it connects
Build(mode, wantTimeout) ==
    /\ At("none")
    /\ api.transport = "grpc" => mode = "DoNotCreate" /\ ~wantTimeout
    /\ api' = [api EXCEPT !.mode = mode, !.wantTimeout = wantTimeout,
                          !.stage = IF api.transport = "grpc" THEN "open" ELSE "timeout"]
    /\ session' = [NoSession EXCEPT !.alive = TRUE]
    /\ disk' = [disk EXCEPT !.gen = "old"]
    /\ UNCHANGED story

\* A step of build that fails drops the connection
BuildFails(stage) == At(stage) /\ Go("none") /\ session' = NoSession /\ UNCHANGED story

SetQueryTimeout ==
    /\ At("timeout")
    /\ api.wantTimeout => session.alive
    /\ session' = [session EXCEPT !.timeout = api.wantTimeout]
    /\ Go("create")
    /\ UNCHANGED <<disk, story>>

SetQueryTimeoutFails == api.wantTimeout /\ BuildFails("timeout") /\ UNCHANGED disk

\* Mutant: the replace mode falls back on CREATE DATABASE IF NOT EXISTS.
ReplaceKeepsExisting ==
    /\ At("create")
    /\ disk' = [disk EXCEPT !.exists = TRUE,
                            !.gen = IF disk.exists THEN @ ELSE "new"]
    /\ Go("attach")
    /\ UNCHANGED <<session, story>>

\* handle_creation_mode.  DROP and CREATE are two statements; the blocking
\* connection goes on to CREATE when DROP failed
HandleCreationMode ==
    /\ At("create")
    /\ api.mode # "DoNotCreate" => session.alive
    /\ \/ api.mode = "DoNotCreate" /\ UNCHANGED disk
       \/ api.mode = "Create" /\ ~disk.exists
          /\ disk' = [exists |-> TRUE, gen |-> "new", rows |-> {}]
       \/ api.mode = "CreateIfNotExists"
          /\ disk' = IF disk.exists THEN disk ELSE [exists |-> TRUE, gen |-> "new", rows |-> {}]
       \/ api.mode = "CreateAndReplace"
          /\ disk' = [exists |-> TRUE, gen |-> "new", rows |-> {}]
    /\ Go("attach")
    /\ UNCHANGED <<session, story>>

\* The blocking connection reports the CREATE that failed, after a DROP that may
\* have worked; an already-exists error is no failure for CreateIfNotExists
HandleCreationModeFails ==
    /\ api.kind = "sync" /\ api.mode # "DoNotCreate"
    /\ BuildFails("create")
    /\ \/ UNCHANGED disk
       \/ api.mode = "CreateAndReplace" /\ disk' = [exists |-> FALSE, gen |-> "old", rows |-> {}]

\* The async connection reports whichever of DROP and CREATE failed
HandleCreationModeAsyncFails ==
    /\ api.kind = "async" /\ api.mode # "DoNotCreate"
    /\ BuildFails("create")
    /\ \/ UNCHANGED disk
       \/ api.mode = "CreateAndReplace" /\ disk' = [exists |-> FALSE, gen |-> "old", rows |-> {}]

\* attach_and_set_path
AttachAndSetPath ==
    /\ At("attach")
    /\ session.alive /\ disk.exists
    /\ session' = [session EXCEPT !.attached = TRUE, !.path = TRUE]
    /\ Go("open")
    /\ UNCHANGED <<disk, story>>

AttachAndSetPathFails == BuildFails("attach") /\ UNCHANGED disk

-----------------------------------------------------------------------------
(* The open connection.  Under a guard the same calls go through the guard *)

IsOpen == At("open")
Writable == IsOpen /\ api.transport = "tcp"
NewWrite == [by |-> api.guard, n |-> Cardinality(story.written) + 1]

\* One row inserted: durable at once outside a transaction.  A lost connection
\* does not tell whether the statement was applied
Applied(w) ==
    /\ story' = [story EXCEPT !.written = @ \cup {w}]
    /\ IF session.tx = "none"
       THEN disk' = [disk EXCEPT !.rows = @ \cup {w}] /\ UNCHANGED session
       ELSE session' = [session EXCEPT !.work = @ \cup {w}] /\ UNCHANGED disk

ExecuteCommand ==
    /\ Writable /\ disk.exists
    /\ Cardinality(story.written) < MaxWrites
    /\ UNCHANGED api
    /\ \/ Accepts /\ Applied(NewWrite)
       \/ Fails /\ UNCHANGED <<disk, story>>
       \/ /\ Accepts /\ session.tx = "none" /\ Lost
          /\ disk' = [disk EXCEPT !.rows = @ \cup {NewWrite}]
          /\ story' = [story EXCEPT !.written = @ \cup {NewWrite}]

\* execute_batch stops at the first statement that fails; what came before stays
ExecuteBatch ==
    /\ Writable /\ disk.exists
    /\ Cardinality(story.written) + 2 <= MaxWrites
    /\ Accepts
    /\ UNCHANGED api
    /\ LET second == [NewWrite EXCEPT !.n = @ + 1]
           both == {NewWrite, second}
       IN \E done \in {{NewWrite}, both} :
            /\ story' = [story EXCEPT !.written = @ \cup done]
            /\ IF session.tx = "none"
               THEN disk' = [disk EXCEPT !.rows = @ \cup done] /\ UNCHANGED session
               ELSE /\ session' = [session EXCEPT !.work = @ \cup done,
                                                  !.tx = IF done = both THEN @ ELSE "failed"]
                    /\ UNCHANGED disk

\* prepare, query_params, command_params: the extended protocol, refused on gRPC
CommandParams == ExecuteCommand
PreparedExecute == ExecuteCommand

\* execute_query and what is built on it: reads.  Each gRPC query has a client of its own
ReadQuery ==
    /\ IsOpen
    /\ \/ api.transport = "grpc" /\ UNCHANGED apiVars
       \/ api.transport = "tcp" /\ Statement(UNCHANGED apiVars)

\* What is built on execute_query or on a prepared statement, and only reads
FetchOne == ReadQuery
FetchOptional == ReadQuery
FetchAll == ReadQuery
StreamAs == ReadQuery
FetchScalar == ReadQuery
ExecuteQueryToArrow == ReadQuery
Explain == ReadQuery
HasTable == ReadQuery
QueryParams == Writable /\ ReadQuery
PreparedQuery == Writable /\ ReadQuery
GuardedQuery == api.guard # 0 /\ ReadQuery
AsyncFetch == api.kind = "async" /\ ReadQuery
AsyncQueryParams == api.kind = "async" /\ QueryParams
AsyncStreamAs == api.kind = "async" /\ ReadQuery
AsyncGuardedQuery == api.kind = "async" /\ GuardedQuery
Reads == \/ ReadQuery \/ FetchOne \/ FetchOptional \/ FetchAll \/ StreamAs \/ FetchScalar
         \/ ExecuteQueryToArrow \/ Explain \/ HasTable \/ QueryParams \/ PreparedQuery
         \/ GuardedQuery \/ AsyncFetch \/ AsyncQueryParams \/ AsyncStreamAs \/ AsyncGuardedQuery

\* Statements that change neither the session nor this database: ping, UNLOAD,
\* CREATE SCHEMA, CREATE DATABASE of another file and its copy
OtherCommand == Writable /\ Statement(UNCHANGED apiVars)
Ping == OtherCommand
UnloadDatabase == OtherCommand
CreateSchema == OtherCommand
CreateDatabase == OtherCommand
CopyDatabase == OtherCommand
AsyncOtherCommand == api.kind = "async" /\ OtherCommand
Commands == \/ Ping \/ UnloadDatabase \/ CreateSchema \/ CreateDatabase \/ CopyDatabase
            \/ AsyncOtherCommand

\* attach_database and detach_database on the connection's own database
AttachDatabase == Writable /\ Statement(/\ disk.exists
                                        /\ session' = [session EXCEPT !.attached = TRUE]
                                        /\ UNCHANGED <<api, disk, story>>)
DetachDatabase == Writable /\ Statement(/\ session.tx = "none"
                                        /\ session' = [session EXCEPT !.attached = FALSE]
                                        /\ UNCHANGED <<api, disk, story>>)

-----------------------------------------------------------------------------
(* Transactions                                                            *)

\* Mutant: BEGIN is deferred to the first write and forgotten.
BeginSkipped ==
    /\ Writable /\ api.guard = 0 /\ api.opened < MaxGuards
    /\ api' = [api EXCEPT !.opened = @ + 1, !.guard = api.opened + 1]
    /\ UNCHANGED <<session, disk, story>>

\* Connection::transaction: BEGIN TRANSACTION, then the guard
BeginTransaction ==
    /\ Writable /\ api.guard = 0 /\ api.opened < MaxGuards
    /\ Statement(/\ api' = [api EXCEPT !.opened = @ + 1, !.guard = api.opened + 1]
                 /\ session' = [session EXCEPT !.tx = "open"]
                 /\ UNCHANGED <<disk, story>>)

\* The end of the session's transaction: its work becomes durable or vanishes
Ended == [session EXCEPT !.tx = "none", !.work = {}]
GuardGone == api' = [api EXCEPT !.guard = 0]
LeftOpen == story' = [story EXCEPT !.left = @ \cup {api.guard}]

\* commit: `completed` is set first, so the guard is done with the transaction
\* whatever the server answers; an aborted one is refused and left
Commit ==
    /\ IsOpen /\ api.guard # 0
    /\ GuardGone
    /\ \/ /\ Accepts
          /\ session' = Ended
          /\ disk' = [disk EXCEPT !.rows = @ \cup session.work]
          /\ story' = [story EXCEPT !.commits = @ \cup {api.guard}]
       \/ StatementRefused /\ UNCHANGED disk
          /\ story' = [story EXCEPT !.commits = @ \cup {api.guard}, !.left = @ \cup {api.guard}]
       \/ /\ Lost
          /\ \/ Accepts /\ disk' = [disk EXCEPT !.rows = @ \cup session.work]
             \/ UNCHANGED disk
          /\ story' = [story EXCEPT !.commits = @ \cup {api.guard}]

Rollback ==
    /\ IsOpen /\ api.guard # 0
    /\ GuardGone
    /\ UNCHANGED disk
    /\ \/ session.alive /\ session' = Ended /\ UNCHANGED story
       \/ StatementRefused /\ LeftOpen
       \/ Lost /\ UNCHANGED story

\* Mutant: the blocking guard only warns, as the async one does.
DropOnlyWarns ==
    /\ IsOpen /\ api.guard # 0 /\ api.kind = "sync"
    /\ GuardGone
    /\ UNCHANGED <<session, disk, story>>

\* Drop of a guard that was neither committed nor rolled back: the blocking one
\* sends ROLLBACK and only logs that it failed
DropGuard == api.kind = "sync" /\ Rollback

\* The async guard cannot send anything from Drop and leaves the transaction open
DropAsyncGuard ==
    /\ IsOpen /\ api.guard # 0 /\ api.kind = "async"
    /\ GuardGone /\ LeftOpen
    /\ UNCHANGED <<session, disk>>

\* rollback_unguarded: how a session with a transaction left open recovers
RollbackUnguarded ==
    /\ Writable /\ api.guard = 0
    /\ (session.alive /\ session' = Ended) \/ Fails
    /\ UNCHANGED <<api, disk, story>>

-----------------------------------------------------------------------------
(* Closing                                                                 *)

\* Mutant: the error of DETACH is returned with `?`.
CloseReturnsDetachError ==
    /\ IsOpen /\ api.guard = 0
    /\ Go("closed")
    /\ IF session.attached /\ session.tx = "none" THEN session' = NoSession ELSE StatementRefused
    /\ UNCHANGED <<disk, story>>

\* close: DETACH, then terminate whatever DETACH said.  A lost or terminated
\* session loses its open transaction
Close ==
    /\ IsOpen /\ api.guard = 0
    /\ Go("closed")
    /\ session' = NoSession
    /\ UNCHANGED <<disk, story>>

\* The server or the network goes away
ConnectionDies ==
    /\ session.alive
    /\ session' = NoSession
    /\ UNCHANGED <<api, disk, story>>

ApiNext ==
    \/ \E mode \in CreateModes, wantTimeout \in BOOLEAN : Build(mode, wantTimeout)
    \/ SetQueryTimeout \/ SetQueryTimeoutFails
    \/ HandleCreationMode \/ HandleCreationModeFails \/ HandleCreationModeAsyncFails
    \/ AttachAndSetPath \/ AttachAndSetPathFails
    \/ ExecuteCommand \/ CommandParams \/ PreparedExecute \/ ExecuteBatch
    \/ Reads \/ Commands
    \/ AttachDatabase \/ DetachDatabase
    \/ BeginTransaction \/ Commit \/ Rollback \/ DropGuard \/ DropAsyncGuard
    \/ RollbackUnguarded
    \/ Close \/ ConnectionDies

ApiSpec == ApiInit /\ [][ApiNext]_apiVars

-----------------------------------------------------------------------------
(* Properties                                                              *)

DurableOf(g) == {w \in disk.rows : w.by = g}
WrittenOf(g) == {w \in story.written : w.by = g}

\* All or nothing: of what was written under a guard that is gone, either every
\* accepted row is durable or none, and none unless commit was called.  A guard
\* that left its transaction open (an async guard dropped, a refused COMMIT or
\* ROLLBACK) is the exception: the next COMMIT on the connection takes its work.
GuardedWorkIsAtomic ==
    \A g \in Guards \ story.left :
        /\ g \notin story.commits => DurableOf(g) = {}
        /\ g # api.guard => DurableOf(g) \in {{}, WrittenOf(g)}

\* A blocking guard never leaves its transaction open: without one the session
\* is in no transaction, so the next statement is durable on its own.
NoTransactionLeft ==
    IsOpen /\ api.kind = "sync" /\ api.guard = 0 /\ story.left = {} => session.tx = "none"

\* A builder that returns a connection returns a configured one: the database is
\* attached and on the search path, the timeout is set, and the database is a
\* new one exactly when the mode says so.
OpenIsConfigured ==
    [][At("attach") /\ api'.stage = "open" =>
          /\ session'.attached /\ session'.path
          /\ session'.timeout = api.wantTimeout
          /\ api.mode \in {"Create", "CreateAndReplace"} => disk'.gen = "new"]_apiVars

\* close ends the session also when DETACH fails: nothing of it stays on the server.
CloseEndsSession == At("closed") => ~session.alive

\* A connection is configured when it is handed out, the work under its guards is
\* atomic and leaves no transaction behind, and close ends it.
TransactionsAreWhole ==
    /\ [](GuardedWorkIsAtomic /\ NoTransactionLeft /\ CloseEndsSession)
    /\ OpenIsConfigured
=============================================================================
