------------------------------ MODULE McpTools ------------------------------
(***************************************************************************)
(* The tools of the MCP server (hyperdb-mcp/src/server.rs) over the engine *)
(* (engine.rs), the attachment registry (attach.rs) and the table catalogs *)
(* (table_catalog.rs).                                                     *)
(*                                                                         *)
(* Tool calls are serialised by the engine mutex, so one action is one     *)
(* call.  What makes them hard is that most of a call's bookkeeping is     *)
(* best effort: when the connection dies after the data was written, the   *)
(* call still succeeds, the engine stays in its slot with a dead           *)
(* connection, and the next call discards it; the next engine starts with  *)
(* an empty primary database, the replayed attachments and a catalog that  *)
(* still speaks of the old one.                                            *)
(*                                                                         *)
(* Data is abstracted to the number of rows of a table.  A catalog row is  *)
(* its row_count and its prose, and prose is what it was written about.    *)
(* An alias always names the same file.                                    *)
(***************************************************************************)
EXTENDS Integers, FiniteSets, Sequences, Functions

CONSTANTS
    UserTables,      \* user table names
    Aliases,         \* aliases a .hyper file can be attached under
    MaxRows,         \* bound: rows of a table
    MaxCalls         \* bound: tool calls of a behaviour

\* "local" is the server's own alias (validate_alias).  So is "persistent" when
\* there is a persistent database; a file that a server without one attaches
\* under that name is outside the model.  "none" stands for no name.
ASSUME ToolsAssumption ==
    /\ MaxRows \in Nat \ {0} /\ MaxCalls \in Nat
    /\ Aliases \cap {"local", "persistent", "none"} = {}
    /\ "none" \notin UserTables

VARIABLES
    mode,            \* the server's options: [readOnly, persistent]
    engine,          \* the engine slot: "none", "up", or "dead" (connection lost)
    catalogReady,    \* catalog_ready
    db,              \* the tables of each database that exists, with their rows
    catalog,         \* the _table_catalog of each database that has one
    registry,        \* AttachRegistry: alias -> [writable]
    attached,        \* aliases attached in the session of the connection
    path,            \* schema_search_path: "default" or the database it names
    watched,         \* databases a directory watcher ingests into
    querySaved,      \* saved queries
    batch,           \* the load_files call under way
    stray,           \* history: a load was reported failed and its rows are there
    calls            \* bound counter

toolVars == <<mode, engine, catalogReady, db, catalog, registry, attached, path,
              watched, querySaved, batch, stray, calls>>
toolSlot == <<mode, catalogReady>>
toolSession == <<registry, attached, path>>

NoBatch == [store |-> "none", todo |-> {}, done |-> {}, current |-> FALSE]
NoProse == [table |-> "none", store |-> "none"]
Rows == 0 .. MaxRows
EmptyFcn == << >>
Put(f, k, v) == [x \in DOMAIN f \cup {k} |-> IF x = k THEN v ELSE f[x]]

-----------------------------------------------------------------------------
(* resolve_db, check_writable and the catalog a database is described in.  *)

Databases == {"local"} \cup (IF mode.persistent THEN {"persistent"} ELSE {})
                       \cup DOMAIN registry
ResolveWritable(s) == s \in Databases /\ (s \in DOMAIN registry => registry[s].writable)
CheckWritable == ~mode.readOnly

ResolveCatalogAlias(s) == IF s \in Aliases THEN s ELSE "persistent"
HasCatalogAlias(s) == s \in Aliases \/ mode.persistent

EnsureExists(cat, c) == IF c \in DOMAIN cat THEN cat ELSE Put(cat, c, EmptyFcn)

\* Mutant: the stub is written afresh instead of updated.
StubOverwrites(cat, c, t, n) ==
    Put(cat, c, Put(EnsureExists(cat, c)[c], t, [rc |-> n, prose |-> NoProse]))

\* Mutant: the arguments table_name and load_tool change places.
StubSwapsArguments(cat, c, t, n) ==
    Put(cat, c, Put(EnsureExists(cat, c)[c], "load_data", [rc |-> n, prose |-> NoProse]))

UpsertStub(cat, c, t, n) ==
    LET rows == EnsureExists(cat, c)[c]
        prose == IF t \in DOMAIN rows THEN rows[t].prose ELSE NoProse
    IN  Put(cat, c, Put(rows, t, [rc |-> n, prose |-> prose]))

\* The catalog shared by the primary and the persistent database describes
\* both; where a name is in both, the persistent table wins.
ReconcileLiveTables(d, c) ==
    IF c = "persistent"
    THEN [t \in DOMAIN d["local"] \cup DOMAIN d["persistent"] |->
              IF t \in DOMAIN d["persistent"] THEN "persistent" ELSE "local"]
    ELSE [t \in DOMAIN d[c] |-> c]

Phases == {"created", "renamed", "deleted", "stubbed", "done"}

\* reconcile_in, up to a phase: the statements of the phases after it were not
\* reached because the connection was lost.
ReconcileIn(d, cat, c, phase) ==
    LET rows == EnsureExists(cat, c)[c]
        live == ReconcileLiveTables(d, c)
        Count(t) == d[live[t]][t]
        disappeared == DOMAIN rows \ DOMAIN live
        newTables == DOMAIN live \ DOMAIN rows
        candidates == {t \in newTables : live[t] = c}
        Matches(e) == {t \in candidates : Count(t) = rows[e].rc}
        renamed == {e \in disappeared :
                      /\ \A o \in disappeared : rows[o].rc = rows[e].rc => o = e
                      /\ Cardinality(Matches(e)) = 1}
        targets == UNION {Matches(e) : e \in renamed}
        Row(t) == IF t \in targets
                  THEN rows[CHOOSE e \in renamed : t \in Matches(e)]
                  ELSE IF t \in DOMAIN rows THEN rows[t]
                  ELSE [rc |-> Count(t), prose |-> NoProse]
        kept == CASE phase = "created" -> DOMAIN rows
                  [] phase = "renamed" -> (DOMAIN rows \ renamed) \cup targets
                  [] phase = "deleted" -> (DOMAIN rows \cap DOMAIN live) \cup targets
                  [] OTHER -> DOMAIN live
    IN  Put(cat, c, [t \in kept |->
          IF phase = "created" THEN rows[t]
          ELSE IF phase = "done" THEN [Row(t) EXCEPT !.rc = Count(t)]
          ELSE Row(t)])

-----------------------------------------------------------------------------
ToolsInit ==
    /\ mode \in [readOnly : BOOLEAN, persistent : BOOLEAN]
    /\ engine = "none"
    /\ catalogReady = FALSE
    /\ \E files \in SUBSET Aliases, old \in SUBSET UserTables :
         db = [s \in {"local", "persistent"} \cup files |->
                 IF s = "persistent" /\ mode.persistent THEN [t \in old |-> 1] ELSE EmptyFcn]
    /\ catalog = EmptyFcn
    /\ registry = EmptyFcn
    /\ attached = {}
    /\ path = "default"
    /\ watched = {}
    /\ querySaved = FALSE
    /\ batch = NoBatch
    /\ stray = FALSE
    /\ calls = 0

Count1 == calls < MaxCalls /\ calls' = calls + 1

\* A connection on which the search path was never set resolves names in the
\* primary as long as it is the only database.
PinnedPath(kept) == IF mode.persistent \/ kept # {} THEN "local" ELSE "default"

\* Engine::new and replay_all.  A loss in the middle of the replay drops the
\* attachments not yet replayed, and the engine is stored all the same.
EnsureEngine ==
    /\ engine = "none"
    /\ \E kept \in SUBSET DOMAIN registry :
         /\ engine' = IF kept = DOMAIN registry THEN "up" ELSE "dead"
         /\ registry' = Restrict(registry, kept)
         /\ attached' = kept
         /\ path' = PinnedPath(kept)
    /\ db' = [db EXCEPT !["local"] = EmptyFcn]
    /\ catalogReady' = FALSE
    /\ batch' = IF batch.store = "local" THEN [batch EXCEPT !.current = FALSE] ELSE batch
    /\ UNCHANGED <<mode, catalog, watched, querySaved, stray, calls>>

\* Mutant: the catalog is brought up in read-only mode too.
BootstrapsReadOnly ==
    /\ engine = "up"
    /\ ~catalogReady
    /\ catalogReady' = TRUE
    /\ mode.persistent
    /\ catalog' = ReconcileIn(db, catalog, "persistent", "done")
    /\ UNCHANGED <<mode, engine, db, toolSession, watched, querySaved, batch, stray, calls>>

\* ensure_catalog_ready: what goes wrong is only logged
EnsureCatalogReady ==
    /\ engine = "up"
    /\ ~mode.readOnly
    /\ ~catalogReady
    /\ catalogReady' = TRUE
    /\ IF mode.persistent
       THEN \E phase \in Phases :
              /\ catalog' = ReconcileIn(db, catalog, "persistent", phase)
              /\ engine' = IF phase = "done" THEN "up" ELSE "dead"
       ELSE UNCHANGED <<catalog, engine>>
    /\ UNCHANGED <<mode, db, toolSession, watched, querySaved, batch, stray, calls>>

ToolsHyperdDies ==
    /\ engine = "up"
    /\ engine' = "dead"
    /\ UNCHANGED <<toolSlot, db, catalog, toolSession, watched, querySaved, batch, stray, calls>>

\* Every call on a dead connection fails with ConnectionLost
DiscardEngine ==
    /\ engine' = "none"
    /\ catalogReady' = FALSE
    /\ attached' = {}
    /\ path' = "default"
    /\ UNCHANGED <<mode, registry, watched, querySaved, batch, stray>>

CallOnDeadConnection ==
    /\ engine = "dead"
    /\ DiscardEngine
    /\ UNCHANGED <<db, catalog, calls>>

\* A panic inside the closure of with_engine
CallPanics ==
    /\ engine = "up"
    /\ DiscardEngine
    /\ UNCHANGED <<db, catalog, calls>>

\* with_engine: the state in which the closure of a tool runs
WithEngine == engine = "up" /\ (catalogReady \/ mode.readOnly) /\ Count1

\* How the bookkeeping that follows the data of a call ends
Survives == engine' = "up"
LosesConnection == engine' = "dead"

-----------------------------------------------------------------------------
(* Loads.                                                                  *)

AfterIngestCatalogUpdate(s, t, n) ==
    IF ~HasCatalogAlias(s)
    THEN UNCHANGED <<engine, catalog>>
    ELSE \/ /\ Survives
            /\ catalog' = UpsertStub(catalog, ResolveCatalogAlias(s), t, n)
         \/ /\ LosesConnection
            /\ catalog' \in {catalog, EnsureExists(catalog, ResolveCatalogAlias(s))}

\* "rows": the table is created and rows are inserted or copied into it (JSON,
\* CSV, Arrow IPC).  "ctas": CREATE TABLE AS or INSERT ... SELECT over the file
\* (Parquet, Iceberg).
Formats == {"rows", "ctas"}

\* The rows the table can have after a load of n
Loaded(s, t, n, how) ==
    LET old == IF t \in DOMAIN db[s] THEN db[s][t] ELSE 0
    IN  CASE how = "replace" -> {n}
          [] how = "append" -> {old + n}
          [] how = "merge" -> IF n > old THEN n .. old + n ELSE old .. old + n

\* CREATE and DROP are committed at once, the rows are not.  A load that failed
\* leaves the table that replace created anew, or append created, without rows,
\* or, where the table is created by the query itself, no table.
FailedLoads(s, t, fmt, how) ==
    {db} \cup
    (IF fmt = "rows" /\ (how = "replace" \/ (how = "append" /\ t \notin DOMAIN db[s]))
     THEN {[db EXCEPT ![s] = Put(@, t, 0)]} ELSE {}) \cup
    (IF fmt = "ctas" /\ how = "replace"
     THEN {[db EXCEPT ![s] = Restrict(@, DOMAIN @ \ {t})]} ELSE {})

\* count_rows_sync, after a CREATE TABLE AS: the name is not qualified
CountRows(t) == IF t \in DOMAIN db'["local"] THEN db'["local"][t] ELSE -1

\* ingest_json, ingest_csv, Arrow IPC: the rows are counted as they are written
IngestRows(s, t, n) == UNCHANGED stray /\ AfterIngestCatalogUpdate(s, t, n)

\* A Parquet or Iceberg table is counted after it was created
IngestParquet(s, t) ==
    IF CountRows(t) = -1
    THEN stray' = TRUE /\ UNCHANGED <<engine, catalog>>
    ELSE UNCHANGED stray /\ AfterIngestCatalogUpdate(s, t, CountRows(t))

LoadSucceeds(s, t, n, fmt, how) ==
    /\ fmt = "ctas" /\ how = "append" => t \in DOMAIN db[s]
    /\ fmt = "ctas" /\ how = "merge" => s = "local"
    /\ \E m \in Loaded(s, t, n, how) \cap Rows : db' = [db EXCEPT ![s] = Put(@, t, m)]
    /\ IF fmt = "ctas" /\ how = "replace" THEN IngestParquet(s, t) ELSE IngestRows(s, t, n)
    /\ UNCHANGED <<toolSlot, toolSession, watched, querySaved, batch>>

LoadFails(s, t, fmt, how) ==
    /\ db' \in FailedLoads(s, t, fmt, how)
    /\ UNCHANGED catalog
    /\ \/ DiscardEngine
       \/ UNCHANGED <<engine, toolSlot, toolSession, watched, querySaved, batch, stray>>

LoadTable(s, t, n, fmt, how) ==
    /\ CheckWritable
    /\ WithEngine
    /\ ResolveWritable(s)
    /\ LoadSucceeds(s, t, n, fmt, how) \/ LoadFails(s, t, fmt, how)

LoadData == \E s \in Databases, t \in UserTables, how \in {"replace", "append"} :
              LoadTable(s, t, 1, "rows", how)
LoadFile == \E s \in Databases, t \in UserTables, fmt \in Formats,
               how \in {"replace", "append", "merge"} : LoadTable(s, t, 1, fmt, how)
LoadIceberg == \E t \in UserTables, how \in {"replace", "append"} :
                 LoadTable("local", t, 1, "ctas", how)

\* load_files runs outside the engine mutex: it resolves its target, loads each
\* file over a connection of its own pool, and records what succeeded in a
\* second call of with_engine.  The pool keeps the target it was given, so a
\* primary database that was replaced meanwhile takes the rows with it.
LoadFilesStart ==
    /\ CheckWritable
    /\ batch = NoBatch
    /\ WithEngine
    /\ \E s \in Databases, files \in SUBSET UserTables \ {{}} :
         /\ ResolveWritable(s)
         /\ batch' = [store |-> s, todo |-> files, done |-> {}, current |-> TRUE]
    /\ UNCHANGED <<engine, toolSlot, db, catalog, toolSession, watched, querySaved, stray>>

IngestEntry(t) ==
    /\ batch' = [batch EXCEPT !.todo = @ \ {t}, !.done = @ \cup {t}]
    /\ db' = IF batch.current THEN [db EXCEPT ![batch.store] = Put(@, t, 1)] ELSE db
IngestEntryFails(t) ==
    /\ batch' = [batch EXCEPT !.todo = @ \ {t}]
    /\ db' \in IF batch.current THEN FailedLoads(batch.store, t, "rows", "replace") ELSE {db}

LoadFilesEntry ==
    /\ \E t \in batch.todo : IngestEntry(t) \/ IngestEntryFails(t)
    /\ UNCHANGED <<engine, toolSlot, catalog, toolSession, watched, querySaved, stray, calls>>

LoadFilesFinish ==
    /\ batch # NoBatch
    /\ batch.todo = {}
    /\ engine = "up" /\ catalogReady
    /\ \E told \in SUBSET batch.done :
         LET c == ResolveCatalogAlias(batch.store)
             rows == EnsureExists(catalog, c)[c]
         IN  IF ~HasCatalogAlias(batch.store)
             THEN UNCHANGED <<engine, catalog>>
             ELSE /\ engine' = IF told = batch.done THEN "up" ELSE "dead"
                  /\ catalog' = IF told = {} THEN catalog
                       ELSE Put(catalog, c, [t \in DOMAIN rows \cup told |->
                              IF t \in told
                              THEN UpsertStub(catalog, c, t, 1)[c][t] ELSE rows[t]])
    /\ batch' = NoBatch
    /\ UNCHANGED <<toolSlot, db, toolSession, watched, querySaved, stray, calls>>

\* An ingest of the directory watcher, on a connection of its own.  It does not
\* touch the catalog.
WatcherIngest ==
    /\ \E s \in watched, t \in UserTables :
         /\ s \in DOMAIN db
         /\ \E m \in Loaded(s, t, 1, "append") \cap Rows :
              db' = [db EXCEPT ![s] = Put(@, t, m)]
    /\ engine # "none"
    /\ Count1
    /\ UNCHANGED <<engine, toolSlot, catalog, toolSession, watched, querySaved, batch, stray>>

-----------------------------------------------------------------------------
(* Statements.                                                             *)

\* after_execute_catalog_update: the shared catalog, then the target's own
AfterExecuteCatalogUpdate(d, s) ==
    \E p \in Phases, q \in Phases :
      LET shared == IF mode.persistent
                    THEN ReconcileIn(d, catalog, "persistent", p) ELSE catalog
      IN  /\ (p # "done" \/ s \notin Aliases) => q = p
          /\ catalog' = IF p = "done" /\ s \in Aliases
                        THEN ReconcileIn(d, shared, s, q) ELSE shared
          /\ ~mode.persistent /\ s \notin Aliases => p = "done"
          /\ engine' = IF p = "done" /\ q = "done" THEN "up" ELSE "dead"

\* The search path is set to the target for the statement and set back before
\* the catalogs are reconciled; a loss on the way ends the call.
StatementLost == /\ DiscardEngine
                 /\ UNCHANGED <<db, catalog>>

Ddl(s, d) ==
    /\ db' = [db EXCEPT ![s] = d]
    /\ AfterExecuteCatalogUpdate(db', s)
    /\ UNCHANGED <<toolSlot, toolSession, watched, querySaved, batch, stray>>

CreateTable(s) == \E t \in UserTables \ DOMAIN db[s], n \in Rows : Ddl(s, Put(db[s], t, n))
DropTable(s) == \E t \in DOMAIN db[s] : Ddl(s, Restrict(db[s], DOMAIN db[s] \ {t}))
RenameTable(s) ==
    \E t \in DOMAIN db[s], u \in UserTables \ DOMAIN db[s] :
      Ddl(s, Put(Restrict(db[s], DOMAIN db[s] \ {t}), u, db[s][t]))

\* A batch of DML is one transaction, and leaves the catalog alone
Dml(s) ==
    /\ \E t \in DOMAIN db[s], n \in Rows : db' = [db EXCEPT ![s][t] = n]
    /\ engine' \in {"up", "dead"}
    /\ UNCHANGED <<toolSlot, catalog, toolSession, watched, querySaved, batch, stray>>

ToolExecute ==
    /\ CheckWritable
    /\ WithEngine
    /\ \E s \in Databases :
         /\ ResolveWritable(s)
         /\ CreateTable(s) \/ DropTable(s) \/ RenameTable(s) \/ Dml(s) \/ StatementLost

\* The tools that only read: a statement may find the connection lost, which
\* is reported, or setting the search path back may, which is not.
ReadTool ==
    /\ WithEngine
    /\ UNCHANGED <<db, catalog>>
    /\ \/ DiscardEngine
       \/ engine' \in {"up", "dead"} /\ UNCHANGED <<toolSlot, toolSession, watched, querySaved, batch, stray>>

Query == ReadTool
Sample == ReadTool
Chart == ReadTool
Describe == ReadTool
Export == ReadTool
ListAttachedDatabases == ReadTool
ToolReadResource == ReadTool
\* Their data goes into a scratch table of the primary that no catalog lists
QueryData == ReadTool
QueryFile == ReadTool

SetTableMetadata ==
    /\ CheckWritable
    /\ WithEngine
    /\ \E s \in Databases :
         LET c == ResolveCatalogAlias(s)
             live == ReconcileLiveTables(db, c)
         IN  /\ ResolveWritable(s)
             /\ HasCatalogAlias(s)
             /\ c \in DOMAIN catalog
             /\ \E t \in DOMAIN catalog[c] :
                  catalog' = [catalog EXCEPT ![c][t].prose =
                    [table |-> t, store |-> IF t \in DOMAIN live THEN live[t] ELSE "none"]]
    /\ Survives \/ LosesConnection
    /\ UNCHANGED <<toolSlot, db, toolSession, watched, querySaved, batch, stray>>

\* Saved queries live in the persistent database, or in the session without one
ToolSaveQuery ==
    /\ CheckWritable
    /\ IF mode.persistent THEN WithEngine ELSE Count1
    /\ ~querySaved
    /\ querySaved' = TRUE
    /\ UNCHANGED <<engine, toolSlot, db, catalog, toolSession, watched, batch, stray>>

ToolDeleteQuery ==
    /\ CheckWritable
    /\ IF mode.persistent THEN WithEngine ELSE Count1
    /\ querySaved
    /\ querySaved' = FALSE
    /\ UNCHANGED <<engine, toolSlot, db, catalog, toolSession, watched, batch, stray>>

-----------------------------------------------------------------------------
(* Attachments.                                                            *)

\* Mutant: the database is attached and not registered.
AttachUnregistered(a, writable) ==
    /\ a \notin DOMAIN registry
    /\ a \in DOMAIN db
    /\ attached' = attached \cup {a}
    /\ path' = "local"
    /\ UNCHANGED <<db, catalog, registry>>

\* AttachRegistry::attach: the state after it, with the file created if missing.
\* The rollback of a catalog that could not be seeded leaves the file behind.
Attach(a, writable) ==
    LET creates == a \notin DOMAIN db
        attachedDb == IF creates THEN Put(db, a, EmptyFcn) ELSE db
    IN  /\ a \notin DOMAIN registry
        /\ creates => writable
        /\ db' = attachedDb
        /\ catalog' = IF creates THEN EnsureExists(catalog, a) ELSE catalog
        /\ registry' = Put(registry, a, [writable |-> writable])
        /\ attached' = attached \cup {a}
        /\ path' = "local"

\* Mutant: the path is reset although the persistent database is attached.
ResetsAlways == "default"

ResetSearchPath == IF mode.persistent THEN "local" ELSE "default"

AttachRollback(a) ==
    /\ a \notin DOMAIN registry
    /\ a \notin DOMAIN db
    /\ db' = Put(db, a, EmptyFcn)
    /\ path' = IF DOMAIN registry = {} THEN ResetSearchPath ELSE path
    /\ UNCHANGED <<catalog, registry, attached>>

AttachDatabase ==
    /\ WithEngine
    /\ \E a \in Aliases, writable \in BOOLEAN :
         /\ writable => CheckWritable
         /\ \/ Attach(a, writable) /\ engine' \in {"up", "dead"}
            \/ writable /\ AttachRollback(a) /\ Survives
    /\ UNCHANGED <<toolSlot, watched, querySaved, batch, stray>>

\* AttachRegistry::detach, which leaves the entry when DETACH fails
Detach(a) ==
    /\ registry' = Restrict(registry, DOMAIN registry \ {a})
    /\ attached' = attached \ {a}
    /\ path' = IF DOMAIN registry' = {} THEN ResetSearchPath ELSE path

ToolDetachDatabase ==
    /\ WithEngine
    /\ \E a \in DOMAIN registry :
         /\ a \notin watched
         /\ Detach(a)
    /\ engine' \in {"up", "dead"}
    /\ UNCHANGED <<toolSlot, db, catalog, watched, querySaved, batch, stray>>

WatchDirectory ==
    /\ CheckWritable
    /\ WithEngine
    /\ \E s \in Databases \ watched :
         /\ ResolveWritable(s)
         /\ watched' = watched \cup {s}
    /\ UNCHANGED <<engine, toolSlot, db, catalog, toolSession, querySaved, batch, stray>>

UnwatchDirectory ==
    /\ \E s \in watched : watched' = watched \ {s}
    /\ Count1
    /\ UNCHANGED <<engine, toolSlot, db, catalog, toolSession, querySaved, batch, stray>>

\* copy_query into the primary or an attached database (never "persistent",
\* which the registry does not know), optionally from a file attached for the
\* call.  Only a copy into the primary is recorded in a catalog.
CopyData(s, t) ==
    \E n \in Rows, how \in {"replace", "append"} :
      \E m \in Loaded(s, t, n, how) \cap Rows : db' = [db EXCEPT ![s] = Put(@, t, m)]

CopyQuery ==
    /\ CheckWritable
    /\ WithEngine
    /\ \E s \in {"local"} \cup DOMAIN registry, t \in UserTables :
         /\ ResolveWritable(s)
         /\ CopyData(s, t)
         /\ IF s = "local" THEN AfterIngestCatalogUpdate(s, t, db'[s][t])
                           ELSE UNCHANGED <<engine, catalog>>
    /\ UNCHANGED <<toolSlot, toolSession, watched, querySaved, batch, stray>>

\* The file attached for the call is detached before the catalog is updated;
\* one whose DETACH is lost stays in the registry, and is replayed.
CopyQueryWithTempAttach ==
    /\ CheckWritable
    /\ WithEngine
    /\ \E a \in DOMAIN db \cap Aliases, t \in UserTables :
         /\ a \notin DOMAIN registry
         /\ \/ /\ CopyData("local", t)
               /\ AfterIngestCatalogUpdate("local", t, db'["local"][t])
               /\ path' = IF DOMAIN registry = {} THEN ResetSearchPath ELSE path
               /\ UNCHANGED <<registry, attached, catalogReady>>
            \/ /\ CopyData("local", t) \/ UNCHANGED db
               /\ registry' = Put(registry, a, [writable |-> FALSE])
               /\ engine' = "none"
               /\ catalogReady' = FALSE
               /\ attached' = {}
               /\ path' = "default"
               /\ UNCHANGED catalog
    /\ UNCHANGED <<mode, watched, querySaved, batch, stray>>

ToolsNext ==
    \/ EnsureEngine \/ EnsureCatalogReady \/ ToolsHyperdDies \/ CallOnDeadConnection
    \/ CallPanics
    \/ LoadData \/ LoadFile \/ LoadIceberg \/ WatcherIngest
    \/ LoadFilesStart \/ LoadFilesEntry \/ LoadFilesFinish
    \/ ToolExecute \/ Query \/ Sample \/ Chart \/ Describe \/ Export
    \/ ListAttachedDatabases \/ ToolReadResource \/ QueryData \/ QueryFile
    \/ SetTableMetadata \/ ToolSaveQuery \/ ToolDeleteQuery
    \/ AttachDatabase \/ ToolDetachDatabase \/ WatchDirectory \/ UnwatchDirectory
    \/ CopyQuery \/ CopyQueryWithTempAttach

ToolsSpec == ToolsInit /\ [][ToolsNext]_toolVars

-----------------------------------------------------------------------------
\* The shape of the state.
ToolsTypeOK ==
    /\ mode \in [readOnly : BOOLEAN, persistent : BOOLEAN]
    /\ engine \in {"none", "up", "dead"}
    /\ catalogReady \in BOOLEAN /\ querySaved \in BOOLEAN /\ stray \in BOOLEAN
    /\ {"local", "persistent"} \subseteq DOMAIN db
    /\ DOMAIN db \subseteq {"local", "persistent"} \cup Aliases
    /\ \A s \in DOMAIN db : DOMAIN db[s] \subseteq UserTables
                            /\ \A t \in DOMAIN db[s] : db[s][t] \in Rows
    /\ \A c \in DOMAIN catalog : DOMAIN catalog[c] \subseteq UserTables
    /\ DOMAIN registry \subseteq Aliases /\ attached \subseteq Aliases
    /\ calls \in 0 .. MaxCalls

\* Between two calls unqualified names resolve in the primary database: the
\* search path names it, or was never set and the primary is the only database
\* (set_primary_search_path, reset_search_path, with_search_path).
NamesResolveInPrimary ==
    engine = "up" =>
      path = "local" \/ (path = "default" /\ attached = {} /\ ~mode.persistent)

\* On a live connection the registry lists what the session has attached, so
\* every alias a tool accepts is one the server knows, also after a reconnect.
RegistryMatchesSession == engine = "up" => attached = DOMAIN registry

\* While its table is there, the prose a user wrote is never lost by the
\* bookkeeping: a reload, a reconciliation or its interruption keeps it.
ProseKept ==
    \A c \in DOMAIN catalog : \A t \in DOMAIN catalog[c] :
      /\ catalog[c][t].prose # NoProse
      /\ t \in DOMAIN db'[c]
      => /\ t \in DOMAIN catalog'[c]
         /\ catalog'[c][t].prose # NoProse
ProseSurvives == [][ProseKept]_toolVars

\* In read-only mode no tool changes a durable table or a catalog: the
\* reconciliation of the catalog included.
DurableDataKept ==
    mode.readOnly =>
      /\ \A s \in DOMAIN db \ {"local"} : s \in DOMAIN db' /\ db'[s] = db[s]
      /\ catalog' = catalog
ReadOnlyKeepsDurableData == [][DurableDataKept]_toolVars

\* ingest.rs: "a failed ingest leaves zero additional rows behind".
FailedLoadLeavesNoRows == ~stray

\* What a user of the tools can rely on across calls, lost connections and new
\* engines: the session is the one the registry and the names mean, prose
\* outlives the bookkeeping, and read-only changes nothing durable.
ToolsKeepUserData ==
    /\ [](ToolsTypeOK /\ NamesResolveInPrimary /\ RegistryMatchesSession)
    /\ ProseSurvives
    /\ ReadOnlyKeepsDurableData
=============================================================================
