---------------------------- MODULE McpResources ----------------------------
(***************************************************************************)
(* The resources of one hyperdb-mcp server: the hyper:// URIs a client     *)
(* lists, reads and subscribes to, the saved queries behind two of them    *)
(* (SessionStore in memory, WorkspaceStore in the persistent database) and *)
(* the notifications that the tools send after a change.                   *)
(*                                                                         *)
(* A tool changes the data under the engine's lock and notifies after it   *)
(* has let the lock go; the client's calls and other tools run in between. *)
(* "summary" stands for hyper://workspace, hyper://tables and              *)
(* hyper://readme, which every change of a table concerns.                 *)
(***************************************************************************)
EXTENDS Integers, FiniteSets

CONSTANTS Tables, Queries, Callers,
    MaxChanges, \* bound: changes of the data, and restarts
    MaxSubs     \* bound: subscriptions at one time

VARIABLES
    data,    \* the tables and how often each was changed; 0: there is none
    saved,   \* the saved queries: kind of the store, rows, meta-table, flag
    tool,    \* the tool call of each caller
    subs,    \* SubscriptionRegistry: the URIs the client subscribed to
    inbox,   \* notifications sent that the client has not acted on
    view,    \* what the client has read since it subscribed, its list, its call
    ghost    \* changes made; queries whose save was confirmed; tables changed without a notice

resVars == <<data, saved, tool, subs, inbox, view, ghost>>

Summary == <<"summary", "">>
TableUri(t) == <<"table", t>>
Definition(q) == <<"definition", q>>
Result(q) == <<"result", q>>
QueryUris(q) == {Definition(q), Result(q)}
Uris == {Summary} \cup {TableUri(t) : t \in Tables} \cup UNION {QueryUris(q) : q \in Queries}
ListChanged == <<"list_changed", "">>
Unread == <<>>
NoCall == [op |-> "idle"]
Empty == [q \in Queries |-> 0]

\* WorkspaceStore when the server has a persistent database, else SessionStore
BuildStore(persistent) == [persistent |-> persistent, rows |-> Empty, table |-> FALSE, initialized |-> FALSE]
NoView == [seen |-> [u \in Uris |-> Unread], listed |-> {}, hasList |-> FALSE, call |-> NoCall]

ResInit ==
    /\ data = [t \in Tables |-> 0]
    /\ \E p \in BOOLEAN : saved = BuildStore(p)
    /\ tool = [c \in Callers |-> NoCall]
    /\ subs = {}
    /\ inbox = {}
    /\ view = NoView
    /\ ghost = [changes |-> 0, confirmed |-> Empty, silent |-> {}]

-----------------------------------------------------------------------------
(* The stores                                                              *)

\* Mutant: the meta-table is created anew by every server.
TableRecreated(s) ==
    IF ~s.persistent \/ s.initialized THEN s
    ELSE [s EXCEPT !.table = TRUE, !.initialized = TRUE, !.rows = Empty]

\* CREATE TABLE IF NOT EXISTS, once for each store object; SessionStore has none
EnsureTable(s) ==
    IF ~s.persistent \/ s.initialized THEN s
    ELSE [s EXCEPT !.table = TRUE, !.initialized = TRUE]

Get(s, q) == EnsureTable(s).rows[q]
ListQueries(s) == {q \in Queries : Get(s, q) # 0}
HasQuery(s, q) == Get(s, q) # 0
Insert(s, q, n) == [EnsureTable(s) EXCEPT !.rows[q] = n]
Remove1(s, q) == [EnsureTable(s) EXCEPT !.rows[q] = 0]

-----------------------------------------------------------------------------
(* The registry                                                            *)

NotifyUpdated(uris) == uris \cap subs

\* Mutant: only subscribers of the table list are told of a changed list.
ListChangedToSummaryOnly == IF Summary \in subs THEN {ListChanged} ELSE {}

\* Sent once for every subscription: to nobody without one
NotifyListChanged == IF subs = {} THEN {} ELSE {ListChanged}
UrisForTableChange(t) == {Summary, TableUri(t)}
UrisForWorkspaceChange == {Summary}

Subscribe(u) ==
    /\ subs' = subs \cup {u}
    /\ Cardinality(subs') <= MaxSubs
    /\ UNCHANGED <<data, saved, tool, inbox, view, ghost>>

\* Every subscription of the URI goes; the client passes over what still comes for it
Unsubscribe(u) ==
    /\ u \in subs
    /\ subs' = subs \ {u}
    /\ view' = [view EXCEPT !.seen[u] = Unread, !.hasList = @ /\ subs' # {}, !.listed = IF subs' = {} THEN {} ELSE @,
                            !.call = IF (@.op = "list" /\ subs' = {}) \/ (@.op = "result" /\ u = Result(@.q))
                                     THEN [@ EXCEPT !.told = FALSE] ELSE @]
    /\ inbox' = (inbox \ {u}) \ (IF subs' = {} THEN {ListChanged} ELSE {})
    /\ UNCHANGED <<data, saved, tool, ghost>>

-----------------------------------------------------------------------------
(* Tools: the change under the engine's lock, then the notifications       *)

BeginTool(c, op) ==
    /\ tool[c] = NoCall
    /\ ghost.changes < MaxChanges
    /\ tool' = [tool EXCEPT ![c] = op]
    /\ UNCHANGED <<subs, inbox, view>>

Counted(g) == [g EXCEPT !.changes = @ + 1]

\* load_data, load_file, load_files and the watcher; copy_query into the local database
Load(c, t, replace) ==
    /\ BeginTool(c, [op |-> "load", t |-> t, replace |-> replace])
    /\ data' = [data EXCEPT ![t] = ghost.changes + 1]
    /\ ghost' = Counted(ghost)
    /\ UNCHANGED saved

\* execute names no table to the registry; DDL makes or drops tables
Execute(c, t, structural) ==
    /\ BeginTool(c, [op |-> "execute", structural |-> structural])
    /\ structural \/ data[t] # 0
    /\ data' = [data EXCEPT ![t] = IF structural /\ @ # 0 THEN 0 ELSE ghost.changes + 1]
    /\ ghost' = [Counted(ghost) EXCEPT !.silent = @ \cup {t}]
    /\ UNCHANGED saved

SaveQuery(c, q) ==
    /\ ~HasQuery(saved, q)
    /\ BeginTool(c, [op |-> "save", q |-> q])
    /\ saved' = Insert(saved, q, ghost.changes + 1)
    /\ ghost' = [Counted(ghost) EXCEPT !.confirmed[q] = ghost.changes + 1]
    /\ UNCHANGED data

\* The name is taken, the SQL writes, or a statement fails: nothing is saved
SaveRefused(c, q) ==
    /\ tool[c] = NoCall
    /\ saved' = EnsureTable(saved)
    /\ saved' # saved
    /\ UNCHANGED <<data, tool, subs, inbox, view, ghost>>

DeleteQuery(c, q) ==
    /\ HasQuery(saved, q)
    /\ BeginTool(c, [op |-> "delete", q |-> q])
    /\ saved' = Remove1(saved, q)
    /\ ghost' = [Counted(ghost) EXCEPT !.confirmed[q] = 0]
    /\ UNCHANGED data

\* Mutant: a deleted query is only dropped from the list.
DeleteSendsListOnly(o) ==
    CASE o.op = "load"    -> NotifyUpdated(UrisForTableChange(o.t)) \cup (IF o.replace THEN NotifyListChanged ELSE {})
      [] o.op = "execute" -> NotifyUpdated(UrisForWorkspaceChange) \cup (IF o.structural THEN NotifyListChanged ELSE {})
      [] o.op \in {"save", "delete"} -> NotifyListChanged

NotificationsOf(o) ==
    CASE o.op = "load"    -> NotifyUpdated(UrisForTableChange(o.t)) \cup (IF o.replace THEN NotifyListChanged ELSE {})
      [] o.op = "execute" -> NotifyUpdated(UrisForWorkspaceChange) \cup (IF o.structural THEN NotifyListChanged ELSE {})
      [] o.op = "save"    -> NotifyListChanged
      [] o.op = "delete"  -> NotifyListChanged \cup NotifyUpdated(QueryUris(o.q))

Notify(c) ==
    /\ tool[c] # NoCall
    /\ inbox' = inbox \cup NotificationsOf(tool[c])
    /\ tool' = [tool EXCEPT ![c] = NoCall]
    /\ UNCHANGED <<data, saved, subs, view, ghost>>

-----------------------------------------------------------------------------
(* The client                                                              *)

\* The body of a URI: which state of which object it shows
Body(u) ==
    CASE u[1] = "summary" -> <<data>>
      [] u[1] = "table"   -> <<data[u[2]]>>
      [] u[1] \in {"definition", "result"} -> <<Get(saved, u[2])>>

\* What a client reads before it subscribes it is not told about
Reads(u, body, told) ==
    [view EXCEPT !.seen[u] = IF told THEN body ELSE Unread, !.call = NoCall]

ReadResource(u) ==
    /\ view.call = NoCall /\ u[1] # "result"
    /\ inbox' = inbox \ {u}
    /\ view' = Reads(u, Body(u), u \in subs)
    /\ saved' = IF u[1] = "definition" THEN EnsureTable(saved) ELSE saved
    /\ ghost' = IF u[1] = "table" THEN [ghost EXCEPT !.silent = @ \ {u[2]}] ELSE ghost
    /\ UNCHANGED <<data, tool, subs>>

\* The definition is fetched under one engine call and run under another
ReadResultGet(q) ==
    /\ view.call = NoCall
    /\ saved' = EnsureTable(saved)
    /\ inbox' = inbox \ {Result(q)}
    /\ view' = IF HasQuery(saved, q)
               THEN [view EXCEPT !.seen[Result(q)] = Unread, !.call = [op |-> "result", q |-> q, sql |-> Get(saved, q),
                                               told |-> Result(q) \in subs]]
               ELSE Reads(Result(q), <<0>>, Result(q) \in subs)
    /\ UNCHANGED <<data, tool, subs, ghost>>

ReadResultRun ==
    /\ view.call.op = "result"
    /\ view' = Reads(Result(view.call.q), <<view.call.sql>>, view.call.told)
    /\ UNCHANGED <<data, saved, tool, subs, inbox, ghost>>

\* The tables and the saved queries are listed under two engine calls
ListTables ==
    /\ view.call = NoCall
    /\ inbox' = inbox \ {ListChanged}
    /\ view' = [view EXCEPT !.hasList = FALSE, !.listed = {},
                            !.call = [op |-> "list", told |-> subs # {}, tables |-> {t \in Tables : data[t] # 0}]]
    /\ UNCHANGED <<data, saved, tool, subs, ghost>>

\* A client that sees a query come or go forgets what it had read of it
ListSavedQueries ==
    /\ view.call.op = "list"
    /\ saved' = EnsureTable(saved)
    /\ view' = [seen |-> [u \in Uris |->
                    IF u[1] \in {"definition", "result"} /\ (view.seen[u] = <<0>>) = (u[2] \in ListQueries(saved))
                    THEN Unread ELSE view.seen[u]],
                listed |-> IF view.call.told THEN {TableUri(t) : t \in view.call.tables} \cup {Definition(q) : q \in ListQueries(saved)}
                          ELSE {},
                hasList |-> view.call.told, call |-> NoCall]
    /\ UNCHANGED <<data, tool, subs, inbox, ghost>>

\* The server process ends: the local database and the session's state go
Restart ==
    /\ ghost.changes < MaxChanges
    /\ data' = [t \in Tables |-> 0]
    /\ saved' = [BuildStore(saved.persistent) EXCEPT !.rows = IF saved.persistent THEN saved.rows ELSE @,
                                                   !.table = saved.persistent /\ saved.table]
    /\ tool' = [c \in Callers |-> NoCall]
    /\ subs' = {} /\ inbox' = {} /\ view' = NoView
    /\ ghost' = [Counted(ghost) EXCEPT !.silent = {}, !.confirmed = IF saved.persistent THEN @ ELSE Empty]

ResNext ==
    \/ \E u \in Uris : Subscribe(u) \/ Unsubscribe(u) \/ ReadResource(u)
    \/ \E c \in Callers : Notify(c)
    \/ \E c \in Callers, t \in Tables, b \in BOOLEAN : Load(c, t, b) \/ Execute(c, t, b)
    \/ \E c \in Callers, q \in Queries : SaveQuery(c, q) \/ SaveRefused(c, q) \/ DeleteQuery(c, q)
    \/ \E q \in Queries : ReadResultGet(q)
    \/ ReadResultRun
    \/ ListTables
    \/ ListSavedQueries
    \/ Restart

ResSpec == ResInit /\ [][ResNext]_resVars

-----------------------------------------------------------------------------
(* Properties                                                              *)

\* What some tool that has changed the data is about to send
Coming == UNION {NotificationsOf(tool[c]) : c \in {d \in Callers : tool[d] # NoCall}}
OnItsWay(u) == u \in inbox \cup Coming \/ (u[1] \in {"definition", "result"} /\ (ListChanged \in inbox \cup Coming \/ view.call.op = "list"))

\* A client that subscribed to a resource and then read it is told before or
\* after whatever changes it: when its copy is stale, a notification for
\* it is in flight or a tool is about to send one, whatever reads, lists and
\* other tools came between the change and the notice (server.rs:1163, 3460).
\* A table changed by execute is announced through the summaries alone, and a
\* new query through list_changed.
StaleReaderIsTold ==
    \A u \in subs :
        (view.seen[u] # Unread /\ view.seen[u] # Body(u) /\ ~(u[1] = "table" /\ u[2] \in ghost.silent)) => OnItsWay(u)

\* The list a subscribed client holds names the saved queries there are and no
\* table that was dropped, or a list_changed is on its way, although the
\* list is put together under two engine calls (server.rs:5145, 5193).
ListIsCurrentOrAnnounced ==
    view.hasList =>
        \/ ListChanged \in inbox \cup Coming
        \/ /\ {q \in Queries : Definition(q) \in view.listed} = ListQueries(saved)
           /\ \A t \in Tables : TableUri(t) \in view.listed => data[t] # 0

\* A query whose save was confirmed and that nobody deleted is found with the
\* SQL it was saved with: after a restart too when the server has a
\* persistent database, through the meta-table that each server makes sure of
\* once (saved_queries.rs:233).
ConfirmedQueryIsFound == \A q \in Queries : Get(saved, q) = ghost.confirmed[q]

\* What a client has seen of the resources is current, or it is being told
\* otherwise; what it saved is found again.
ClientIsCurrent == StaleReaderIsTold /\ ListIsCurrentOrAnnounced /\ ConfirmedQueryIsFound
=============================================================================
