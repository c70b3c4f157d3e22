------------------------------ MODULE KvStore ------------------------------
(***************************************************************************)
(* The key-value store of hyperdb-api (kv_store.rs, async_kv_store.rs) on  *)
(* one connection, and the kv_* tools of the MCP server that call it:      *)
(* named stores in one table that has no unique key, each call a sequence  *)
(* of SQL statements.  A statement can fail, and the session can be lost   *)
(* at every statement.                                                     *)
(*                                                                         *)
(* The connection has one caller at a time.  A caller of the async store   *)
(* that drops a call between its BEGIN and its COMMIT is taken to close    *)
(* the connection (a lost session).                                        *)
(***************************************************************************)
EXTENDS Integers, Sequences, FiniteSets, FiniteSetsExt, SequencesExt

CONSTANTS Stores, Keys, Values, Batches

VARIABLES
    kvDisk,     \* the committed table: the values of the rows of a store and a key
    kvTx,       \* the open transaction: no element, or the table as it sees it
    kvCall,     \* the call that runs: what it has left to do and has counted
    kvReply,    \* what the last call returned
    kvReadOnly  \* HyperMcpServer.read_only; a caller of the library has FALSE

kvVars == <<kvDisk, kvTx, kvCall, kvReply, kvReadOnly>>

NoValue == 0
Idle == [op |-> "idle"]

KvInit ==
    /\ kvDisk = [st \in Stores |-> [k \in Keys |-> <<>>]]
    /\ kvTx = <<>>
    /\ kvCall = Idle
    /\ kvReply = <<"none">>
    /\ kvReadOnly \in BOOLEAN

Rows == IF kvTx = <<>> THEN kvDisk ELSE kvTx[1]
Free == kvCall = Idle /\ kvReply # <<"lost">>
Running(op) == kvCall.op = op

\* A statement changes the transaction's rows, or commits by itself outside one
Write(r) == IF kvTx = <<>> THEN kvDisk' = r /\ UNCHANGED kvTx ELSE kvTx' = <<r>> /\ UNCHANGED kvDisk
Returns(a) == kvReply' = a /\ kvCall' = Idle
Calls(c) == kvCall' = c /\ kvReply' = <<"none">> /\ UNCHANGED <<kvDisk, kvTx>>

-----------------------------------------------------------------------------
(* Statements: what each does to the rows, and the count it reports        *)

Updated(r, st, k, v) == [r EXCEPT ![st][k] = [i \in DOMAIN @ |-> v]]
NotExists(r, st, k) == r[st][k] = <<>>

\* Mutant: the guarded INSERT without its NOT EXISTS.
InsertsAlways(r, st, k, v) == [r EXCEPT ![st][k] = Append(@, v)]

InsertedIfAbsent(r, st, k, v) == IF NotExists(r, st, k) THEN [r EXCEPT ![st][k] = <<v>>] ELSE r
Deleted(r, st, k) == [r EXCEPT ![st][k] = <<>>]
KeysOf(r, st) == {k \in Keys : ~NotExists(r, st, k)}
Count(r, st) == MapThenSumSet(LAMBDA k : Len(r[st][k]), Keys)
Cleared(r, st) == [r EXCEPT ![st] = [k \in Keys |-> <<>>]]
ValueOf(r, st, k) == IF NotExists(r, st, k) THEN NoValue ELSE r[st][k][1]
EntriesOf(r, st) == UNION {{<<k, v>> : v \in ToSet(r[st][k])} : k \in Keys}
BytesOf(r, st) == MapThenSumSet(LAMBDA k : FoldSeq(+, 0, r[st][k]), Keys)
OrderedKeys(r, st) ==
    LET ks == SetToSortSeq(KeysOf(r, st), <) IN
    FlattenSeq([i \in DOMAIN ks |-> [j \in DOMAIN r[st][ks[i]] |-> ks[i]]])
StoresOf(r) == {st \in Stores : KeysOf(r, st) # {}}

\* validate_kv_name
ValidName(k) == k \in Keys

-----------------------------------------------------------------------------
(* Calls of one statement                                                  *)

Get(st, k) == Free /\ ValidName(k) /\ Returns(<<"get", ValueOf(Rows, st, k)>>)
\* get_as: a stored text that is not the value's JSON is an error
GetAs(st, k) == Free /\ ValidName(k) /\ ~NotExists(Rows, st, k) /\ Returns(<<"error">>)
Exists(st, k) == Free /\ ValidName(k) /\ Returns(<<"exists", ~NotExists(Rows, st, k)>>)
Size(st) == Free /\ Returns(<<"size", Count(Rows, st)>>)
ByteSize(st) == Free /\ Returns(<<"byte_size", BytesOf(Rows, st)>>)
KeysInOrder(st) == Free /\ Returns(<<"keys", OrderedKeys(Rows, st)>>)
Entries(st) == Free /\ Returns(<<"entries", EntriesOf(Rows, st)>>)
ListStores == Free /\ Returns(<<"stores", StoresOf(Rows)>>)

Delete(st, k) ==
    /\ Free /\ ValidName(k)
    /\ Write(Deleted(Rows, st, k)) /\ Returns(<<"delete", Len(Rows[st][k]) > 0>>)

Clear(st) ==
    /\ Free
    /\ Write(Cleared(Rows, st)) /\ Returns(<<"clear", Count(Rows, st)>>)

SetIfAbsent(st, k, v) ==
    /\ Free /\ ValidName(k)
    /\ Write(InsertedIfAbsent(Rows, st, k, v))
    /\ Returns(<<"set_if_absent", InsertedIfAbsent(Rows, st, k, v) # Rows>>)

\* A name that is not valid, a value set_as cannot serialize, an open or a
\* statement that fails
CallRefused == Free /\ Returns(<<"error">>) /\ UNCHANGED <<kvDisk, kvTx>>

-----------------------------------------------------------------------------
(* set and set_as: UPDATE, and the guarded INSERT when it changed no row   *)

SetUpdates(st, k, v) ==
    /\ Free /\ ValidName(k)
    /\ IF NotExists(Rows, st, k) THEN Calls([op |-> "set", st |-> st, k |-> k, v |-> v])
       ELSE Write(Updated(Rows, st, k, v)) /\ Returns(<<"set", FALSE>>)

SetInserts ==
    /\ Running("set")
    /\ Write(InsertedIfAbsent(Rows, kvCall.st, kvCall.k, kvCall.v))
    /\ Returns(<<"set", TRUE>>)

-----------------------------------------------------------------------------
(* Calls in a transaction: pop, set_batch, set_batch_if_absent             *)

\* Every key of a batch is validated before BEGIN
BatchCall(op, st, b) ==
    /\ Free /\ \A i \in DOMAIN b : ValidName(b[i][1])
    /\ kvTx' = <<kvDisk>>
    /\ kvCall' = [op |-> op, st |-> st, left |-> b, new |-> 0, old |-> 0] /\ kvReply' = <<"none">>
    /\ UNCHANGED kvDisk

PopCall(st) ==
    /\ Free
    /\ kvTx' = <<kvDisk>>
    /\ kvCall' = [op |-> "pop", st |-> st] /\ kvReply' = <<"none">>
    /\ UNCHANGED kvDisk

\* One entry of a batch; whether it was new is what UPDATE or INSERT reports
BatchEntry(op, after) ==
    /\ Running(op) /\ kvCall.left # <<>>
    /\ LET k == Head(kvCall.left)[1]
           isNew == NotExists(Rows, kvCall.st, k)
       IN  /\ kvTx' = <<after>>
           /\ kvCall' = [kvCall EXCEPT !.left = Tail(@), !.new = IF isNew THEN @ + 1 ELSE @,
                                       !.old = IF isNew THEN @ ELSE @ + 1]
    /\ UNCHANGED <<kvDisk, kvReply>>

SetBatchEntry ==
    LET e == Head(kvCall.left) IN
    BatchEntry("set_batch", InsertedIfAbsent(Updated(Rows, kvCall.st, e[1], e[2]), kvCall.st, e[1], e[2]))

SetBatchIfAbsentEntry ==
    LET e == Head(kvCall.left) IN
    BatchEntry("set_batch_if_absent", InsertedIfAbsent(Rows, kvCall.st, e[1], e[2]))

\* pop_inner: the lowest row, then the DELETE of its key
PopInner ==
    /\ Running("pop")
    /\ LET here == KeysOf(Rows, kvCall.st) IN
       IF here = {}
       THEN kvCall' = [op |-> "popped", st |-> kvCall.st, got |-> <<"pop">>] /\ UNCHANGED <<kvDisk, kvTx>>
       ELSE LET k == Min(here) IN
            /\ kvCall' = [op |-> "popped", st |-> kvCall.st, got |-> <<"pop", k, Rows[kvCall.st][k][1]>>]
            /\ Write(Deleted(Rows, kvCall.st, k))
    /\ UNCHANGED kvReply

InBatch == kvCall.op \in {"set_batch", "set_batch_if_absent"}
Done == Running("popped") \/ (InBatch /\ kvCall.left = <<>>)

Commit ==
    /\ Done
    /\ kvDisk' = Rows /\ kvTx' = <<>>
    /\ Returns(IF Running("popped") THEN kvCall.got ELSE <<"batch", kvCall.new, kvCall.old>>)

\* COMMIT gets no answer: the caller has an error and a session that is gone
CommitLost ==
    /\ Done
    /\ kvDisk' \in {kvDisk, Rows} /\ kvTx' = <<>>
    /\ Returns(<<"lost">>)

\* Mutant: a statement that fails in the transaction still commits the ones before it.
CommitsOnError ==
    /\ ~Free /\ kvReply # <<"lost">> /\ kvTx # <<>> /\ ~Done
    /\ kvDisk' = Rows /\ kvTx' = <<>>
    /\ Returns(<<"error">>)

\* A statement of the transaction fails: a best-effort ROLLBACK, and the error
RollbackOnError ==
    /\ ~Free /\ kvReply # <<"lost">> /\ kvTx # <<>> /\ ~Done
    /\ kvTx' = <<>> /\ Returns(<<"error">>)
    /\ UNCHANGED kvDisk

\* The INSERT of a set fails
SetFails == Running("set") /\ Returns(<<"error">>) /\ UNCHANGED <<kvDisk, kvTx>>

\* The session is lost; hyperd drops the transaction it had
SessionLost ==
    /\ kvReply # <<"lost">>
    /\ kvTx' = <<>> /\ Returns(<<"lost">>)
    /\ UNCHANGED kvDisk

\* Connection::kv_store on a new connection: CREATE TABLE IF NOT EXISTS keeps the rows
OpenStore ==
    /\ kvReply = <<"lost">>
    /\ kvReply' = <<"none">> /\ UNCHANGED <<kvDisk, kvTx, kvCall>>

-----------------------------------------------------------------------------

(* The tools of the MCP server; the library's callers are the same with    *)
(* kvReadOnly FALSE                                                        *)

CheckWritable == ~kvReadOnly

KvGetTool(st, k) == Get(st, k) /\ UNCHANGED <<kvDisk, kvTx>>
KvListTool(st) == (KeysInOrder(st) \/ Entries(st)) /\ UNCHANGED <<kvDisk, kvTx>>
KvListStoresTool == ListStores /\ UNCHANGED <<kvDisk, kvTx>>
KvSizeTool(st) == (Size(st) \/ ByteSize(st)) /\ UNCHANGED <<kvDisk, kvTx>>
KvSetTool(st, k, v) == CheckWritable /\ (SetUpdates(st, k, v) \/ SetIfAbsent(st, k, v))
KvSetManyTool(st, b) ==
    CheckWritable /\ \E op \in {"set_batch", "set_batch_if_absent"} : BatchCall(op, st, b)
KvDeleteTool(st, k) == CheckWritable /\ Delete(st, k)
KvPopTool(st) == CheckWritable /\ PopCall(st)
KvClearTool(st) == CheckWritable /\ Clear(st)

LibraryRead(st, k) == (GetAs(st, k) \/ Exists(st, k)) /\ UNCHANGED <<kvDisk, kvTx>>

KvNext ==
    /\ \/ CallRefused \/ KvListStoresTool
       \/ \E st \in Stores :
             \/ KvListTool(st) \/ KvSizeTool(st) \/ KvClearTool(st) \/ KvPopTool(st)
             \/ \E k \in Keys : \/ KvGetTool(st, k) \/ KvDeleteTool(st, k) \/ LibraryRead(st, k)
                                \/ \E v \in Values : KvSetTool(st, k, v)
             \/ \E b \in Batches : KvSetManyTool(st, b)
       \/ SetInserts \/ SetBatchEntry \/ SetBatchIfAbsentEntry \/ PopInner
       \/ Commit \/ CommitLost \/ RollbackOnError \/ SetFails \/ SessionLost \/ OpenStore
    /\ UNCHANGED kvReadOnly

KvSpec == KvInit /\ [][KvNext]_kvVars

-----------------------------------------------------------------------------
(* Properties                                                              *)

Map == INSTANCE KvMap WITH
    map <- [st \in Stores |-> [k \in Keys |-> IF kvDisk[st][k] = <<>> THEN NoValue ELSE kvDisk[st][k][1]]],
    reply <- kvReply

(* kv_store.rs:60-69: the table has no unique key, so that one row per store and
   key is only what the upsert, the guarded INSERT and the transactions keep;
   duplicates would make size, keys, byte_size and the counts wrong.         *)
OneRowPerKey == \A st \in Stores, k \in Keys : Len(kvDisk[st][k]) <= 1

(* kv_store.rs:218-585: each call, several statements long or not, is one step of
   the map: its answer is about the map it found, a batch or a pop applies
   whole or not at all, and an error has changed nothing.                    *)
KvIsAtomic == []OneRowPerKey /\ Map!MapSpec
=============================================================================
