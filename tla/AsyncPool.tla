----------------------------- MODULE AsyncPool -----------------------------
(***************************************************************************)
(* The async connection pool of hyperdb-api (pool.rs, first half):         *)
(* ConnectionManager::create and recycle over deadpool, which is external  *)
(* (a semaphore of max_size slots and a queue of idle connections; a get   *)
(* whose future is dropped gives up its connection and its slot).          *)
(*                                                                         *)
(* The database is one file with the rows committed to it.  A task can be  *)
(* dropped, or run into create_timeout or recycle_timeout, at each await.  *)
(***************************************************************************)
EXTENDS Integers, Sequences, FiniteSets, SequencesExt

CONSTANTS
    Tasks,           \* tasks that share the pool
    PoolSize,        \* PoolConfig.max_size
    MaxOpens         \* bound: connections opened

\* 0 stands for a lock that nobody holds
ASSUME TasksAssumption == 0 \notin Tasks

VARIABLES
    apool,           \* ConnectionManager and the pool: settings, flag, lock, idle connections
    task,            \* each task: where it is and the connection it has
    adb              \* the database, and what the tasks did to it

asyncPoolVars == <<apool, task, adb>>

NoConn == [inTx |-> "no", alive |-> FALSE]

AsyncPoolInit ==
    /\ apool \in [mode : {"Create", "CreateIfNotExists", "CreateAndReplace"},
                  strategy : {"SelectOne", "Ping", "None"},
                  initialized : {FALSE}, lock : {0}, idle : {<<>>}, opens : {0},
                  closed : {FALSE}]
    /\ task = [t \in Tasks |-> [pc |-> "out", conn |-> NoConn]]
    /\ adb \in [exists : BOOLEAN, rows : {0}, committed : {0}, told : {0}]

IsIn(t, pc) == task[t].pc = pc
Step(t, pc) == task' = [task EXCEPT ![t].pc = pc]
StepWith(t, pc, c) == task' = [task EXCEPT ![t] = [pc |-> pc, conn |-> c]]
HasSlot(t) == ~IsIn(t, "out")
Out == {t \in Tasks : HasSlot(t)}

\* The end of a get that failed or was dropped: its connection is closed, the guard
\* of init_lock is released
GiveUp(t) ==
    /\ StepWith(t, "out", NoConn)
    /\ apool' = [apool EXCEPT !.lock = IF @ = t THEN 0 ELSE @]

-----------------------------------------------------------------------------
(* get: an idle connection to recycle, or a new one                        *)

TakeIdleOrCreate(t) ==
    IF apool.idle = <<>> THEN Step(t, "create") /\ UNCHANGED apool
    ELSE /\ StepWith(t, "recycle", Head(apool.idle))
         /\ apool' = [apool EXCEPT !.idle = Tail(@)]

PoolGet(t) ==
    /\ IsIn(t, "out") /\ ~apool.closed
    /\ Cardinality(Out) < PoolSize
    /\ TakeIdleOrCreate(t)
    /\ UNCHANGED adb

\* create: the flag is read under the lock, which is let go again
ReadInitialized(t) ==
    /\ IsIn(t, "create") /\ apool.lock = 0
    /\ Step(t, IF apool.initialized THEN "open" ELSE "slow")
    /\ UNCHANGED <<apool, adb>>

\* Mutant: the slow path does not look at the flag again.
SlowPathTrusts(t) ==
    /\ IsIn(t, "slow") /\ apool.lock = 0
    /\ Step(t, "first") /\ apool' = [apool EXCEPT !.lock = t]
    /\ UNCHANGED adb

\* The slow path: lock again and look again
LockAndRecheck(t) ==
    /\ IsIn(t, "slow") /\ apool.lock = 0
    /\ IF apool.initialized THEN Step(t, "open") /\ UNCHANGED apool
       ELSE Step(t, "first") /\ apool' = [apool EXCEPT !.lock = t]
    /\ UNCHANGED adb

NewConn == [inTx |-> "no", alive |-> TRUE]
Created == CASE apool.mode = "CreateAndReplace" -> [adb EXCEPT !.exists = TRUE, !.rows = 0]
             [] OTHER                           -> [adb EXCEPT !.exists = TRUE]
MayCreate == apool.mode = "Create" => ~adb.exists

\* open(create_mode) under the lock.  The database is created before the connection
\* is attached to it, so that it can stay although the open fails or is dropped
OpenFirstConn(t) ==
    /\ IsIn(t, "first") /\ apool.opens < MaxOpens /\ MayCreate
    /\ adb' = Created
    /\ StepWith(t, "hook", NewConn)
    /\ apool' = [apool EXCEPT !.lock = 0, !.initialized = TRUE, !.opens = @ + 1]

OpenFirstFails(t) ==
    /\ IsIn(t, "first") /\ apool.opens < MaxOpens
    /\ \/ UNCHANGED adb
       \/ MayCreate /\ adb' = Created
    /\ StepWith(t, "out", NoConn)
    /\ apool' = [apool EXCEPT !.lock = 0, !.opens = @ + 1]

\* open(DoNotCreate)
OpenNext(t) ==
    /\ IsIn(t, "open") /\ apool.opens < MaxOpens /\ adb.exists
    /\ StepWith(t, "hook", NewConn)
    /\ apool' = [apool EXCEPT !.opens = @ + 1]
    /\ UNCHANGED adb

\* after_connect has run
AfterConnect(t) == IsIn(t, "hook") /\ Step(t, "using") /\ UNCHANGED <<apool, adb>>

\* An open or a hook fails, a timeout passes, or the caller drops the get
GetEnds(t) ==
    /\ task[t].pc \in {"create", "slow", "first", "open", "hook", "recycle"}
    /\ GiveUp(t) /\ UNCHANGED adb

-----------------------------------------------------------------------------
(* recycle                                                                 *)

\* Mutant: the default probe only asks whether the connection is alive.
ProbeReads(c) == c

\* SelectOne is a ROLLBACK; Ping reads; None does nothing
Probe(c) == IF apool.strategy = "SelectOne" THEN [c EXCEPT !.inTx = "no"] ELSE c

Recycle(t) ==
    /\ IsIn(t, "recycle")
    /\ apool.strategy # "None" => task[t].conn.alive
    /\ StepWith(t, "using", Probe(task[t].conn))
    /\ UNCHANGED <<apool, adb>>

\* Too old, idle too long, or the probe or the hook failed: the next one is tried
RecycleFails(t) ==
    /\ IsIn(t, "recycle")
    /\ IF apool.idle = <<>> THEN StepWith(t, "create", NoConn) /\ UNCHANGED apool
       ELSE StepWith(t, "recycle", Head(apool.idle)) /\ apool' = [apool EXCEPT !.idle = Tail(@)]
    /\ UNCHANGED adb

-----------------------------------------------------------------------------
(* The task that has a connection                                          *)

\* A statement is committed at once, unless the connection is in the transaction of
\* an earlier user; the one that runs it is told the same
Insert(t) ==
    /\ IsIn(t, "using") /\ task[t].conn.alive /\ task[t].conn.inTx # "own" /\ adb.told < 1
    /\ LET n == IF task[t].conn.inTx = "no" THEN 1 ELSE 0
       IN adb' = [adb EXCEPT !.rows = @ + n, !.committed = @ + n, !.told = @ + 1]
    /\ UNCHANGED <<apool, task>>

\* A transaction guard that is dropped, by a panic or a cancelled task, only warns
AbandonTransaction(t) ==
    /\ IsIn(t, "using") /\ task[t].conn.alive
    /\ task' = [task EXCEPT ![t].conn.inTx = "own"]
    /\ UNCHANGED <<apool, adb>>

ConnDies(t) ==
    /\ IsIn(t, "using") /\ task[t].conn.alive
    /\ task' = [task EXCEPT ![t].conn.alive = FALSE]
    /\ UNCHANGED <<apool, adb>>

Returned(c) == [c EXCEPT !.inTx = IF @ = "own" THEN "inherited" ELSE @]

\* Drop of PooledConnection; a closed pool does not keep it
Return(t) ==
    /\ IsIn(t, "using")
    /\ StepWith(t, "out", NoConn)
    /\ apool' = [apool EXCEPT !.idle = IF apool.closed THEN @ ELSE Append(@, Returned(task[t].conn))]
    /\ UNCHANGED adb

\* take: the connection leaves the pool
TakeOut(t) ==
    /\ IsIn(t, "using")
    /\ StepWith(t, "out", NoConn)
    /\ UNCHANGED <<apool, adb>>

ClosePool ==
    /\ ~apool.closed
    /\ apool' = [apool EXCEPT !.closed = TRUE, !.idle = <<>>]
    /\ UNCHANGED <<task, adb>>

AsyncPoolNext ==
    \/ \E t \in Tasks : \/ PoolGet(t) \/ ReadInitialized(t) \/ LockAndRecheck(t) \/ OpenFirstConn(t)
                        \/ OpenFirstFails(t) \/ OpenNext(t) \/ AfterConnect(t) \/ GetEnds(t)
                        \/ Recycle(t) \/ RecycleFails(t) \/ Insert(t) \/ AbandonTransaction(t)
                        \/ ConnDies(t) \/ Return(t) \/ TakeOut(t)
    \/ ClosePool

AsyncPoolSpec == AsyncPoolInit /\ [][AsyncPoolNext]_asyncPoolVars

-----------------------------------------------------------------------------
(* Properties                                                              *)

\* What a task committed through the pool stays: no later first open, raced or
\* retried, replaces the database under the connections that others already use.
PoolKeepsCommitted == adb.committed = adb.rows

\* With the default probe, what a user inserts outside a transaction of its own is
\* durable: it never runs inside the transaction that an earlier user abandoned.
PooledInsertIsDurable == apool.strategy = "SelectOne" => adb.told = adb.committed

\* What a task committed through the pool stays committed, whichever tasks open,
\* abandon or recycle connections beside it.
PooledWorkIsKept == PoolKeepsCommitted /\ PooledInsertIsDurable
=============================================================================
