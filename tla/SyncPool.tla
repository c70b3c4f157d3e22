------------------------------ MODULE SyncPool ------------------------------
(***************************************************************************)
(* The blocking connection pool of hyperdb-api/src/pool.rs: ConnectionPool,*)
(* SyncPoolInner and the guard SyncPooledConnection.                       *)
(*                                                                         *)
(* A step is what one thread does between two points at which another      *)
(* thread can run: one critical section of the pool mutex, one network     *)
(* call made with the mutex released, or one notification of the condition *)
(* variable `available', which the code sends after it unlocks.            *)
(* Elapsed-time tests (max_lifetime, idle_timeout, deadline) and the       *)
(* outcome of network calls (open, recycle probe, is_alive) are choices.   *)
(***************************************************************************)
EXTENDS Integers, Sequences, FiniteSets

CONSTANTS Threads,        \* threads that share the pool
          Conns,          \* identities of physical connections
          NoConn,         \* a thread has no connection
          MaxSize,        \* SyncPoolConfig::max_size
          MinIdle,        \* SyncPoolConfig::min_idle (0 when None)
          IdleTimeout,    \* is SyncPoolConfig::idle_timeout set?
          MaxLifetime,    \* is SyncPoolConfig::max_lifetime set?
          WaitTimeout,    \* is SyncPoolConfig::wait_timeout set?
          MaxGets         \* bound: calls of get() per thread

ASSUME ConstAssumption ==
    /\ IsFiniteSet(Threads)
    /\ NoConn \notin Conns
    /\ MaxSize \in Nat \ {0}
    /\ MinIdle \in Nat
    /\ MaxGets \in Nat
    /\ {IdleTimeout, MaxLifetime, WaitTimeout} \subseteq BOOLEAN

VARIABLES idle,             \* SyncPoolState::idle, last element is the hottest
          size,             \* SyncPoolState::size
          initialized,      \* SyncPoolState::initialized
          init_in_progress, \* SyncPoolState::init_in_progress
          pc,               \* where each thread is
          conn,             \* the connection each thread has in its hands
          live_size,        \* get_timeout's local copy of size
          gets              \* calls of get() each thread has made

pool == <<idle, size, initialized, init_in_progress>>
vars == <<idle, size, initialized, init_in_progress, pc, conn, live_size, gets>>

(***************************************************************************)
(* Program counters, by what the thread owns there.  A thread owns a slot  *)
(* (one unit of size) from the moment it pops or reserves it until the     *)
(* critical section that gives it back.                                    *)
(***************************************************************************)
OwnsConn == {"reuse", "check", "retire_idle", "retire", "holding", "notify_all_hold"}
Creating == {"create_first", "create"}
OwnsSlot == OwnsConn \cup Creating
Notifying == {"notify_retry", "notify_out", "notify_all_hold", "notify_all_err"}
PCs == OwnsSlot \cup Notifying \cup {"out", "decide", "wait", "parked"}

Goto(t, where) == pc' = [pc EXCEPT ![t] = where]
Parked == {t \in Threads : pc[t] = "parked"}

\* saturating_sub(1) on a usize
Minus1(n) == IF n = 0 THEN 0 ELSE n - 1

Init ==
    /\ idle = <<>>
    /\ size = 0
    /\ initialized = FALSE
    /\ init_in_progress = FALSE
    /\ pc = [t \in Threads |-> "out"]
    /\ conn = [t \in Threads |-> NoConn]
    /\ live_size = [t \in Threads |-> 0]
    /\ gets = [t \in Threads |-> 0]

-----------------------------------------------------------------------------
(* get_timeout: the decision under the lock *)

Get(t) ==
    /\ pc[t] = "out"
    /\ gets[t] < MaxGets
    /\ gets' = [gets EXCEPT ![t] = @ + 1]
    /\ Goto(t, "decide")
    /\ UNCHANGED <<pool, conn, live_size>>

\* Mutant: the connection stays in the queue (back() for pop_back())
PopIdlePeeks(t) ==
    /\ pc[t] = "decide"
    /\ idle # <<>>
    /\ conn' = [conn EXCEPT ![t] = idle[Len(idle)]]
    /\ Goto(t, "reuse")
    /\ UNCHANGED <<pool, live_size, gets>>

\* Action::Reuse: take the hottest idle connection
PopIdle(t) ==
    /\ pc[t] = "decide"
    /\ idle # <<>>
    /\ conn' = [conn EXCEPT ![t] = idle[Len(idle)]]
    /\ idle' = SubSeq(idle, 1, Len(idle) - 1)
    /\ Goto(t, "reuse")
    /\ UNCHANGED <<size, initialized, init_in_progress, live_size, gets>>

\* Mutant: does not look whether another thread runs the handshake
ReserveFirstUnserialized(t) ==
    /\ pc[t] = "decide"
    /\ idle = <<>>
    /\ ~initialized
    /\ init_in_progress' = TRUE
    /\ size' = size + 1
    /\ Goto(t, "create_first")
    /\ UNCHANGED <<idle, initialized, conn, live_size, gets>>

\* Action::Create { first: true }: this thread runs the create-mode handshake
ReserveFirst(t) ==
    /\ pc[t] = "decide"
    /\ idle = <<>>
    /\ ~initialized
    /\ ~init_in_progress
    /\ init_in_progress' = TRUE
    /\ size' = size + 1
    /\ Goto(t, "create_first")
    /\ UNCHANGED <<idle, initialized, conn, live_size, gets>>

\* Mutant: `<=' for `<' in the comparison with max_size
ReserveOffByOne(t) ==
    /\ pc[t] = "decide"
    /\ idle = <<>>
    /\ initialized
    /\ size <= MaxSize
    /\ size' = size + 1
    /\ Goto(t, "create")
    /\ UNCHANGED <<idle, initialized, init_in_progress, conn, live_size, gets>>

\* Action::Create { first: false }
Reserve(t) ==
    /\ pc[t] = "decide"
    /\ idle = <<>>
    /\ initialized
    /\ size < MaxSize
    /\ size' = size + 1
    /\ Goto(t, "create")
    /\ UNCHANGED <<idle, initialized, init_in_progress, conn, live_size, gets>>

\* Action::Wait, chosen under the lock; the lock is released before the wait
ChooseWait(t) ==
    /\ pc[t] = "decide"
    /\ idle = <<>>
    /\ IF initialized THEN size >= MaxSize ELSE init_in_progress
    /\ Goto(t, "wait")
    /\ UNCHANGED <<pool, conn, live_size, gets>>

-----------------------------------------------------------------------------
(* Action::Reuse *)

\* The second critical section, which only reads size
ReadLiveSize(t) ==
    /\ pc[t] = "reuse"
    /\ live_size' = [live_size EXCEPT ![t] = size]
    /\ Goto(t, "check")
    /\ UNCHANGED <<pool, conn, gets>>

\* The idle_timeout clause of should_evict
IdleEvictable(live) == IdleTimeout /\ live > MinIdle

\* should_evict, then the recycle probe: evicted for its age, evicted for being
\* idle, dropped because is_alive or the probe failed, or handed to the caller
CheckConn(t) ==
    /\ pc[t] = "check"
    /\ \/ MaxLifetime /\ Goto(t, "retire")
       \/ IdleEvictable(live_size[t]) /\ Goto(t, "retire_idle")
       \/ Goto(t, "retire")
       \/ Goto(t, "holding")
    /\ UNCHANGED <<pool, conn, live_size, gets>>

\* discard() on behalf of get_timeout.  The connection itself is dropped only
\* when the loop continues, after the notification.
Retire(t) ==
    /\ pc[t] \in {"retire", "retire_idle"}
    /\ size' = Minus1(size)
    /\ Goto(t, "notify_retry")
    /\ UNCHANGED <<idle, initialized, init_in_progress, conn, live_size, gets>>

-----------------------------------------------------------------------------
(* Action::Create *)

\* Connections that are open: in the idle queue or in a thread's hands
Open == {idle[i] : i \in DOMAIN idle} \cup {conn[t] : t \in Threads}

\* open(first) succeeded; the first one publishes `initialized'
OpenOk(t) ==
    /\ pc[t] \in Creating
    /\ \E c \in Conns \ Open : conn' = [conn EXCEPT ![t] = c]
    /\ IF pc[t] = "create_first"
         THEN /\ initialized' = TRUE
              /\ init_in_progress' = FALSE
              /\ Goto(t, "notify_all_hold")
         ELSE /\ Goto(t, "holding")
              /\ UNCHANGED <<initialized, init_in_progress>>
    /\ UNCHANGED <<idle, size, live_size, gets>>

\* Mutant: the failed open keeps its slot
OpenFailLeaksSlot(t) ==
    /\ pc[t] \in Creating
    /\ init_in_progress' = (init_in_progress /\ pc[t] # "create_first")
    /\ Goto(t, "notify_all_err")
    /\ UNCHANGED <<idle, size, initialized, conn, live_size, gets>>

\* open(first) failed: the slot is given back, and the handshake is free again
OpenFail(t) ==
    /\ pc[t] \in Creating
    /\ size' = Minus1(size)
    /\ init_in_progress' = (init_in_progress /\ pc[t] # "create_first")
    /\ Goto(t, "notify_all_err")
    /\ UNCHANGED <<idle, initialized, conn, live_size, gets>>

-----------------------------------------------------------------------------
(* Action::Wait *)

\* A thread that decides now would not have to wait
Available ==
    \/ idle # <<>>
    \/ initialized /\ size < MaxSize
    \/ ~initialized /\ ~init_in_progress

\* Mutant: parks on the decision made before the lock was released
RecheckSkipped(t) ==
    /\ pc[t] = "wait"
    /\ \/ Goto(t, "parked")
       \/ WaitTimeout /\ Goto(t, "out")
    /\ UNCHANGED <<pool, conn, live_size, gets>>

\* The re-check before parking: go round again, park, or the deadline has passed
Recheck(t) ==
    /\ pc[t] = "wait"
    /\ IF Available
         THEN Goto(t, "decide")
         ELSE \/ Goto(t, "parked")
              \/ WaitTimeout /\ Goto(t, "out")
    /\ UNCHANGED <<pool, conn, live_size, gets>>

\* Condvar::wait_timeout reports that it timed out: get_timeout returns an error
WaitTimedOut(t) ==
    /\ pc[t] = "parked"
    /\ WaitTimeout
    /\ Goto(t, "out")
    /\ UNCHANGED <<pool, conn, live_size, gets>>

\* A condition variable may wake a thread that nobody notified
SpuriousWakeup(t) ==
    /\ pc[t] = "parked"
    /\ Goto(t, "decide")
    /\ UNCHANGED <<pool, conn, live_size, gets>>

-----------------------------------------------------------------------------
(* Giving a connection back *)

\* Mutant: the guard is emptied before its connection is queued
CheckinAfterTake(t) ==
    /\ pc[t] = "holding"
    /\ conn' = [conn EXCEPT ![t] = NoConn]
    /\ idle' = Append(idle, conn'[t])
    /\ Goto(t, "notify_out")
    /\ UNCHANGED <<size, initialized, init_in_progress, live_size, gets>>

\* Mutant: returns without notifying
CheckinSilent(t) ==
    /\ pc[t] = "holding"
    /\ idle' = Append(idle, conn[t])
    /\ conn' = [conn EXCEPT ![t] = NoConn]
    /\ Goto(t, "out")
    /\ UNCHANGED <<size, initialized, init_in_progress, live_size, gets>>

\* Drop of the guard with is_alive(): checkin()
Checkin(t) ==
    /\ pc[t] = "holding"
    /\ idle' = Append(idle, conn[t])
    /\ conn' = [conn EXCEPT ![t] = NoConn]
    /\ Goto(t, "notify_out")
    /\ UNCHANGED <<size, initialized, init_in_progress, live_size, gets>>

\* Drop of the guard of a dead connection, or take(): discard()
Discard(t) ==
    /\ pc[t] = "holding"
    /\ size' = Minus1(size)
    /\ conn' = [conn EXCEPT ![t] = NoConn]
    /\ Goto(t, "notify_out")
    /\ UNCHANGED <<idle, initialized, init_in_progress, live_size, gets>>

-----------------------------------------------------------------------------
(* Notifications, sent with the mutex released *)

\* Where a thread goes on once its notification is sent
After(where) ==
    CASE where = "notify_retry"    -> "decide"
      [] where = "notify_all_hold" -> "holding"
      [] OTHER                     -> "out"

\* available.notify_one(): wakes one parked thread, if there is one
NotifyOne(t) ==
    /\ pc[t] \in {"notify_retry", "notify_out"}
    /\ \/ \E w \in Parked : pc' = [pc EXCEPT ![t] = After(pc[t]), ![w] = "decide"]
       \/ Parked = {} /\ Goto(t, After(pc[t]))
    /\ conn' = [conn EXCEPT ![t] = NoConn]
    /\ UNCHANGED <<pool, live_size, gets>>

\* available.notify_all(): wakes every parked thread
NotifyAll(t) ==
    /\ pc[t] \in {"notify_all_hold", "notify_all_err"}
    /\ pc' = [u \in Threads |-> IF u = t THEN After(pc[t])
                                ELSE IF u \in Parked THEN "decide" ELSE pc[u]]
    /\ UNCHANGED <<pool, conn, live_size, gets>>

-----------------------------------------------------------------------------
\* Every thread has made its calls and given its connections back
Finished ==
    /\ \A t \in Threads : pc[t] = "out" /\ gets[t] = MaxGets
    /\ UNCHANGED vars

\* What a thread does by itself once it has called get()
Proceed(t) ==
    \/ PopIdle(t) \/ ReserveFirst(t) \/ Reserve(t) \/ ChooseWait(t)
    \/ ReadLiveSize(t) \/ CheckConn(t) \/ Retire(t)
    \/ OpenOk(t) \/ OpenFail(t)
    \/ Recheck(t)
    \/ NotifyOne(t) \/ NotifyAll(t)

\* What the holder of a connection does with it
Release(t) == Checkin(t) \/ Discard(t)

Next ==
    \/ \E t \in Threads : \/ Get(t) \/ Proceed(t) \/ Release(t)
                          \/ WaitTimedOut(t) \/ SpuriousWakeup(t)
    \/ Finished

Spec == Init /\ [][Next]_vars

(***************************************************************************)
(* A runnable thread is scheduled, and a borrowed connection is given back.*)
(* Nothing makes a thread call get() again, time out or wake spuriously.   *)
(***************************************************************************)
Fairness == \A t \in Threads : WF_vars(Proceed(t)) /\ WF_vars(Release(t))

FairSpec == Spec /\ Fairness

-----------------------------------------------------------------------------
(* Properties *)

TypeOK ==
    /\ idle \in Seq(Conns)
    /\ size \in Nat
    /\ initialized \in BOOLEAN
    /\ init_in_progress \in BOOLEAN
    /\ pc \in [Threads -> PCs]
    /\ conn \in [Threads -> Conns \cup {NoConn}]
    /\ live_size \in [Threads -> Nat]
    /\ gets \in [Threads -> Nat]

Owners == {t \in Threads : pc[t] \in OwnsSlot}

(***************************************************************************)
(* size counts exactly the idle connections and the slots threads own      *)
(* ("idle + checked out", SyncPoolState::size): no path of get_timeout,    *)
(* checkin, discard or a failed open leaks or double-frees a slot, although*)
(* each updates size in a critical section of its own.                     *)
(***************************************************************************)
Accounting == size = Len(idle) + Cardinality(Owners)

(***************************************************************************)
(* The pool never goes beyond max_size, also across the window in which    *)
(* the first connection is reserved without looking at max_size.           *)
(***************************************************************************)
WithinMaxSize == size <= MaxSize

(***************************************************************************)
(* The create-mode handshake is serialized: a thread runs it exactly while *)
(* init_in_progress is set, only one does, nothing is pooled before it     *)
(* succeeds, and no other thread opens a connection with DoNotCreate until *)
(* then.                                                                   *)
(***************************************************************************)
HandshakeSerialized ==
    /\ \A t, u \in Threads :
          pc[t] = "create_first" /\ pc[u] = "create_first" => t = u
    /\ init_in_progress <=> \E t \in Threads : pc[t] = "create_first"
    /\ ~initialized =>
          /\ idle = <<>>
          /\ \A t \in Threads : pc[t] \in OwnsSlot => pc[t] = "create_first"
    /\ initialized => ~init_in_progress

(***************************************************************************)
(* No lost wakeup: when a connection or a slot is available and a thread is*)
(* parked in Condvar::wait, another thread is still on its way to decide,  *)
(* or to notify.  The state changes are published before the notification, *)
(* so the re-check in Action::Wait is what this rests on.                  *)
(***************************************************************************)
NoLostWakeup ==
    Available /\ Parked # {} =>
        \E t \in Threads : pc[t] \in {"decide", "wait"} \cup Notifying

\* A connection counts as lent while a thread owns the slot it occupies
Contract == INSTANCE PoolContract WITH
    pooled <- {idle[i] : i \in DOMAIN idle},
    lent   <- [t \in Threads |-> IF pc[t] \in OwnsConn THEN conn[t] ELSE NoConn]

(***************************************************************************)
(* get(), Drop and take() implement the contract: opening, lending, taking *)
(* back and retiring connections one at a time, within max_size, although  *)
(* every operation of the code takes several critical sections.            *)
(***************************************************************************)
ImplementsContract == Contract!Spec

(***************************************************************************)
(* No connection is in two threads' hands, or both idle and in use.        *)
(***************************************************************************)
ExclusiveUse == Contract!Exclusive

(***************************************************************************)
(* Every call of get() returns: with a connection or with an error, as long*)
(* as borrowed connections are given back and callers do not call forever. *)
(***************************************************************************)
EveryGetReturns ==
    \A t \in Threads : pc[t] = "decide" ~> pc[t] \in {"holding", "out"}

(***************************************************************************)
(* What the comment on should_evict says: idle_timeout "is honored only    *)
(* while doing so keeps the live count at or above `min_idle'".            *)
(***************************************************************************)
IdleEvictionKeepsFloor ==
    [][\A t \in Threads :
          pc[t] = "retire_idle" /\ pc'[t] = "notify_retry" => size' >= MinIdle]_vars
=============================================================================
