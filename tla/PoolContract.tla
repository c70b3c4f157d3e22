---------------------------- MODULE PoolContract ----------------------------
(***************************************************************************)
(* What the blocking pool promises its callers, without threads' program   *)
(* counters, locks or notifications: at most MaxSize connections are live, *)
(* each is either pooled or lent to exactly one thread.                    *)
(***************************************************************************)
EXTENDS Integers, FiniteSets

CONSTANTS Threads, Conns, NoConn, MaxSize

VARIABLES pooled,   \* connections ready to be lent
          lent      \* the connection each thread has, or NoConn

Live == pooled \cup ({lent[t] : t \in Threads} \ {NoConn})

Init ==
    /\ pooled = {}
    /\ lent = [t \in Threads |-> NoConn]

\* A new connection is opened for a thread
OpenNew(t, c) ==
    /\ lent[t] = NoConn
    /\ c \notin Live
    /\ Cardinality(Live) < MaxSize
    /\ lent' = [lent EXCEPT ![t] = c]
    /\ UNCHANGED pooled

\* A pooled connection is lent
Borrow(t, c) ==
    /\ lent[t] = NoConn
    /\ c \in pooled
    /\ pooled' = pooled \ {c}
    /\ lent' = [lent EXCEPT ![t] = c]

\* A lent connection comes back to the pool
GiveBack(t) ==
    /\ lent[t] # NoConn
    /\ pooled' = pooled \cup {lent[t]}
    /\ lent' = [lent EXCEPT ![t] = NoConn]

\* A lent connection leaves the pool for good
Retire(t) ==
    /\ lent[t] # NoConn
    /\ lent' = [lent EXCEPT ![t] = NoConn]
    /\ UNCHANGED pooled

Next ==
    \E t \in Threads :
        \/ \E c \in Conns : OpenNew(t, c) \/ Borrow(t, c)
        \/ GiveBack(t)
        \/ Retire(t)

Spec == Init /\ [][Next]_<<pooled, lent>>

-----------------------------------------------------------------------------
\* No connection is lent twice or lent while it is pooled, and the live
\* connections never exceed max_size.
Exclusive ==
    /\ \A t, u \in Threads : lent[t] = lent[u] /\ lent[t] # NoConn => t = u
    /\ \A t \in Threads : lent[t] \notin pooled
    /\ Cardinality(Live) <= MaxSize
=============================================================================
