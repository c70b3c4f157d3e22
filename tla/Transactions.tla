---------------------------- MODULE Transactions ----------------------------
(***************************************************************************)
(* The connection and the async pool that lends connections, beside each   *)
(* other: what both promise about committed work.                          *)
(***************************************************************************)
EXTENDS ApiConnection, AsyncPool

\* A connection is handed out configured, work under a transaction guard is kept
\* whole or not at all, and the pool never replaces the database under it
\* (transaction.rs, async_transaction.rs, pool.rs).
CommittedWorkIsKept == TransactionsAreWhole /\ []PooledWorkIsKept
=============================================================================
