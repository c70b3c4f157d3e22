----------------------------- MODULE BulkLoads -----------------------------
(***************************************************************************)
(* What the inserters of hyperdb-api and the text import promise together: *)
(* a bulk load stores all it was given or nothing, whatever way it came.   *)
(***************************************************************************)
EXTENDS Inserter, ArrowInserter

\* A bulk load, by rows, by Arrow batches or from text, stores what the caller
\* gave, whole and all of it, or nothing: through refused values, dropped calls,
\* lost connections and threads that share one COPY.
BulkLoadsAreWhole == InsertIsWhole /\ ArrowLoadIsWhole
=============================================================================
