----------------------------- MODULE MCSyncPool -----------------------------
(***************************************************************************)
(* SyncPool for TLC.  Conns holds one identity per slot and one more per   *)
(* thread, for a connection whose slot is already free while it is closed. *)
(***************************************************************************)
EXTENDS SyncPool, TLC

\* Neither threads nor connections are distinguished (safety runs only)
Symmetry == Permutations(Threads) \cup Permutations(Conns)
=============================================================================
