-------------------------- MODULE MCDaemonElection --------------------------
(***************************************************************************)
(* DaemonElection for TLC: clients of one version, or one newer than the   *)
(* other, against daemons of an older release.                             *)
(***************************************************************************)
EXTENDS DaemonElection, TLC

CONSTANTS c1, c2

BothNew == (c1 :> 2) @@ (c2 :> 2)
Mixed   == (c1 :> 1) @@ (c2 :> 2)

\* Daemon processes are interchangeable (safety runs only)
Symmetry == Permutations(Daemons)
=============================================================================
