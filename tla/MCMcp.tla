------------------------------- MODULE MCMcp -------------------------------
(***************************************************************************)
(* The components around the MCP server for TLC, side by side: a behaviour *)
(* picks one of them and runs it; the others rest in an initial state.     *)
(* One search so answers for all of them.  Their modules are extended, so  *)
(* that the run and the theorems speak of one definition.                  *)
(***************************************************************************)
EXTENDS HyperdMonitor, McpTools, McpIngest, McpEngine, McpWatcher, McpResources, StateDir, Bootstrap, TLC

VARIABLE which    \* the component that runs

-----------------------------------------------------------------------------
(* Releases and wheels: a pin in upper case, none, a wrong one, no tag, and *)
(* a version that is no path component                                     *)

File1(p) == [path |-> p, dir |-> FALSE]
MCWheels ==
    [a |-> <<File1(<<"pkg", "bin", "hyper", "hyperd">>), File1(<<"pkg", "bin", "hyper", "old">>)>>,
     b |-> <<[path |-> <<"lib", "hyper">>, dir |-> TRUE], File1(<<"lib", "hyper", "hyperd">>)>>,
     z |-> <<File1(<<"pkg", "init">>), File1(<<"pkg", "bin", "hyper", "old">>)>>]
MCPublished == (<<"1", "t">> :> "a") @@ (<<"2", "t">> :> "b") @@ (<<"1", "u">> :> "z")
NoPin == <<"", "lower">>
Release(v, tag, sha, other) ==
    [version |-> v, wheel_tag |-> [host |-> tag, other |-> "u"], sha256 |-> [host |-> sha, other |-> other]]
MCReleases ==
    {Release("1", "t", <<"a", "upper">>, <<"z", "lower">>), Release("1", "t", NoPin, NoPin),
     Release("2", "t", <<"a", "lower">>, NoPin), Release("2", "", <<"b", "lower">>, NoPin),
     Release("..", "t", <<"a", "lower">>, NoPin)}

-----------------------------------------------------------------------------
Components == {"monitor", "tools", "ingest", "engine", "watcher", "resources", "state", "bootstrap"}

McpInit ==
    /\ which \in Components
    /\ Init
    /\ ToolsInit /\ (which # "tools" => mode = [readOnly |-> FALSE, persistent |-> FALSE] /\ DOMAIN db = {"local", "persistent"})
    /\ IngestInit /\ (which # "ingest" => target = None /\ dest = "absent")
    /\ EngineInit
    /\ WatcherInit
    /\ ResInit /\ (which # "resources" => saved = BuildStore(FALSE))
    /\ StateInit
    /\ BootInit

mcpVars == <<which, vars, toolVars, ingestVars, engineVars, watcherVars,
             resVars, svars, bootVars>>

\* The components whose environment may leave them alone for ever; in the
\* others a state without a successor is an error.
Rests == which \in {"engine", "watcher", "resources", "state"} /\ UNCHANGED mcpVars

McpNext ==
    \/ /\ which = "monitor" /\ Next
       /\ UNCHANGED <<which, toolVars, ingestVars, engineVars, watcherVars,
                      resVars, svars, bootVars>>
    \/ /\ which = "tools" /\ ToolsNext
       /\ UNCHANGED <<which, vars, ingestVars, engineVars, watcherVars,
                      resVars, svars, bootVars>>
    \/ /\ which = "ingest" /\ IngestNext
       /\ UNCHANGED <<which, vars, toolVars, engineVars, watcherVars,
                      resVars, svars, bootVars>>
    \/ /\ which = "engine" /\ EngineNext
       /\ UNCHANGED <<which, vars, toolVars, ingestVars, watcherVars,
                      resVars, svars, bootVars>>
    \/ /\ which = "watcher" /\ WatcherNext
       /\ UNCHANGED <<which, vars, toolVars, ingestVars, engineVars,
                      resVars, svars, bootVars>>
    \/ /\ which = "resources" /\ ResNext
       /\ UNCHANGED <<which, vars, toolVars, ingestVars, engineVars, watcherVars,
                      svars, bootVars>>
    \/ /\ which = "state" /\ StateNext
       /\ UNCHANGED <<which, vars, toolVars, ingestVars, engineVars, watcherVars,
                      resVars, bootVars>>
    \/ /\ which = "bootstrap" /\ BootNext
       /\ UNCHANGED <<which, vars, toolVars, ingestVars, engineVars, watcherVars,
                      resVars, svars>>
    \/ Rests

McpSpec == McpInit /\ [][McpNext]_mcpVars
=============================================================================
