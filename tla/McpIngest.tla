----------------------------- MODULE McpIngest -----------------------------
(***************************************************************************)
(* The multi-statement operations of the MCP server that replace or merge  *)
(* into what a user already has: copy_query's replace_via_staging          *)
(* (server.rs), the merge of load_file (ingest.rs), and the exports that   *)
(* replace a file (export.rs).                                             *)
(*                                                                         *)
(* Hyper commits every DDL statement at once, so none of them is atomic:   *)
(* each is a sequence of statements with an undo of its own, and each      *)
(* statement may be refused by the server or find the connection lost.     *)
(* The step of the model is one statement or one file operation.           *)
(***************************************************************************)
EXTENDS Integers, FiniteSets, TLC

CONSTANTS
    Keys,            \* values of the merge key
    MaxFailures      \* bound: statements the server refuses within one operation

VARIABLES
    pc,              \* the step the operation is at; "idle" between two
    target,          \* the user's table
    staging,         \* the scratch table of the operation
    backup,          \* the hidden table that holds the replaced one
    conn,            \* the connection works
    failures,        \* bound counter
    outcome,         \* how the last operation ended
    leftover,        \* history: the last undo or clean-up of an operation failed
    before,          \* history: the target when the operation began
    dest,            \* the export destination: "absent", "old", "part", "new"
    aside,           \* what lies beside it: the moved "old", a "part" or "new"
    hadFile          \* history: there was a destination when the export began

ingestVars == <<pc, target, staging, backup, conn, failures, outcome, leftover,
                before, dest, aside, hadFile>>
tables == <<target, staging, backup>>
files == <<dest, aside, hadFile>>

\* A table: the rows by key and version, and whether it has the new column.
None == [rows |-> {}, wide |-> FALSE, exists |-> FALSE]
Existing(rows, wide) == [rows |-> rows, wide |-> wide, exists |-> TRUE]
Exists(t) == t.exists

IngestInit ==
    /\ pc = "idle"
    /\ target \in {None} \cup {Existing(ks \X {"old"}, FALSE) : ks \in SUBSET Keys}
    /\ staging = None /\ backup = None
    /\ conn = TRUE
    /\ failures = 0
    /\ outcome = "none"
    /\ leftover = FALSE
    /\ before = target
    /\ dest \in {"absent", "old"}
    /\ aside = "absent"
    /\ hadFile = FALSE

\* How a statement ends.  Refused and Lost leave what it would have changed.
Done == conn /\ UNCHANGED <<conn, failures>>
Fails == \/ /\ conn /\ failures < MaxFailures
            /\ failures' = failures + 1 /\ UNCHANGED conn
         \/ /\ conn /\ conn' = FALSE /\ UNCHANGED failures
         \/ ~conn /\ UNCHANGED <<conn, failures>>

\* A scratch or backup table left behind has a name that is not used again
Begin(step) ==
    /\ pc = "idle" /\ conn
    /\ pc' = step
    /\ before' = target
    /\ staging' = None /\ backup' = None
    /\ failures' = 0
    /\ leftover' = FALSE
    /\ outcome' = "none"
    /\ UNCHANGED <<target, conn, files>>

Go(step) == pc' = step /\ UNCHANGED <<outcome, leftover, before, files>>
EndOperation(result) == pc' = "idle" /\ outcome' = result
                  /\ UNCHANGED <<leftover, before, files>>

-----------------------------------------------------------------------------
(* copy_query                                                              *)

\* perform_copy: create or replace of a missing table
CopyBegin == Begin("probe")

CopyProbe ==
    /\ pc = "probe"
    /\ \/ Done /\ Go(IF Exists(target) THEN "stage" ELSE "create") /\ UNCHANGED tables
       \/ Fails /\ EndOperation("error") /\ UNCHANGED tables

\* CREATE TABLE AS; a failure may leave a part of the table, which is dropped
CreateTableAs ==
    /\ pc = "create"
    /\ \/ /\ Done /\ EndOperation("ok")
          /\ target' = Existing(Keys \X {"new"}, FALSE)
          /\ UNCHANGED <<staging, backup>>
       \/ /\ Fails /\ Go("uncreate")
          /\ target' \in {target, Existing({}, FALSE)}
          /\ UNCHANGED <<staging, backup>>

DropPartialTarget ==
    /\ pc = "uncreate"
    /\ \/ Done /\ EndOperation("error") /\ target' = None /\ UNCHANGED <<staging, backup>>
       \/ /\ Fails
          /\ pc' = "idle" /\ outcome' = "error" /\ leftover' = TRUE
          /\ UNCHANGED <<tables, before, files>>

\* replace_via_staging
CopyStage ==
    /\ pc = "stage"
    /\ \/ /\ Done /\ Go("aside")
          /\ staging' = Existing(Keys \X {"new"}, FALSE)
          /\ UNCHANGED <<target, backup>>
       \/ Fails /\ Go("guardError") /\ UNCHANGED tables

\* Mutant: the old table is dropped to make room instead of renamed.
DropsInsteadOfRename ==
    /\ pc = "aside"
    /\ Done /\ Go("swap")
    /\ target' = None
    /\ UNCHANGED <<staging, backup>>

CopyMoveAside ==
    /\ pc = "aside"
    /\ \/ Done /\ Go("swap") /\ backup' = target /\ target' = None /\ UNCHANGED staging
       \/ Fails /\ Go("guardError") /\ UNCHANGED tables

CopySwap ==
    /\ pc = "swap"
    /\ \/ Done /\ Go("dropBackup") /\ target' = staging /\ staging' = None /\ UNCHANGED backup
       \/ Fails /\ Go("restore") /\ UNCHANGED tables

\* Mutant: the error is returned without the rename back.
SwapErrorNotRestored ==
    /\ pc = "restore"
    /\ Go("guardError")
    /\ UNCHANGED <<tables, conn, failures>>

CopyRestore ==
    /\ pc = "restore"
    /\ \/ Done /\ Go("guardError") /\ target' = backup /\ backup' = None /\ UNCHANGED staging
       \/ /\ Fails
          /\ pc' = "guardError" /\ leftover' = TRUE
          /\ UNCHANGED <<tables, outcome, before, files>>

CopyDropBackup ==
    /\ pc = "dropBackup"
    /\ \/ Done /\ EndOperation("ok") /\ backup' = None /\ UNCHANGED <<target, staging>>
       \/ Fails /\ EndOperation("ok") /\ UNCHANGED tables

\* Mutant: the guard is disarmed on the error path too.
GuardDisarmed ==
    /\ pc \in {"guardError", "guardOk"}
    /\ EndOperation(IF pc = "guardOk" THEN "ok" ELSE "error")
    /\ UNCHANGED <<tables, conn, failures>>

\* Drop of ScratchTableGuard, after an error and after a merge
GuardDrop ==
    /\ pc \in {"guardError", "guardOk"}
    /\ LET result == IF pc = "guardOk" THEN "ok" ELSE "error"
       IN  \/ Done /\ EndOperation(result) /\ staging' = None /\ UNCHANGED <<target, backup>>
           \/ /\ Fails
              /\ pc' = "idle" /\ outcome' = result /\ leftover' = TRUE
              /\ UNCHANGED <<tables, before, files>>

-----------------------------------------------------------------------------
(* merge_via_temp_table and merge_from_staging                             *)

MergeBegin == Begin("mergeStage")

\* The replace load into the scratch table; one that fails leaves it empty
MergeStage ==
    /\ pc = "mergeStage"
    /\ \/ /\ Done /\ Go("mergeProbe")
          /\ \E ks \in SUBSET Keys \ {{}}, wide \in BOOLEAN :
               staging' = Existing(ks \X {"new"}, wide)
          /\ UNCHANGED <<target, backup>>
       \/ /\ Fails /\ Go("guardError")
          /\ staging' \in {None, Existing({}, FALSE)}
          /\ UNCHANGED <<target, backup>>

\* table_exists_in, then the checks of keys, types and required columns
MergeProbe ==
    /\ pc = "mergeProbe"
    /\ UNCHANGED tables
    /\ \/ /\ Done
          /\ \/ Go(IF ~Exists(target) THEN "mergeRename"
                   ELSE IF staging.wide /\ ~target.wide THEN "mergeAlter" ELSE "mergeRows")
             \/ Exists(target) /\ Go("guardError")
       \/ Fails /\ Go("guardError")

MergeRename ==
    /\ pc = "mergeRename"
    /\ \/ Done /\ EndOperation("ok") /\ target' = staging /\ staging' = None /\ UNCHANGED backup
       \/ Fails /\ Go("guardError") /\ UNCHANGED tables

\* ALTER TABLE ADD COLUMN, committed at once
MergeAlter ==
    /\ pc = "mergeAlter"
    /\ \/ /\ Done /\ Go("mergeRowsWide")
          /\ target' = [target EXCEPT !.wide = TRUE] /\ UNCHANGED <<staging, backup>>
       \/ Fails /\ Go("guardError") /\ UNCHANGED tables

\* DELETE and INSERT in one transaction
MergeRows ==
    /\ pc \in {"mergeRows", "mergeRowsWide"}
    /\ LET stagedKeys == {r[1] : r \in staging.rows}
           kept == {r \in target.rows : r[1] \notin stagedKeys}
       IN  \/ /\ Done /\ Go("guardOk")
              /\ target' = [target EXCEPT !.rows = kept \cup staging.rows]
              /\ UNCHANGED <<staging, backup>>
           \/ /\ Fails /\ Go(IF pc = "mergeRows" THEN "guardError" ELSE "mergeUndo")
              /\ UNCHANGED tables

\* ALTER TABLE DROP COLUMN of the columns the failed merge added
MergeUndo ==
    /\ pc = "mergeUndo"
    /\ \/ /\ Done /\ Go("guardError")
          /\ target' = [target EXCEPT !.wide = FALSE] /\ UNCHANGED <<staging, backup>>
       \/ /\ Fails
          /\ pc' = "guardError" /\ leftover' = TRUE
          /\ UNCHANGED <<tables, outcome, before, files>>

-----------------------------------------------------------------------------
(* Exports that replace their destination.  aside stands for the sibling   *)
(* path; file operations fail independently of the connection.             *)

ExportStep(step, d, a) ==
    /\ pc' = step /\ dest' = d /\ aside' = a
    /\ UNCHANGED <<tables, conn, failures, outcome, leftover, before, hadFile>>
ExportEnd(result, d, a) ==
    /\ pc' = "idle" /\ outcome' = result /\ dest' = d /\ aside' = a
    /\ UNCHANGED <<tables, conn, failures, leftover, before, hadFile>>

\* What an earlier export left beside the destination is not looked at again
ExportBegin(step) ==
    /\ dest \in {"absent", "old"}
    /\ pc = "idle" /\ conn
    /\ pc' = step /\ aside' = "absent" /\ outcome' = "none" /\ leftover' = FALSE
    /\ staging' = None /\ backup' = None
    /\ before' = target /\ hadFile' = (dest = "old")
    /\ UNCHANGED <<target, conn, failures, dest>>

ExportIcebergBegin == ExportBegin("moveAside")
ExportHyperBegin == ExportBegin("buildTemp")

\* ReplaceGuard::move_aside
ExportMoveAside ==
    /\ pc = "moveAside"
    /\ \/ dest = "absent" /\ ExportStep("copyTo", dest, aside)
       \/ dest = "old" /\ ExportStep("copyTo", "absent", "old")
       \/ dest = "old" /\ ExportEnd("error", dest, aside)

\* COPY ... TO; a failure may leave a part of the directory
ExportCopyTo ==
    /\ pc = "copyTo"
    /\ \/ ExportStep("commit", "new", aside)
       \/ \E d \in {"absent", "part"} :
            IF aside = "old" THEN ExportStep("exportRestore", d, aside)
                             ELSE ExportEnd("error", d, aside)

\* ReplaceGuard::commit
ExportCommit ==
    /\ pc = "commit"
    /\ \E a \in {"absent", aside} : ExportEnd("ok", dest, a)

\* Mutant: the backup is renamed over what is there, which fails on a directory.
RestoreKeepsPartial ==
    /\ pc = "exportRestore"
    /\ IF dest = "absent" THEN ExportEnd("error", "old", "absent")
                          ELSE ExportEnd("error", dest, "absent")

\* ReplaceGuard::restore and its Drop: remove what is there, rename back
ExportRestore ==
    /\ pc = "exportRestore"
    /\ \/ ExportEnd("error", "old", "absent")
       \/ ExportEnd("error", dest, aside)
       \/ ExportEnd("error", "absent", aside)

\* build_hyper_export into a temporary sibling, then a rename over the file
ExportBuildTemp ==
    /\ pc = "buildTemp"
    /\ ExportStep("moveIn", dest, "new") \/ ExportStep("removeTemp", dest, "part")

ExportMoveIn ==
    /\ pc = "moveIn"
    /\ ExportEnd("ok", "new", "absent") \/ ExportStep("removeTemp", dest, aside)

ExportRemoveTemp ==
    /\ pc = "removeTemp"
    /\ \E a \in {"absent", aside} : ExportEnd("error", dest, a)

\* The next export finds what this one produced
ExportSettle ==
    /\ pc = "idle" /\ dest \in {"new", "part"}
    /\ dest' = IF dest = "new" THEN "old" ELSE "absent"
    /\ aside' = "absent" /\ outcome' = "none" /\ hadFile' = FALSE
    /\ UNCHANGED <<pc, tables, conn, failures, leftover, before>>

Reconnect ==
    /\ pc = "idle" /\ ~conn
    /\ conn' = TRUE
    /\ UNCHANGED <<pc, tables, failures, outcome, leftover, before, files>>

IngestNext ==
    \/ CopyBegin \/ CopyProbe \/ CreateTableAs \/ DropPartialTarget
    \/ CopyStage \/ CopyMoveAside \/ CopySwap \/ CopyRestore \/ CopyDropBackup
    \/ GuardDrop
    \/ MergeBegin \/ MergeStage \/ MergeProbe \/ MergeRename \/ MergeAlter
    \/ MergeRows \/ MergeUndo
    \/ ExportIcebergBegin \/ ExportHyperBegin \/ ExportMoveAside \/ ExportCopyTo
    \/ ExportCommit \/ ExportRestore \/ ExportBuildTemp \/ ExportMoveIn
    \/ ExportRemoveTemp \/ ExportSettle \/ Reconnect

IngestSpec == IngestInit /\ [][IngestNext]_ingestVars

-----------------------------------------------------------------------------
\* At every statement of a replace, and however it ends, what the user had is
\* in the target, or in the hidden table the error names, or was replaced by
\* the complete new result.
ReplacedDataIsKept ==
    Exists(before) =>
      \/ target.rows = before.rows
      \/ backup = before
      \/ Exists(target) /\ outcome # "error" /\ {r[1] : r \in before.rows}
                              \subseteq {r[1] : r \in target.rows}

\* A failed copy or merge leaves the rows and the columns of its target as they
\* were, unless its own undo was refused or lost, which is reported.
FailureChangesNothing ==
    outcome = "error" /\ ~leftover => target = before

\* No scratch table outlives its operation unless the clean-up was refused or
\* lost.
ScratchIsDropped == pc = "idle" /\ ~leftover => ~Exists(staging)

\* An export that replaces a file or a table directory never destroys what was
\* there before the new one is complete: until then, and after a failure, it is
\* at the destination or beside it.
ExportKeepsOld ==
    hadFile => "old" \in {dest, aside} \/ dest = "new"

\* An operation of several statements or renames that fails anywhere keeps what
\* the user had, whole, and leaves no scratch table behind.
UndoIsComplete ==
    ReplacedDataIsKept /\ FailureChangesNothing /\ ScratchIsDropped /\ ExportKeepsOld
=============================================================================
