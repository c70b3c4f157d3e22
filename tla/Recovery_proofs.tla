-------------------------- MODULE Recovery_proofs --------------------------
(***************************************************************************)
(* What survives an operation that is cut short.                           *)
(*                                                                         *)
(* The multi-statement operations of the MCP server (McpIngest) keep what  *)
(* the user had and leave nothing behind, whichever statement is refused   *)
(* or lost.  The inductive invariant says, for each step of an operation,  *)
(* where the user's table is and what the scratch and backup tables hold.  *)
(*                                                                         *)
(* The restart of hyperd (HyperdMonitor) keeps daemon.json, STATUS and the *)
(* managed process in agreement and leaves no process behind, for any      *)
(* number of clients, restarts and failures, with named pipes and with the *)
(* socket.  The inductive invariant says which handles each step of the    *)
(* restart holds.  Its rate limit is kept because restart_history is the   *)
(* end of the list of all attempts, and what it dropped is too old.        *)
(*                                                                         *)
(* The state directory (StateDir) keeps its record, its endpoint and the   *)
(* retirement of a pre-1.0 daemon sound, for any daemons and a kill at any *)
(* step.  The inductive invariant says who may be at work under the lock   *)
(* and what the files and the endpoint are at each of its steps.           *)
(*                                                                         *)
(* The installer (Bootstrap) leaves one whole, pinned wheel in current/,   *)
(* whatever was killed before.  The inductive invariant says which files   *)
(* of a wheel are on disk and which are still to come.                     *)
(***************************************************************************)
EXTENDS McpIngest, HyperdMonitor, StateDir, Bootstrap, TLAPS, FiniteSetTheorems, SequenceTheorems

-----------------------------------------------------------------------------
(* Tables                                                                  *)

TableType == [rows : SUBSET (Keys \X {"old", "new"}), wide : BOOLEAN, exists : BOOLEAN]
KeySet(t) == {r[1] : r \in t.rows}
Widened(t) == [t EXCEPT !.wide = TRUE]
Narrowed(t) == [t EXCEPT !.wide = FALSE]
WithRows(t, rows) == [t EXCEPT !.rows = rows]
Filled == Existing(Keys \X {"new"}, FALSE)

LEMMA NoneIsTable == None \in TableType /\ ~None.exists
  BY DEF None, TableType

LEMMA ExistingIsTable ==
    ASSUME NEW rows \in SUBSET (Keys \X {"old", "new"}), NEW wide \in BOOLEAN
    PROVE  /\ Existing(rows, wide) \in TableType /\ Existing(rows, wide).exists
           /\ Existing(rows, wide).rows = rows
  BY DEF Existing, TableType

LEMMA OldTable ==
    ASSUME NEW ks \in SUBSET Keys, NEW version \in {"old", "new"}
    PROVE  ks \X {version} \in SUBSET (Keys \X {"old", "new"})
  OBVIOUS

LEMMA FilledTable ==
    /\ Filled \in TableType /\ Filled.exists
    /\ \A t \in TableType : KeySet(t) \subseteq KeySet(Filled)
<1>1. Keys \X {"new"} \in SUBSET (Keys \X {"old", "new"})
  OBVIOUS
<1>2. Filled \in TableType /\ Filled.exists /\ Filled.rows = Keys \X {"new"}
  BY <1>1, ExistingIsTable DEF Filled
<1>3. ASSUME NEW t \in TableType, NEW r \in t.rows PROVE r[1] \in KeySet(Filled)
  <2>1. r[1] \in Keys
    BY <1>3 DEF TableType
  <2>2. <<r[1], "new">> \in Filled.rows
    BY <1>2, <2>1
  <2> QED
    BY <2>2 DEF KeySet
<1> QED
  BY <1>2, <1>3 DEF KeySet

LEMMA ChangedTable ==
    ASSUME NEW t \in TableType
    PROVE  /\ Widened(t) \in TableType /\ Widened(t).rows = t.rows
           /\ Widened(t).exists = t.exists
           /\ ~t.wide => Narrowed(Widened(t)) = t
           /\ \A rows \in SUBSET (Keys \X {"old", "new"}) :
                /\ WithRows(t, rows) \in TableType /\ WithRows(t, rows).rows = rows
                /\ WithRows(t, rows).exists = t.exists
  BY DEF TableType, Widened, Narrowed, WithRows

-----------------------------------------------------------------------------
(* The inductive invariant                                                 *)

CopySteps == {"probe", "create", "uncreate", "stage", "aside", "swap", "restore", "dropBackup"}
MergeSteps == {"mergeStage", "mergeProbe", "mergeRename", "mergeAlter", "mergeRows",
               "mergeRowsWide", "mergeUndo"}
ExportSteps == {"moveAside", "copyTo", "commit", "exportRestore", "buildTemp", "moveIn",
                "removeTemp"}
Steps == {"idle", "guardError", "guardOk"} \cup CopySteps \cup MergeSteps \cup ExportSteps

IngestTypes ==
    /\ pc \in Steps
    /\ target \in TableType /\ staging \in TableType /\ backup \in TableType
    /\ before \in TableType
    /\ leftover \in BOOLEAN /\ hadFile \in BOOLEAN

\* Only an operation that is over has an outcome, and only the undo of a failed
\* one, or the drop of its scratch table, leaves something over.
Underway ==
    /\ pc # "idle" => outcome = "none"
    /\ pc \notin {"idle", "guardError"} => ~leftover

\* Where the user's table is at each step.
TargetAt ==
    /\ ~before.exists => before = None
    /\ target.exists \/ target = None
    /\ pc \in {"probe", "create", "stage", "aside", "mergeStage", "mergeProbe", "mergeRename",
               "mergeAlter", "mergeRows"} \cup ExportSteps => target = before
    /\ pc \in {"create", "uncreate", "mergeRename"} => ~before.exists
    /\ pc \in {"stage", "aside", "swap", "restore", "dropBackup", "mergeAlter", "mergeRows",
               "mergeRowsWide", "mergeUndo", "guardOk"} => before.exists
    /\ pc \in {"swap", "restore"} => backup = before
    /\ pc = "dropBackup" => target = Filled
    /\ pc = "mergeAlter" => ~before.wide
    /\ pc \in {"mergeRowsWide", "mergeUndo"} => target = Widened(before) /\ ~before.wide
    /\ pc = "guardOk" => target.exists /\ KeySet(before) \subseteq KeySet(target)
    /\ pc = "guardError" =>
         IF leftover THEN target.rows = before.rows \/ backup = before ELSE target = before

\* What the scratch table holds.
ScratchAt ==
    /\ pc \in {"aside", "swap"} => staging = Filled
    /\ pc \in {"mergeProbe", "mergeRename"} => staging.exists
    /\ pc \in {"probe", "create", "uncreate", "stage", "dropBackup", "mergeStage"} \cup ExportSteps
         => staging = None

\* Where the old file is at each step of an export.
ExportAt ==
    /\ pc = "moveAside" => (hadFile => dest = "old")
    /\ pc = "copyTo" => (hadFile => aside = "old")
    /\ pc = "commit" => dest = "new"
    /\ pc = "exportRestore" => aside = "old"
    /\ pc \in {"buildTemp", "moveIn", "removeTemp"} => (hadFile => dest = "old")

IngestInv ==
    IngestTypes /\ Underway /\ TargetAt /\ ScratchAt /\ ExportAt /\ UndoIsComplete

LEMMA InitHolds == IngestInit => IngestInv
<1>1. SUFFICES ASSUME IngestInit PROVE IngestInv
  OBVIOUS
<1>2. target \in TableType /\ (target.exists \/ target = None)
  <2>1. CASE target = None
    BY <2>1, NoneIsTable
  <2>2. CASE target # None
    <3>1. PICK ks \in SUBSET Keys : target = Existing(ks \X {"old"}, FALSE)
      BY <1>1, <2>2 DEF IngestInit
    <3>2. ks \X {"old"} \in SUBSET (Keys \X {"old", "new"})
      BY OldTable
    <3> QED
      BY <3>1, <3>2, ExistingIsTable
  <2> QED
    BY <2>1, <2>2
<1>3. IngestTypes /\ Underway
  BY <1>1, <1>2, NoneIsTable DEF IngestInit, IngestTypes, Underway, Steps
<1>4. TargetAt /\ ScratchAt /\ ExportAt
  BY <1>1, <1>2
  DEF IngestInit, TargetAt, ScratchAt, ExportAt, ExportSteps
<1>5. UndoIsComplete
  BY <1>1, <1>2, NoneIsTable
  DEF IngestInit, UndoIsComplete, ReplacedDataIsKept, FailureChangesNothing, ScratchIsDropped,
      ExportKeepsOld, Exists
<1> QED
  BY <1>3, <1>4, <1>5 DEF IngestInv

-----------------------------------------------------------------------------
(* copy_query                                                              *)

LEMMA BeginKeeps ==
    ASSUME IngestInv, CopyBegin \/ MergeBegin \/ ExportIcebergBegin \/ ExportHyperBegin
    PROVE  IngestInv'
<1>1. PICK step \in {"probe", "mergeStage", "moveAside", "buildTemp"} :
         /\ pc = "idle" /\ pc' = step /\ before' = target /\ target' = target
         /\ staging' = None /\ backup' = None /\ leftover' = FALSE /\ outcome' = "none"
         /\ dest' = dest
         /\ \/ hadFile' = hadFile /\ aside' = aside /\ step \in {"probe", "mergeStage"}
            \/ hadFile' \in BOOLEAN /\ (hadFile' => dest = "old")
  BY DEF CopyBegin, MergeBegin, ExportIcebergBegin, ExportHyperBegin, Begin, ExportBegin, files
<1>2. IngestTypes' /\ Underway'
  <2>1. hadFile' \in BOOLEAN
    BY <1>1 DEF IngestInv, IngestTypes
  <2> QED
    BY <1>1, <2>1, NoneIsTable
    DEF IngestInv, IngestTypes, Underway, Steps, CopySteps, MergeSteps, ExportSteps
<1>3. TargetAt'
  BY <1>1 DEF IngestInv, TargetAt, ExportSteps
<1>4. ScratchAt' /\ ExportAt'
  BY <1>1 DEF IngestInv, ScratchAt, ExportAt, ExportSteps
<1>5. ExportKeepsOld'
  BY <1>1 DEF IngestInv, IngestTypes, UndoIsComplete, ExportKeepsOld
<1>6. UndoIsComplete'
  BY <1>1, <1>2, <1>5
  DEF UndoIsComplete, ReplacedDataIsKept, FailureChangesNothing, ScratchIsDropped
<1> QED
  BY <1>2, <1>3, <1>4, <1>6 DEF IngestInv

-----------------------------------------------------------------------------
(* Statements                                                              *)

\* A statement of a copy or a merge leaves the export's files alone.
LEMMA FilesAreKept ==
    ASSUME IngestInv, UNCHANGED files, pc' \notin ExportSteps
    PROVE  ExportAt' /\ ExportKeepsOld' /\ hadFile' \in BOOLEAN
  BY DEF ExportAt, ExportSteps, IngestInv, IngestTypes, UndoIsComplete, ExportKeepsOld, files

\* A step of a copy or a merge that is not over: what is left to show is where
\* the tables are.
LEMMA OnTheWay ==
    ASSUME IngestInv, UNCHANGED <<before, files, outcome>>, pc # "idle",
           pc' \in Steps \ (ExportSteps \cup {"idle"}),
           leftover' \in BOOLEAN, leftover' => pc' = "guardError",
           target' \in TableType, staging' \in TableType, backup' \in TableType,
           TargetAt', ScratchAt'
    PROVE  IngestInv'
<1>1. Underway' /\ outcome' = "none"
  BY DEF IngestInv, Underway
<1>2. FailureChangesNothing' /\ ScratchIsDropped'
  BY <1>1 DEF FailureChangesNothing, ScratchIsDropped, ExportSteps, Steps
<1>3. before' \in TableType
  BY DEF IngestInv, IngestTypes
<1>4. ReplacedDataIsKept'
  <2>1. CASE pc' = "dropBackup"
    BY <1>1, <1>3, <2>1, FilledTable DEF ReplacedDataIsKept, TargetAt, Exists, KeySet
  <2>2. CASE pc' \in {"mergeRowsWide", "mergeUndo"}
    BY <1>1, <1>3, <2>2, ChangedTable DEF ReplacedDataIsKept, TargetAt, Exists
  <2>3. CASE pc' = "guardOk"
    BY <1>1, <2>3 DEF ReplacedDataIsKept, TargetAt, Exists, KeySet
  <2>4. CASE pc' \notin {"dropBackup", "mergeRowsWide", "mergeUndo", "guardOk"}
    BY <1>1, <2>4
    DEF ReplacedDataIsKept, TargetAt, Exists, Steps, CopySteps, MergeSteps, ExportSteps
  <2> QED
    BY <2>1, <2>2, <2>3, <2>4
<1> QED
  BY <1>1, <1>2, <1>3, <1>4, FilesAreKept DEF IngestInv, IngestTypes, UndoIsComplete

\* The last step of a copy or a merge.
LEMMA AtTheEnd ==
    ASSUME IngestInv, UNCHANGED <<before, files>>, pc' = "idle",
           leftover' \in BOOLEAN,
           target' \in TableType, staging' \in TableType, backup' \in TableType,
           target'.exists \/ target' = None,
           outcome' = "error" /\ ~leftover' => target' = before,
           ~leftover' => ~staging'.exists,
           \/ ~before.exists \/ target'.rows = before.rows \/ backup' = before
           \/ target'.exists /\ outcome' # "error" /\ KeySet(before) \subseteq KeySet(target')
    PROVE  IngestInv'
<1>1. Underway'
  BY DEF Underway
<1>2. TargetAt'
  BY DEF TargetAt, IngestInv, ExportSteps
<1>3. ScratchAt'
  BY DEF ScratchAt, ExportSteps
<1>4. FailureChangesNothing' /\ ScratchIsDropped'
  BY DEF FailureChangesNothing, ScratchIsDropped, Exists
<1>5. ReplacedDataIsKept'
  BY DEF ReplacedDataIsKept, Exists, KeySet
<1>6. pc' \in Steps /\ pc' \notin ExportSteps /\ before' \in TableType
  BY DEF Steps, ExportSteps, IngestInv, IngestTypes
<1> QED
  BY <1>1, <1>2, <1>3, <1>4, <1>5, <1>6, FilesAreKept
  DEF IngestInv, IngestTypes, UndoIsComplete

LEMMA CopyKeeps ==
    ASSUME IngestInv,
           CopyProbe \/ CreateTableAs \/ DropPartialTarget \/ CopyStage \/ CopyMoveAside
           \/ CopySwap \/ CopyRestore \/ CopyDropBackup
    PROVE  IngestInv'
<1>0. /\ target \in TableType /\ staging \in TableType /\ backup \in TableType
      /\ before \in TableType /\ None \in TableType /\ ~None.exists
      /\ Filled \in TableType /\ Filled.exists /\ KeySet(before) \subseteq KeySet(Filled)
      /\ leftover \in BOOLEAN /\ (before.exists \/ before = None)
  BY NoneIsTable, FilledTable DEF IngestInv, IngestTypes, TargetAt
<1>1. CASE CopyProbe
  <2>1. /\ pc = "probe" /\ UNCHANGED <<before, files, leftover, target, staging, backup>>
        /\ target = before /\ ~leftover /\ staging = None
    BY <1>1 DEF CopyProbe, Go, EndOperation, tables, IngestInv, TargetAt, Underway, ScratchAt
  <2>2. CASE pc' \in {"stage", "create"}
    <3>1. /\ outcome' = outcome
          /\ IF target.exists THEN pc' = "stage" ELSE pc' = "create"
      BY <1>1, <2>2 DEF CopyProbe, Go, EndOperation, Exists
    <3>2. TargetAt' /\ ScratchAt'
      BY <1>0, <2>1, <3>1 DEF TargetAt, ScratchAt, ExportSteps, IngestInv
    <3> QED
      BY <1>0, <2>1, <2>2, <3>1, <3>2, OnTheWay DEF Steps, CopySteps, ExportSteps
  <2>3. CASE pc' = "idle"
    BY <1>0, <2>1, <2>3, AtTheEnd
  <2> QED
    BY <1>1, <2>2, <2>3 DEF CopyProbe, Go, EndOperation
<1>2. CASE CreateTableAs
  <2>1. /\ pc = "create" /\ UNCHANGED <<before, files, leftover, staging, backup>>
        /\ ~before.exists /\ ~leftover /\ staging = None /\ target = before
    BY <1>2 DEF CreateTableAs, Go, EndOperation, IngestInv, TargetAt, Underway, ScratchAt
  <2>2. CASE pc' = "idle"
    <3>1. target' = Filled /\ outcome' = "ok"
      BY <1>2, <2>2 DEF CreateTableAs, Go, EndOperation, Filled
    <3> QED
      BY <1>0, <2>1, <2>2, <3>1, AtTheEnd
  <2>3. CASE pc' = "uncreate"
    <3>1. outcome' = outcome /\ target' \in {target, Existing({}, FALSE)}
      BY <1>2, <2>3 DEF CreateTableAs, Go, EndOperation
    <3>2. target' \in TableType /\ (target'.exists \/ target' = None)
      BY <1>0, <2>1, <3>1, ExistingIsTable
    <3>3. TargetAt' /\ ScratchAt'
      BY <1>0, <2>1, <2>3, <3>2 DEF TargetAt, ScratchAt, ExportSteps
    <3> QED
      BY <1>0, <2>1, <2>3, <3>1, <3>2, <3>3, OnTheWay DEF Steps, CopySteps, ExportSteps
  <2> QED
    BY <1>2, <2>2, <2>3 DEF CreateTableAs, Go, EndOperation
<1>3. CASE DropPartialTarget
  <2>1. /\ pc = "uncreate" /\ UNCHANGED <<before, files, staging, backup>>
        /\ ~before.exists /\ staging = None /\ pc' = "idle" /\ leftover' \in BOOLEAN
        /\ (target' = None \/ (target' = target /\ leftover' = TRUE))
        /\ target.exists \/ target = None
    BY <1>0, <1>3 DEF DropPartialTarget, EndOperation, IngestInv, TargetAt, ScratchAt, tables
  <2> QED
    BY <1>0, <2>1, AtTheEnd
<1>4. CASE CopyStage
  <2>1. /\ pc = "stage" /\ UNCHANGED <<before, files, leftover, outcome, target, backup>>
        /\ before.exists /\ ~leftover /\ target = before
        /\ \/ pc' = "aside" /\ staging' = Filled
           \/ pc' = "guardError" /\ staging' = staging
    BY <1>4 DEF CopyStage, Go, Filled, tables, IngestInv, TargetAt, Underway
  <2>2. TargetAt' /\ ScratchAt'
    BY <1>0, <2>1 DEF TargetAt, ScratchAt, ExportSteps
  <2> QED
    BY <1>0, <2>1, <2>2, OnTheWay DEF Steps, CopySteps, ExportSteps
<1>5. CASE CopyMoveAside
  <2>1. /\ pc = "aside" /\ UNCHANGED <<before, files, leftover, outcome, staging>>
        /\ before.exists /\ ~leftover /\ target = before /\ staging = Filled
        /\ \/ pc' = "swap" /\ backup' = target /\ target' = None
           \/ pc' = "guardError" /\ UNCHANGED <<target, backup>>
    BY <1>5 DEF CopyMoveAside, Go, tables, IngestInv, TargetAt, ScratchAt, Underway
  <2>2. TargetAt' /\ ScratchAt'
    BY <1>0, <2>1 DEF TargetAt, ScratchAt, ExportSteps
  <2> QED
    BY <1>0, <2>1, <2>2, OnTheWay DEF Steps, CopySteps, ExportSteps
<1>6. CASE CopySwap
  <2>1. /\ pc = "swap" /\ UNCHANGED <<before, files, leftover, outcome, backup>>
        /\ before.exists /\ ~leftover /\ backup = before /\ staging = Filled
        /\ \/ pc' = "dropBackup" /\ target' = staging /\ staging' = None
           \/ pc' = "restore" /\ UNCHANGED <<target, staging>>
        /\ target.exists \/ target = None
    BY <1>6 DEF CopySwap, Go, tables, IngestInv, TargetAt, ScratchAt, Underway
  <2>2. TargetAt' /\ ScratchAt'
    BY <1>0, <2>1 DEF TargetAt, ScratchAt, ExportSteps
  <2> QED
    BY <1>0, <2>1, <2>2, OnTheWay DEF Steps, CopySteps, ExportSteps
<1>7. CASE CopyRestore
  <2>1. /\ pc = "restore" /\ UNCHANGED <<before, files, outcome, staging>>
        /\ before.exists /\ ~leftover /\ backup = before /\ pc' = "guardError"
        /\ \/ target' = backup /\ backup' = None /\ leftover' = leftover
           \/ UNCHANGED <<target, backup>> /\ leftover' = TRUE
        /\ target.exists \/ target = None
    BY <1>7 DEF CopyRestore, Go, tables, IngestInv, TargetAt, Underway
  <2>2. TargetAt' /\ ScratchAt'
    BY <1>0, <2>1 DEF TargetAt, ScratchAt, ExportSteps
  <2> QED
    BY <1>0, <2>1, <2>2, OnTheWay DEF Steps, CopySteps, ExportSteps
<1>8. CASE CopyDropBackup
  <2>1. /\ pc = "dropBackup" /\ UNCHANGED <<before, files, leftover, target, staging>>
        /\ before.exists /\ ~leftover /\ target = Filled /\ staging = None
        /\ pc' = "idle" /\ outcome' = "ok" /\ backup' \in {None, backup}
    BY <1>8 DEF CopyDropBackup, EndOperation, tables, IngestInv, TargetAt, ScratchAt, Underway
  <2> QED
    BY <1>0, <2>1, AtTheEnd
<1> QED
  BY <1>1, <1>2, <1>3, <1>4, <1>5, <1>6, <1>7, <1>8

\* The scratch table goes with its guard, after an error and after a merge.
LEMMA GuardDropKeeps == ASSUME IngestInv, GuardDrop PROVE IngestInv'
<1>1. /\ target \in TableType /\ staging \in TableType /\ backup \in TableType
      /\ None \in TableType /\ ~None.exists /\ leftover \in BOOLEAN
      /\ target.exists \/ target = None
  BY NoneIsTable DEF IngestInv, IngestTypes, TargetAt
<1>2. /\ pc' = "idle" /\ UNCHANGED <<before, files, target, backup>>
      /\ \/ pc = "guardError" /\ outcome' = "error"
         \/ pc = "guardOk" /\ outcome' = "ok"
      /\ \/ staging' = None /\ leftover' = leftover
         \/ staging' = staging /\ leftover'
  BY DEF GuardDrop, EndOperation, tables
<1>3. CASE pc = "guardOk"
  BY <1>1, <1>2, <1>3, AtTheEnd DEF IngestInv, TargetAt
<1>4. CASE pc = "guardError"
  <2>1. IF leftover THEN target.rows = before.rows \/ backup = before ELSE target = before
    BY <1>4 DEF IngestInv, TargetAt
  <2>2. target'.rows = before.rows \/ backup' = before
    BY <1>2, <2>1
  <2>3. CASE staging' = None /\ leftover' = leftover
    <3>1. ~leftover' => target' = before
      BY <1>1, <1>2, <2>1, <2>3
    <3> QED
      BY <1>1, <1>2, <2>2, <2>3, <3>1, AtTheEnd
  <2>4. CASE staging' = staging /\ leftover'
    BY <1>1, <1>2, <2>2, <2>4, AtTheEnd
  <2> QED
    BY <1>2, <2>3, <2>4
<1> QED
  BY <1>2, <1>3, <1>4

-----------------------------------------------------------------------------
(* merge                                                                   *)

\* A merged table holds every key the target had.
LEMMA MergedRows ==
    ASSUME NEW t \in TableType, NEW s \in TableType
    PROVE  LET kept == {r \in t.rows : r[1] \notin KeySet(s)}
               merged == WithRows(t, kept \cup s.rows)
           IN  /\ merged \in TableType /\ merged.exists = t.exists
               /\ KeySet(t) \subseteq KeySet(merged)
<1> DEFINE kept == {r \in t.rows : r[1] \notin KeySet(s)}
           rows == kept \cup s.rows
<1>1. rows \in SUBSET (Keys \X {"old", "new"})
  BY DEF TableType
<1>2. \A r \in t.rows : \E q \in rows : q[1] = r[1]
  BY DEF KeySet
<1> HIDE DEF rows
<1>3. /\ WithRows(t, rows) \in TableType /\ WithRows(t, rows).rows = rows
      /\ WithRows(t, rows).exists = t.exists
  BY <1>1, ChangedTable
<1>4. KeySet(t) \subseteq KeySet(WithRows(t, rows))
  BY <1>2, <1>3 DEF KeySet
<1> QED
  BY <1>3, <1>4 DEF rows

LEMMA MergeKeeps ==
    ASSUME IngestInv,
           MergeStage \/ MergeProbe \/ MergeRename \/ MergeAlter \/ MergeRows \/ MergeUndo
    PROVE  IngestInv'
<1>0. /\ target \in TableType /\ staging \in TableType /\ backup \in TableType
      /\ before \in TableType /\ None \in TableType /\ ~None.exists
      /\ leftover \in BOOLEAN /\ (before.exists \/ before = None)
      /\ target.exists \/ target = None
  BY NoneIsTable DEF IngestInv, IngestTypes, TargetAt
<1>1. CASE MergeStage
  <2>1. /\ pc = "mergeStage" /\ UNCHANGED <<before, files, leftover, outcome, target, backup>>
        /\ ~leftover /\ target = before
        /\ \/ /\ pc' = "mergeProbe"
              /\ \E ks \in SUBSET Keys \ {{}}, wide \in BOOLEAN :
                   staging' = Existing(ks \X {"new"}, wide)
           \/ pc' = "guardError" /\ staging' \in {None, Existing({}, FALSE)}
    BY <1>1 DEF MergeStage, Go, IngestInv, TargetAt, Underway
  <2>2. staging' \in TableType /\ (pc' = "mergeProbe" => staging'.exists)
    <3>1. CASE pc' = "mergeProbe"
      <4>1. PICK ks \in SUBSET Keys, wide \in BOOLEAN : staging' = Existing(ks \X {"new"}, wide)
        BY <2>1, <3>1
      <4>2. ks \X {"new"} \in SUBSET (Keys \X {"old", "new"})
        BY OldTable
      <4> QED
        BY <4>1, <4>2, ExistingIsTable
    <3>2. CASE pc' = "guardError"
      BY <1>0, <2>1, <3>2, ExistingIsTable
    <3> QED
      BY <2>1, <3>1, <3>2
  <2>3. TargetAt' /\ ScratchAt'
    BY <1>0, <2>1, <2>2 DEF TargetAt, ScratchAt, ExportSteps
  <2> QED
    BY <1>0, <2>1, <2>2, <2>3, OnTheWay DEF Steps, MergeSteps, ExportSteps
<1>2. CASE MergeProbe
  <2>1. /\ pc = "mergeProbe"
        /\ UNCHANGED <<before, files, leftover, outcome, target, staging, backup>>
        /\ ~leftover /\ target = before /\ staging.exists
        /\ \/ pc' = "mergeRename" /\ ~target.exists
           \/ pc' = "mergeAlter" /\ target.exists /\ ~target.wide
           \/ pc' = "mergeRows" /\ target.exists
           \/ pc' = "guardError"
    BY <1>2 DEF MergeProbe, Go, Exists, tables, IngestInv, TargetAt, ScratchAt, Underway
  <2>2. TargetAt' /\ ScratchAt'
    BY <1>0, <2>1 DEF TargetAt, ScratchAt, ExportSteps
  <2> QED
    BY <1>0, <2>1, <2>2, OnTheWay DEF Steps, MergeSteps, ExportSteps
<1>3. CASE MergeRename
  <2>1. /\ pc = "mergeRename" /\ UNCHANGED <<before, files, leftover, backup>>
        /\ ~leftover /\ target = before /\ staging.exists /\ ~before.exists
        /\ \/ pc' = "idle" /\ outcome' = "ok" /\ target' = staging /\ staging' = None
           \/ pc' = "guardError" /\ UNCHANGED <<outcome, target, staging>>
    BY <1>3 DEF MergeRename, Go, EndOperation, tables, IngestInv, TargetAt, ScratchAt, Underway
  <2>2. CASE pc' = "idle"
    BY <1>0, <2>1, <2>2, AtTheEnd
  <2>3. CASE pc' = "guardError"
    <3>1. TargetAt' /\ ScratchAt'
      BY <1>0, <2>1, <2>3 DEF TargetAt, ScratchAt, ExportSteps
    <3> QED
      BY <1>0, <2>1, <2>3, <3>1, OnTheWay DEF Steps, ExportSteps
  <2> QED
    BY <2>1, <2>2, <2>3
<1>4. CASE MergeAlter
  <2>1. /\ pc = "mergeAlter" /\ UNCHANGED <<before, files, leftover, outcome, staging, backup>>
        /\ ~leftover /\ target = before /\ before.exists /\ ~before.wide
        /\ \/ pc' = "mergeRowsWide" /\ target' = Widened(target)
           \/ pc' = "guardError" /\ target' = target
    BY <1>4 DEF MergeAlter, Go, Widened, tables, IngestInv, TargetAt, Underway
  <2>2. target' \in TableType /\ target'.exists
    BY <1>0, <2>1, ChangedTable
  <2>3. TargetAt' /\ ScratchAt'
    BY <1>0, <2>1, <2>2 DEF TargetAt, ScratchAt, ExportSteps
  <2> QED
    BY <1>0, <2>1, <2>2, <2>3, OnTheWay DEF Steps, MergeSteps, ExportSteps
<1>5. CASE MergeRows
  <2> DEFINE merged == WithRows(target, {r \in target.rows : r[1] \notin KeySet(staging)}
                                        \cup staging.rows)
  <2>1. /\ pc \in {"mergeRows", "mergeRowsWide"}
        /\ UNCHANGED <<before, files, leftover, outcome, staging, backup>> /\ ~leftover
        /\ before.exists
        /\ \/ pc' = "guardOk" /\ target' = merged
           \/ pc' = "guardError" /\ target' = target /\ pc = "mergeRows"
           \/ pc' = "mergeUndo" /\ target' = target /\ pc = "mergeRowsWide"
    BY <1>5 DEF MergeRows, Go, WithRows, KeySet, tables, IngestInv, TargetAt, Underway
  <2>2. /\ merged \in TableType /\ merged.exists = target.exists
        /\ KeySet(target) \subseteq KeySet(merged)
    BY <1>0, MergedRows
  <2> HIDE DEF merged
  <2>3. /\ target.rows = before.rows /\ target.exists = before.exists
        /\ pc = "mergeRows" => target = before
        /\ pc = "mergeRowsWide" => target = Widened(before) /\ ~before.wide
    BY <1>0, <2>1, ChangedTable DEF IngestInv, TargetAt
  <2>4. KeySet(target) = KeySet(before)
    BY <2>3 DEF KeySet
  <2>5. target' \in TableType /\ target'.exists
    BY <1>0, <2>1, <2>2, <2>3
  <2>6. TargetAt' /\ ScratchAt'
    BY <1>0, <2>1, <2>2, <2>3, <2>4, <2>5 DEF TargetAt, ScratchAt, ExportSteps
  <2> QED
    BY <1>0, <2>1, <2>5, <2>6, OnTheWay DEF Steps, MergeSteps, ExportSteps
<1>6. CASE MergeUndo
  <2>1. /\ pc = "mergeUndo" /\ UNCHANGED <<before, files, outcome, staging, backup>>
        /\ ~leftover /\ before.exists /\ target = Widened(before) /\ ~before.wide
        /\ pc' = "guardError"
        /\ \/ target' = Narrowed(target) /\ leftover' = leftover
           \/ target' = target /\ leftover' = TRUE
    BY <1>6 DEF MergeUndo, Go, Narrowed, tables, IngestInv, TargetAt, Underway
  <2>2. Narrowed(Widened(before)) = before /\ Widened(before).rows = before.rows
    BY <1>0, <2>1, ChangedTable
  <2>3. target' \in TableType
    BY <1>0, <2>1, <2>2
  <2>4. TargetAt' /\ ScratchAt'
    BY <1>0, <2>1, <2>2, <2>3 DEF TargetAt, ScratchAt, ExportSteps
  <2> QED
    BY <1>0, <2>1, <2>3, <2>4, OnTheWay DEF Steps, ExportSteps
<1> QED
  BY <1>1, <1>2, <1>3, <1>4, <1>5, <1>6

-----------------------------------------------------------------------------
(* export                                                                  *)

\* A file operation leaves the tables alone.
LEMMA FileStep ==
    ASSUME IngestInv, UNCHANGED <<tables, leftover, before>>, hadFile' \in BOOLEAN,
           pc \in ExportSteps,
           \/ pc' = "idle"
           \/ pc' \in ExportSteps /\ outcome' = outcome,
           ExportAt', ExportKeepsOld'
    PROVE  IngestInv'
<1>1. /\ target = before /\ staging = None /\ ~leftover
      /\ UNCHANGED <<target, staging, backup>>
  BY DEF IngestInv, TargetAt, ScratchAt, Underway, ExportSteps, tables
<1>2. IngestTypes' /\ Underway'
  BY <1>1 DEF IngestInv, IngestTypes, Underway, Steps, ExportSteps
<1>3. TargetAt' /\ ScratchAt'
  BY <1>1 DEF IngestInv, TargetAt, ScratchAt, ExportSteps
<1>4. ReplacedDataIsKept' /\ FailureChangesNothing' /\ ScratchIsDropped'
  BY <1>1, NoneIsTable DEF ReplacedDataIsKept, FailureChangesNothing, ScratchIsDropped, Exists
<1> QED
  BY <1>2, <1>3, <1>4 DEF IngestInv, UndoIsComplete

LEMMA ExportKeeps ==
    ASSUME IngestInv,
           ExportMoveAside \/ ExportCopyTo \/ ExportCommit \/ ExportRestore
           \/ ExportBuildTemp \/ ExportMoveIn \/ ExportRemoveTemp
    PROVE  IngestInv'
<1>1. /\ UNCHANGED <<tables, leftover, before, hadFile>> /\ pc \in ExportSteps
      /\ hadFile \in BOOLEAN
      /\ \/ pc' = "idle"
         \/ pc' \in ExportSteps /\ outcome' = outcome
  BY DEF IngestInv, IngestTypes, ExportSteps, ExportMoveAside, ExportCopyTo, ExportCommit,
         ExportRestore, ExportBuildTemp, ExportMoveIn, ExportRemoveTemp, ExportStep, ExportEnd
<1>2. ExportAt'
  BY <1>1
  DEF IngestInv, ExportAt, ExportMoveAside, ExportCopyTo, ExportCommit,
      ExportRestore, ExportBuildTemp, ExportMoveIn, ExportRemoveTemp, ExportStep, ExportEnd
<1>3. ExportKeepsOld'
  BY <1>1
  DEF IngestInv, ExportAt, UndoIsComplete, ExportKeepsOld, ExportMoveAside, ExportCopyTo,
      ExportCommit, ExportRestore, ExportBuildTemp, ExportMoveIn, ExportRemoveTemp,
      ExportStep, ExportEnd
<1> QED
  BY <1>1, <1>2, <1>3, FileStep

LEMMA BetweenKeeps == ASSUME IngestInv, ExportSettle \/ Reconnect PROVE IngestInv'
<1>1. /\ pc = "idle" /\ pc' = "idle" /\ UNCHANGED <<target, staging, backup, leftover, before>>
      /\ outcome' \in {"none", outcome}
      /\ hadFile' = FALSE \/ UNCHANGED <<hadFile, dest, aside>>
  BY DEF ExportSettle, Reconnect, tables, files
<1>2. IngestTypes' /\ Underway' /\ TargetAt' /\ ScratchAt' /\ ExportAt'
  <2>1. hadFile' \in BOOLEAN
    BY <1>1 DEF IngestInv, IngestTypes
  <2> QED
    BY <1>1, <2>1
    DEF IngestInv, IngestTypes, Underway, TargetAt, ScratchAt, ExportAt, ExportSteps
<1>3. ReplacedDataIsKept' /\ FailureChangesNothing' /\ ScratchIsDropped'
  BY <1>1
  DEF IngestInv, UndoIsComplete, ReplacedDataIsKept, FailureChangesNothing, ScratchIsDropped,
      Exists
<1>4. ExportKeepsOld'
  BY <1>1 DEF IngestInv, IngestTypes, UndoIsComplete, ExportKeepsOld
<1> QED
  BY <1>2, <1>3, <1>4 DEF IngestInv, UndoIsComplete

\* A copy, merge or export that fails at any statement or file operation keeps
\* what the user had, whole, and leaves no scratch table behind, for any table
\* and any number of refused statements (server.rs replace_via_staging, ingest.rs
\* merge_via_temp_table, export.rs ReplaceGuard).
THEOREM UndoStaysComplete == IngestSpec => []UndoIsComplete
<1>1. IngestInv /\ [IngestNext]_ingestVars => IngestInv'
  <2>1. SUFFICES ASSUME IngestInv, [IngestNext]_ingestVars PROVE IngestInv'
    OBVIOUS
  <2>2. CASE UNCHANGED ingestVars
    BY <2>1, <2>2
    DEF ingestVars, IngestInv, IngestTypes, Underway, TargetAt, ScratchAt, ExportAt,
        UndoIsComplete, ReplacedDataIsKept, FailureChangesNothing, ScratchIsDropped,
        ExportKeepsOld
  <2>3. CASE IngestNext
    BY <2>1, <2>3, BeginKeeps, CopyKeeps, GuardDropKeeps, MergeKeeps, ExportKeeps, BetweenKeeps
    DEF IngestNext
  <2> QED
    BY <2>1, <2>2, <2>3
<1>2. IngestInv => UndoIsComplete
  BY DEF IngestInv
<1> QED
  BY <1>1, <1>2, InitHolds, PTL DEF IngestSpec

-----------------------------------------------------------------------------
(* Restarting hyperd                                                       *)

\* The part of TypeOK the argument needs: every epoch that occurs was started.
\* The histories of restarts play no part in it.
Started ==
    /\ mpc \in {"sleep", "restart", "respawn", "publish", "status", "drain", "returned"}
    /\ spawned \in Nat \ {0}
    /\ hyper \in 0 .. spawned
    /\ new \in 0 .. spawned
    /\ file \in 1 .. spawned
    /\ status \in 1 .. spawned
    /\ alive \subseteq 1 .. spawned
    /\ orphans \subseteq 1 .. spawned
    /\ used \in [Clients -> 0 .. spawned]
    /\ session \in [Clients -> 0 .. spawned]

(***************************************************************************)
(* Which handles try_restart_hyperd holds where: new_hyper exists only     *)
(* between the spawn and the publication, and the old hyperd is gone by    *)
(* then.  Between the two writes, daemon.json names new_hyper.             *)
(***************************************************************************)
Handles ==
    /\ new # 0 <=> mpc \in {"publish", "status"}
    /\ mpc \in {"respawn", "publish", "status"} => hyper = 0
    /\ mpc = "status" => file = EndpointOf(new)

(***************************************************************************)
(* A hyperd whose start timed out is never published: nobody who follows   *)
(* daemon.json and STATUS to an endpoint of its own can have reached it.   *)
(***************************************************************************)
OrphansUnknown ==
    /\ new \notin orphans
    /\ UniqueEndpoint =>
         /\ file \notin orphans
         /\ status \notin orphans
         /\ \A c \in Clients : used[c] \notin orphans /\ session[c] \notin orphans

Owned == alive \subseteq {hyper, new} \cup orphans

MonitorInv == Started /\ Handles /\ PublishedTogether /\ OrphansUnknown /\ Owned

-----------------------------------------------------------------------------
\* The initial hyperd is managed and published.
LEMMA MonitorStarts == Init => MonitorInv
BY DEF Init, MonitorInv, Started, Handles, PublishedTogether, OrphansUnknown, Owned, EndpointOf

-----------------------------------------------------------------------------
\* Every step, of the monitor, of a client or a crash, keeps the parts together.
LEMMA MonitorKeeps == MonitorInv /\ [Next]_vars => MonitorInv'
<1> SUFFICES ASSUME MonitorInv, [Next]_vars PROVE MonitorInv'
  OBVIOUS
<1> USE DEF MonitorInv, Started, Handles, PublishedTogether, OrphansUnknown, Owned, EndpointOf,
            clients
<1>1. CASE PollElapses
  BY <1>1 DEF PollElapses
<1>2. CASE Poll
  BY <1>2 DEF Poll
<1>3. CASE RecordAttempt
  BY <1>3 DEF RecordAttempt
<1>4. CASE Respawn
  BY <1>4 DEF Respawn
<1>5. CASE RespawnFails
  BY <1>5 DEF RespawnFails
<1>6. CASE RespawnTimesOut
  <2>1. CASE UNCHANGED <<spawned, alive, orphans>>
    BY <1>6, <2>1 DEF RespawnTimesOut
  <2>2. CASE /\ spawned' = spawned + 1
             /\ alive' = alive \cup {spawned + 1}
             /\ orphans' = orphans \cup {spawned + 1}
    <3>1. Started'
      BY <1>6, <2>2 DEF RespawnTimesOut
    <3>2. Handles' /\ PublishedTogether' /\ Owned'
      BY <1>6, <2>2 DEF RespawnTimesOut
    <3>3. OrphansUnknown'
      BY <1>6, <2>2 DEF RespawnTimesOut
    <3> QED  BY <3>1, <3>2, <3>3
  <2> QED
    BY <1>6, <2>1, <2>2 DEF RespawnTimesOut
<1>7. CASE WriteFile
  BY <1>7 DEF WriteFile
<1>8. CASE WriteFileFails
  BY <1>8 DEF WriteFileFails
<1>9. CASE UpdateStatus
  BY <1>9 DEF UpdateStatus
<1>10. CASE Drain
  BY <1>10 DEF Drain
<1>11. CASE ShutdownSeen
  BY <1>11 DEF ShutdownSeen
<1>12. ASSUME NEW e \in 1 .. MaxEpoch, HyperdDies(e) PROVE MonitorInv'
  BY <1>12 DEF HyperdDies, monitor
<1>13. ASSUME NEW c \in Clients, ReadRecord(c) PROVE MonitorInv'
  BY <1>13 DEF ReadRecord, CGoto, monitor
<1>14. ASSUME NEW c \in Clients, AskStatus(c) PROVE MonitorInv'
  BY <1>14 DEF AskStatus, CGoto, monitor
<1>15. ASSUME NEW c \in Clients, Connect(c) PROVE MonitorInv'
  BY <1>15 DEF Connect, CGoto, monitor
<1>16. ASSUME NEW c \in Clients, ConnectionLost(c) PROVE MonitorInv'
  BY <1>16 DEF ConnectionLost, CGoto, monitor
<1>17. ASSUME NEW c \in Clients, Report(c) PROVE MonitorInv'
  BY <1>17 DEF Report, CGoto, monitor
<1>18. CASE Stopped \/ UNCHANGED vars
  BY <1>18 DEF Stopped, vars, monitor
<1> QED
  BY <1>1, <1>2, <1>3, <1>4, <1>5, <1>6, <1>7, <1>8, <1>9, <1>10, <1>11, <1>12, <1>13,
     <1>14, <1>15, <1>16, <1>17, <1>18 DEF Next, MonitorStep, ClientStep

LEMMA MonitorInvHolds == Spec => []MonitorInv
BY MonitorStarts, MonitorKeeps, PTL DEF Spec

-----------------------------------------------------------------------------
(***************************************************************************)
(* Whenever a client can ask, daemon.json and STATUS name the same         *)
(* endpoint, and it is the managed hyperd's if the daemon manages one, on  *)
(* every path of try_restart_hyperd, failed writes and spawns included.    *)
(***************************************************************************)
THEOREM EndpointsAgree == Spec => []PublishedTogether
<1>1. MonitorInv => PublishedTogether
  BY DEF MonitorInv
<1> QED
  BY MonitorInvHolds, <1>1, PTL

(***************************************************************************)
(* No restart leaves a live hyperd behind except one whose start timed     *)
(* out, and with an endpoint of its own no client is connected to that one.*)
(***************************************************************************)
THEOREM NoEngineLeftBehind == Spec => []NoUnmanagedEngine
<1>1. MonitorInv => NoUnmanagedEngine
  BY DEF MonitorInv, Owned, OrphansUnknown, NoUnmanagedEngine
<1> QED
  BY MonitorInvHolds, <1>1, PTL
-----------------------------------------------------------------------------
(* The rate limit                                                          *)

\* Attempts are remembered in the order they were made.
InOrder(ages) == \A i, j \in 1 .. Len(ages) : i <= j => ages[i] >= ages[j]

\* restart_history is the end of the list of attempts, and what it no longer has
\* is out of the window.
RateInv ==
    /\ history \in Ages /\ recent \in Ages
    /\ InOrder(recent)
    /\ Len(recent) <= RestartLimit
    /\ Len(history) <= Len(recent)
    /\ \A i \in 1 .. Len(history) : history[i] = recent[Len(recent) - Len(history) + i]
    /\ \A i \in 1 .. Len(recent) - Len(history) : recent[i] >= RestartWindow

LEMMA BoundsAreNat ==
  /\ MaxEpoch \in Nat /\ RestartLimit \in Nat /\ RestartWindow \in Nat /\ CallbackTimeout \in Nat
  /\ MaxEpoch > 0 /\ RestartLimit > 0 /\ RestartWindow > 0
  BY ConstAssumption

\* What is remembered grows older together.
LEMMA OlderKeeps ==
  ASSUME NEW ages \in Ages, NEW n \in Nat
  PROVE  /\ Older(ages, n) \in Ages /\ Len(Older(ages, n)) = Len(ages)
         /\ \A i \in 1 .. Len(ages) : /\ Older(ages, n)[i] = IF ages[i] + n < RestartWindow THEN ages[i] + n ELSE RestartWindow
                                      /\ ages[i] \in Nat /\ ages[i] <= RestartWindow
  <1>1. ages \in Seq(0 .. RestartWindow) /\ DOMAIN ages = 1 .. Len(ages) /\ Len(ages) \in Nat BY DEF Ages
  <1>2. \A i \in 1 .. Len(ages) : ages[i] \in 0 .. RestartWindow BY <1>1, ElementOfSeq
  <1>3. \A i \in 1 .. Len(ages) : Older(ages, n)[i] = IF ages[i] + n < RestartWindow THEN ages[i] + n ELSE RestartWindow
    BY <1>1 DEF Older
  <1>4. \A i \in 1 .. Len(ages) : Older(ages, n)[i] \in 0 .. RestartWindow BY <1>2, <1>3, BoundsAreNat
  <1>5. Older(ages, n) \in [1 .. Len(ages) -> 0 .. RestartWindow] BY <1>1, <1>4 DEF Older
  <1>6. Older(ages, n) \in Seq(0 .. RestartWindow) /\ Len(Older(ages, n)) = Len(ages)
    <2> DEFINE S == 0 .. RestartWindow
               older == Older(ages, n)
    <2>1. older \in [1 .. Len(ages) -> S] /\ Len(ages) \in Nat BY <1>1, <1>5
    <2> HIDE DEF S, older
    <2>2. older \in Seq(S) BY <2>1, SeqDef
    <2>3. Len(older) \in Nat /\ DOMAIN older = 1 .. Len(older) BY <2>2, LenProperties
    <2>4. Len(older) = Len(ages) BY <2>1, <2>3
    <2> QED BY <2>2, <2>4 DEF S, older
  <1> QED BY <1>2, <1>3, <1>6, BoundsAreNat DEF Ages

\* What `retain' drops is what is out of the window.
LEMMA PrunedIsTheEnd ==
  ASSUME history \in Ages, InOrder(history)
  PROVE  \E n \in 0 .. Len(history) :
            /\ Pruned \in Ages /\ Len(Pruned) = Len(history) - n
            /\ \A i \in 1 .. Len(history) - n : Pruned[i] = history[n + i]
            /\ \A i \in 1 .. n : history[i] >= RestartWindow
            /\ \A i \in n + 1 .. Len(history) : history[i] < RestartWindow
  <1>1. history \in Seq(0 .. RestartWindow) /\ Len(history) \in Nat /\ DOMAIN history = 1 .. Len(history) BY DEF Ages
  <1>2. \A i \in 1 .. Len(history) : history[i] \in Nat BY <1>1, BoundsAreNat
  <1>3. /\ Expired \subseteq 1 .. Len(history)
        /\ \A i \in 1 .. Len(history) : i \in Expired <=> history[i] >= RestartWindow
    BY <1>1 DEF Expired
  <1>4. IsFiniteSet(1 .. Len(history)) /\ Cardinality(1 .. Len(history)) = Len(history)
    BY <1>1, FS_Interval
  <1>5. IsFiniteSet(Expired) /\ Cardinality(Expired) <= Len(history) BY <1>3, <1>4, FS_Subset
  <1> DEFINE n == Cardinality(Expired)
  <1>6. n \in Nat /\ n \in 0 .. Len(history) BY <1>1, <1>5, FS_CardinalityType
  <1>7. ASSUME NEW i \in 1 .. Len(history), i \in Expired PROVE i <= n
    <2>1. 1 .. i \subseteq Expired
      <3> SUFFICES ASSUME NEW j \in 1 .. i PROVE j \in Expired OBVIOUS
      <3>1. j \in 1 .. Len(history) /\ j <= i BY <1>1
      <3>2. history[j] >= history[i] BY <1>1, <3>1 DEF InOrder
      <3>3. history[i] >= RestartWindow BY <1>3, <1>7
      <3> QED BY <1>2, <1>3, <3>1, <3>2, <3>3, BoundsAreNat
    <2>2. Cardinality(1 .. i) = i /\ i \in Nat BY <1>1, FS_Interval
    <2>3. Cardinality(1 .. i) <= n BY <1>5, <2>1, FS_Subset
    <2> QED BY <2>2, <2>3
  <1>8. ASSUME NEW i \in 1 .. Len(history), i \notin Expired PROVE n < i
    <2>1. Expired \subseteq 1 .. i - 1
      <3> SUFFICES ASSUME NEW j \in Expired, ~(j < i) PROVE FALSE BY <1>1, <1>3
      <3>1. j \in 1 .. Len(history) /\ i <= j BY <1>1, <1>3
      <3>2. history[i] >= history[j] BY <1>1, <3>1 DEF InOrder
      <3>3. history[j] >= RestartWindow BY <1>3, <3>1
      <3> QED BY <1>2, <1>3, <1>8, <3>1, <3>2, <3>3, BoundsAreNat
    <2>2. IsFiniteSet(1 .. i - 1) /\ Cardinality(1 .. i - 1) = i - 1
      <3>1. i \in Nat /\ i - 1 \in Int /\ i >= 1 BY <1>1
      <3>2. CASE i = 1 BY <3>1, <3>2, FS_Interval
      <3>3. CASE i > 1 BY <3>1, <3>3, FS_Interval
      <3> QED BY <3>1, <3>2, <3>3
    <2>3. n <= i - 1 BY <2>1, <2>2, FS_Subset
    <2> QED BY <1>1, <1>6, <2>3
  <1>9. Pruned = SubSeq(history, n + 1, Len(history)) BY DEF Pruned
  <1> HIDE DEF n
  <1>10. /\ Pruned \in Seq(0 .. RestartWindow) /\ Len(Pruned) = Len(history) - n
         /\ \A i \in 1 .. Len(history) - n : Pruned[i] = history[n + i]
    <2>1. \A i \in n + 1 .. Len(history) : history[i] \in 0 .. RestartWindow
      <3>1. \A i \in 1 .. Len(history) : history[i] \in 0 .. RestartWindow BY <1>1, ElementOfSeq
      <3>2. n + 1 .. Len(history) \subseteq 1 .. Len(history) BY <1>1, <1>6
      <3> QED BY <3>1, <3>2
    <2>2. n + 1 \in Int /\ Len(history) \in Int BY <1>1, <1>6
    <2>3. /\ Pruned \in Seq(0 .. RestartWindow)
          /\ Len(Pruned) = IF n + 1 <= Len(history) THEN Len(history) - (n + 1) + 1 ELSE 0
          /\ \A i \in 1 .. Len(history) - (n + 1) + 1 : Pruned[i] = history[(n + 1) + i - 1]
      BY <1>9, <2>1, <2>2, SubSeqProperties
    <2>4. Len(history) - (n + 1) + 1 = Len(history) - n /\ \A i \in 1 .. Len(history) - n : (n + 1) + i - 1 = n + i
      BY <1>1, <1>6
    <2>5. Len(Pruned) = Len(history) - n
      <3>1. CASE n + 1 <= Len(history) BY <1>1, <1>6, <2>3, <2>4, <3>1
      <3>2. CASE ~(n + 1 <= Len(history))
        <4> DEFINE l == Len(history)
        <4>2. l \in Nat /\ n \in 0 .. l /\ n \in Nat /\ ~(n + 1 <= l) BY <1>1, <1>6, <3>2
        <4> HIDE DEF l
        <4>3. n = l /\ l - n = 0 BY <4>2
        <4>1. n = Len(history) /\ Len(history) - n = 0 BY <4>3 DEF l
        <4> QED BY <2>3, <3>2, <4>1
      <3> QED BY <3>1, <3>2
    <2>6. ASSUME NEW i \in 1 .. Len(history) - n PROVE Pruned[i] = history[n + i]
      <3>1. Pruned[i] = history[(n + 1) + i - 1] BY <2>3, <2>4
      <3> QED BY <2>4, <3>1
    <2> QED BY <2>3, <2>5, <2>6
  <1>11. \A i \in 1 .. n : history[i] >= RestartWindow
    BY <1>1, <1>3, <1>6, <1>8
  <1>12. \A i \in n + 1 .. Len(history) : history[i] < RestartWindow
    BY <1>1, <1>2, <1>3, <1>6, <1>7, BoundsAreNat
  <1> QED BY <1>6, <1>10, <1>11, <1>12 DEF Ages

\* TypeOK without the two lists of attempts.
EpochTypes ==
    /\ mpc \in {"sleep", "restart", "respawn", "publish", "status", "drain", "returned"}
    /\ due \in BOOLEAN
    /\ spawned \in Epochs /\ hyper \in Epochs /\ new \in Epochs
    /\ file \in Epochs /\ status \in Epochs
    /\ alive \subseteq 1 .. spawned
    /\ orphans \subseteq 1 .. spawned
    /\ reports \subseteq 0 .. spawned
    /\ cpc \in [Clients -> {"idle", "ask", "local", "connect", "connected", "report"}]
    /\ used \in [Clients -> Epochs]
    /\ session \in [Clients -> 0 .. spawned]

LEMMA EpochTypesKept == ASSUME EpochTypes, [Next]_vars PROVE EpochTypes'
  <1> USE BoundsAreNat DEF EpochTypes, Epochs, EndpointOf, clients
  <1>1. CASE PollElapses BY <1>1 DEF PollElapses
  <1>2. CASE Poll BY <1>2 DEF Poll
  <1>3. CASE RecordAttempt
    <2>1. /\ mpc' \in {"returned", "respawn"} /\ hyper' \in {hyper, 0} /\ alive' \subseteq alive
          /\ UNCHANGED <<due, new, spawned, file, status, reports, cpc, used, session, orphans>>
      <3>1. CASE Len(Pruned) >= RestartLimit BY <1>3, <3>1 DEF RecordAttempt
      <3>2. CASE ~(Len(Pruned) >= RestartLimit) BY <1>3, <3>2 DEF RecordAttempt
      <3> QED BY <3>1, <3>2
    <2> QED BY <2>1
  <1>4. CASE Respawn BY <1>4 DEF Respawn
  <1>5. CASE RespawnFails BY <1>5 DEF RespawnFails
  <1>6. CASE RespawnTimesOut
    <2>1. CASE UNCHANGED <<spawned, alive, orphans>> BY <1>6, <2>1 DEF RespawnTimesOut
    <2>2. CASE /\ spawned < MaxEpoch /\ spawned' = spawned + 1
               /\ alive' = alive \cup {spawned + 1} /\ orphans' = orphans \cup {spawned + 1}
      BY <1>6, <2>2 DEF RespawnTimesOut
    <2> QED BY <1>6, <2>1, <2>2 DEF RespawnTimesOut
  <1>7. CASE WriteFile BY <1>7 DEF WriteFile
  <1>8. CASE WriteFileFails BY <1>8 DEF WriteFileFails
  <1>9. CASE UpdateStatus BY <1>9 DEF UpdateStatus
  <1>10. CASE Drain BY <1>10 DEF Drain
  <1>11. CASE ShutdownSeen BY <1>11 DEF ShutdownSeen
  <1>12. ASSUME NEW e \in 1 .. MaxEpoch, HyperdDies(e) PROVE EpochTypes'
    BY <1>12 DEF HyperdDies, monitor
  <1>13. ASSUME NEW c \in Clients, ClientStep(c) PROVE EpochTypes'
    <2>1. CASE ReadRecord(c) BY <2>1 DEF ReadRecord, CGoto, monitor
    <2>2. CASE AskStatus(c) BY <2>2 DEF AskStatus, CGoto, monitor
    <2>3. CASE Connect(c) BY <2>3 DEF Connect, CGoto, monitor
    <2>4. CASE ConnectionLost(c) BY <2>4 DEF ConnectionLost, CGoto, monitor
    <2>5. CASE Report(c)
      <3>1. session[c] \in 0 .. spawned /\ 0 \in 0 .. spawned OBVIOUS
      <3>2. reports' \subseteq 0 .. spawned BY <2>5, <3>1 DEF Report
      <3>3. session' \in [Clients -> 0 .. spawned] BY <2>5, <3>1 DEF Report
      <3>4. cpc' \in [Clients -> {"idle", "ask", "local", "connect", "connected", "report"}]
        BY <2>5 DEF Report, CGoto
      <3>5. UNCHANGED <<mpc, due, hyper, new, spawned, alive, orphans, file, status, used>> BY <2>5 DEF Report, monitor
      <3> QED BY <3>2, <3>3, <3>4, <3>5
    <2> QED BY <1>13, <2>1, <2>2, <2>3, <2>4, <2>5 DEF ClientStep
  <1>14. CASE Stopped \/ UNCHANGED vars BY <1>14 DEF Stopped, vars, monitor
  <1> QED BY <1>1, <1>2, <1>3, <1>4, <1>5, <1>6, <1>7, <1>8, <1>9, <1>10, <1>11, <1>12, <1>13, <1>14
          DEF Next, MonitorStep

LEMMA RatePasses ==
  ASSUME RateInv, NEW n \in Nat, history' = Older(history, n), recent' = Older(recent, n)
  PROVE  RateInv'
  <1>1. /\ history' \in Ages /\ recent' \in Ages /\ Len(history') = Len(history) /\ Len(recent') = Len(recent)
        /\ Len(history) \in Nat /\ Len(recent) \in Nat
    BY OlderKeeps DEF RateInv, Ages
  <1>2. \A i \in 1 .. Len(history) : history'[i] = IF history[i] + n < RestartWindow THEN history[i] + n ELSE RestartWindow
    BY OlderKeeps DEF RateInv
  <1>3. \A i \in 1 .. Len(recent) : /\ recent'[i] = IF recent[i] + n < RestartWindow THEN recent[i] + n ELSE RestartWindow
                                    /\ recent[i] \in Nat
    BY OlderKeeps DEF RateInv
  <1>4. InOrder(recent)'
    <2> SUFFICES ASSUME NEW i \in 1 .. Len(recent), NEW j \in 1 .. Len(recent), i <= j PROVE recent'[i] >= recent'[j]
      BY <1>1 DEF InOrder
    <2>1. recent[i] >= recent[j] BY DEF RateInv, InOrder
    <2> QED BY <1>3, <2>1, BoundsAreNat
  <1>5. \A i \in 1 .. Len(history') : history'[i] = recent'[Len(recent') - Len(history') + i]
    <2> SUFFICES ASSUME NEW i \in 1 .. Len(history) PROVE history'[i] = recent'[Len(recent) - Len(history) + i]
      BY <1>1
    <2> DEFINE k == Len(recent) - Len(history) + i
    <2>1. history[i] = recent[k] /\ k \in 1 .. Len(recent) BY <1>1 DEF RateInv
    <2> HIDE DEF k
    <2>2. history'[i] = recent'[k] BY <1>2, <1>3, <2>1
    <2> QED BY <2>2 DEF k
  <1>6. \A i \in 1 .. Len(recent') - Len(history') : recent'[i] >= RestartWindow
    <2> SUFFICES ASSUME NEW i \in 1 .. Len(recent) - Len(history) PROVE recent'[i] >= RestartWindow
      BY <1>1
    <2>1. recent[i] >= RestartWindow /\ i \in 1 .. Len(recent) BY <1>1 DEF RateInv
    <2> QED BY <1>3, <2>1, BoundsAreNat
  <1> QED BY <1>1, <1>4, <1>5, <1>6 DEF RateInv

\* An attempt that is made, and one that is not.
LEMMA RateRecords ==
  ASSUME RateInv, RecordAttempt
  PROVE  /\ RateInv'
         /\ mpc' = "respawn" /\ Len(recent) = RestartLimit => recent[1] >= RestartWindow
  <1> DEFINE h == Len(history)
             r == Len(recent)
  <1>1. /\ history \in Ages /\ recent \in Ages /\ h \in Nat /\ r \in Nat /\ h <= r /\ r <= RestartLimit
        /\ \A i \in 1 .. h : history[i] = recent[r - h + i]
        /\ \A i \in 1 .. r - h : recent[i] >= RestartWindow
        /\ \A i, j \in 1 .. r : i <= j => recent[i] >= recent[j]
    BY DEF RateInv, Ages, InOrder
  <1>2. InOrder(history)
    <2> SUFFICES ASSUME NEW i \in 1 .. h, NEW j \in 1 .. h, i <= j PROVE history[i] >= history[j] BY DEF InOrder
    <2>1. r - h + i \in 1 .. r /\ r - h + j \in 1 .. r /\ r - h + i <= r - h + j BY <1>1
    <2> HIDE DEF h, r
    <2>2. recent[r - h + i] >= recent[r - h + j] BY <1>1, <2>1
    <2> QED BY <1>1, <2>2
  <1>3. PICK n \in 0 .. h :
            /\ Pruned \in Ages /\ Len(Pruned) = h - n
            /\ \A i \in 1 .. h - n : Pruned[i] = history[n + i]
            /\ \A i \in 1 .. n : history[i] >= RestartWindow
    BY <1>1, <1>2, PrunedIsTheEnd
  <1> HIDE DEF h, r
  \* What is left of the history is the end of the attempts, the rest is out of the window.
  <1>4. \A i \in 1 .. h - n : Pruned[i] = recent[r - (h - n) + i]
    <2> SUFFICES ASSUME NEW i \in 1 .. h - n PROVE Pruned[i] = recent[r - (h - n) + i] OBVIOUS
    <2>1. n + i \in 1 .. h /\ r - h + (n + i) = r - (h - n) + i BY <1>1
    <2>2. Pruned[i] = history[n + i] /\ history[n + i] = recent[r - h + (n + i)] BY <1>1, <1>3, <2>1
    <2> QED BY <2>1, <2>2
  <1>5. \A i \in 1 .. r - (h - n) : recent[i] >= RestartWindow
    <2> SUFFICES ASSUME NEW i \in 1 .. r - (h - n) PROVE recent[i] >= RestartWindow OBVIOUS
    <2>1. CASE i <= r - h BY <1>1, <2>1
    <2>2. CASE i > r - h
      <3>1. i - (r - h) \in 1 .. n /\ i - (r - h) \in 1 .. h /\ r - h + (i - (r - h)) = i BY <1>1, <2>2
      <3>2. history[i - (r - h)] >= RestartWindow /\ history[i - (r - h)] = recent[r - h + (i - (r - h))]
        BY <1>1, <1>3, <3>1
      <3> QED BY <3>1, <3>2
    <2> QED BY <1>1, <2>1, <2>2
  <1>6. CASE Len(Pruned) >= RestartLimit
    <2>1. history' = Pruned /\ recent' = recent /\ mpc' = "returned" BY <1>6 DEF RecordAttempt
    <2>2. Len(history') = h - n /\ Len(recent') = r BY <1>3, <2>1 DEF r
    <2>3. /\ history' \in Ages /\ recent' \in Ages /\ Len(recent') <= RestartLimit /\ Len(history') <= Len(recent')
      BY <1>1, <1>3, <2>1, <2>2
    <2>4. InOrder(recent)' BY <1>1, <2>1, <2>2 DEF InOrder
    <2>5. \A i \in 1 .. Len(history') : history'[i] = recent'[Len(recent') - Len(history') + i] BY <1>4, <2>1, <2>2
    <2>6. \A i \in 1 .. Len(recent') - Len(history') : recent'[i] >= RestartWindow BY <1>5, <2>1, <2>2
    <2>7. RateInv' BY <2>3, <2>4, <2>5, <2>6 DEF RateInv
    <2> QED BY <2>1, <2>7
  <1>7. CASE ~(Len(Pruned) >= RestartLimit)
    <2> DEFINE base == IF r = RestartLimit THEN Tail(recent) ELSE recent
               d == IF r = RestartLimit THEN 1 ELSE 0
    <2>1. history' = Append(Pruned, 0) /\ recent' = base \o <<0>> BY <1>7 DEF RecordAttempt, r
    <2>2. h - n < RestartLimit BY <1>1, <1>3, <1>7, BoundsAreNat
    <2>3. r = RestartLimit => r - (h - n) >= 1 BY <1>1, <2>2, BoundsAreNat
    <2>4. recent \in Seq(0 .. RestartWindow) /\ Pruned \in Seq(0 .. RestartWindow) /\ 0 \in 0 .. RestartWindow
      BY <1>1, <1>3, BoundsAreNat DEF Ages
    <2>5. /\ base \in Seq(0 .. RestartWindow) /\ Len(base) = r - d
          /\ \A i \in 1 .. r - d : base[i] = recent[i + d]
      <3>1. CASE r = RestartLimit
        <4>1. recent # <<>> BY <3>1, <2>4, EmptySeq, BoundsAreNat DEF r
        <4>2. /\ Tail(recent) \in Seq(0 .. RestartWindow) /\ Len(Tail(recent)) = r - 1
              /\ \A i \in 1 .. Len(Tail(recent)) : Tail(recent)[i] = recent[i + 1]
          BY <2>4, <4>1, HeadTailProperties DEF r
        <4> QED BY <3>1, <4>2
      <3>2. CASE r # RestartLimit BY <1>1, <2>4, <3>2 DEF r
      <3> QED BY <3>1, <3>2
    <2>6. d \in {0, 1} /\ d <= r /\ r - d + 1 <= RestartLimit /\ h - n <= r - d
      BY <1>1, <2>2, <2>3, BoundsAreNat
    <2> HIDE DEF base, d
    <2>7. /\ recent' \in Seq(0 .. RestartWindow) /\ Len(recent') = r - d + 1
          /\ \A i \in 1 .. r - d : recent'[i] = recent[i + d]
          /\ recent'[r - d + 1] = 0
      BY <1>1, <2>1, <2>4, <2>5, <2>6, AppendIsConcat, AppendProperties
    <2>8. /\ history' \in Seq(0 .. RestartWindow) /\ Len(history') = h - n + 1
          /\ \A i \in 1 .. h - n : history'[i] = Pruned[i]
          /\ history'[h - n + 1] = 0
      BY <1>1, <1>3, <2>1, <2>4, AppendProperties
    <2>9. \A i \in 1 .. r : recent[i] \in Nat BY <2>4, ElementOfSeq, BoundsAreNat DEF r
    <2>10. InOrder(recent)'
      <3> SUFFICES ASSUME NEW i \in 1 .. r - d + 1, NEW j \in 1 .. r - d + 1, i <= j PROVE recent'[i] >= recent'[j]
        BY <2>7 DEF InOrder
      <3>1. CASE j = r - d + 1
        <4>1. recent'[i] \in 0 .. RestartWindow BY <1>1, <2>6, <2>7, ElementOfSeq
        <4> QED BY <2>7, <3>1, <4>1, BoundsAreNat
      <3>2. CASE j # r - d + 1
        <4>1. i \in 1 .. r - d /\ j \in 1 .. r - d /\ i + d \in 1 .. r /\ j + d \in 1 .. r /\ i + d <= j + d
          BY <1>1, <2>6, <3>2
        <4> QED BY <1>1, <2>7, <4>1
      <3> QED BY <3>1, <3>2
    <2>11. ASSUME NEW i \in 1 .. h - n + 1 PROVE history'[i] = recent'[(r - d + 1) - (h - n + 1) + i]
      <3>1. CASE i = h - n + 1
        <4>1. (r - d + 1) - (h - n + 1) + i = r - d + 1 BY <1>1, <2>6, <3>1
        <4> QED BY <2>7, <2>8, <3>1, <4>1
      <3>2. CASE i # h - n + 1
        <4>1. i \in 1 .. h - n BY <1>1, <3>2
        <4> DEFINE k == (r - d + 1) - (h - n + 1) + i
        <4>2. k \in 1 .. r - d /\ k + d = r - (h - n) + i BY <1>1, <2>6, <4>1
        <4>3. history'[i] = recent[r - (h - n) + i] BY <1>4, <2>8, <4>1
        <4> HIDE DEF k
        <4>4. recent'[k] = recent[k + d] BY <2>7, <4>2
        <4>5. history'[i] = recent'[k] BY <4>2, <4>3, <4>4
        <4> QED BY <4>5 DEF k
      <3> QED BY <3>1, <3>2
    <2>12. ASSUME NEW i \in 1 .. (r - d + 1) - (h - n + 1) PROVE recent'[i] >= RestartWindow
      <3>1. i \in 1 .. r - d /\ i + d \in 1 .. r - (h - n) BY <1>1, <2>6
      <3> QED BY <1>5, <2>7, <3>1
    <2>13. RateInv' BY <1>1, <2>6, <2>7, <2>8, <2>10, <2>11, <2>12 DEF RateInv, Ages
    <2>14. r = RestartLimit => recent[1] >= RestartWindow BY <1>1, <1>5, <2>3
    <2> QED BY <2>13, <2>14 DEF r
  <1> QED BY <1>6, <1>7

LEMMA RateKeeps ==
  ASSUME RateInv, EpochTypes, [Next]_vars
  PROVE  /\ RateInv'
         /\ mpc = "restart" /\ mpc' = "respawn" /\ Len(recent) = RestartLimit => recent[1] >= RestartWindow
  <1>1. CASE PollElapses
    <2>1. RateInv' BY <1>1, RatePasses DEF PollElapses
    <2> QED BY <1>1, <2>1 DEF PollElapses
  <1>2. CASE RespawnTimesOut
    <2>1. RateInv' BY <1>2, RatePasses, BoundsAreNat DEF RespawnTimesOut
    <2> QED BY <1>2, <2>1 DEF RespawnTimesOut
  <1>3. CASE RecordAttempt BY <1>3, RateRecords
  <1>4. ASSUME UNCHANGED <<history, recent>>, ~(mpc = "restart" /\ mpc' = "respawn")
        PROVE  /\ RateInv'
               /\ mpc = "restart" /\ mpc' = "respawn" /\ Len(recent) = RestartLimit => recent[1] >= RestartWindow
    BY <1>4 DEF RateInv, InOrder
  <1>5. CASE Poll BY <1>4, <1>5 DEF Poll
  <1>6. CASE Respawn \/ RespawnFails BY <1>4, <1>6 DEF Respawn, RespawnFails
  <1>7. CASE WriteFile \/ WriteFileFails BY <1>4, <1>7 DEF WriteFile, WriteFileFails
  <1>8. CASE UpdateStatus \/ Drain \/ ShutdownSeen BY <1>4, <1>8 DEF UpdateStatus, Drain, ShutdownSeen
  <1>9. ASSUME NEW e \in 1 .. MaxEpoch, HyperdDies(e) PROVE UNCHANGED <<history, recent, mpc>>
    BY <1>9 DEF HyperdDies, monitor
  <1>10. ASSUME NEW c \in Clients, ClientStep(c) PROVE UNCHANGED <<history, recent, mpc>>
    BY <1>10 DEF ClientStep, ReadRecord, AskStatus, Connect, ConnectionLost, Report, monitor
  <1>11. CASE Stopped \/ UNCHANGED vars BY <1>4, <1>11 DEF Stopped, vars, monitor
  <1> QED BY <1>1, <1>2, <1>3, <1>4, <1>5, <1>6, <1>7, <1>8, <1>9, <1>10, <1>11 DEF Next, MonitorStep

LEMMA RateTypes == ASSUME RateInv, EpochTypes PROVE TypeOK
  <1>1. Len(history) <= RestartLimit BY BoundsAreNat DEF RateInv, Ages
  <1> QED BY <1>1 DEF RateInv, EpochTypes, TypeOK

LEMMA RateStarts == Init => RateInv /\ EpochTypes
  <1> SUFFICES ASSUME Init PROVE RateInv /\ EpochTypes OBVIOUS
  <1>1. EpochTypes
    <2>1. 1 \in Epochs /\ 0 \in Epochs /\ 1 \in 1 .. 1 /\ 0 \in 0 .. 1 BY BoundsAreNat DEF Epochs
    <2>2. /\ cpc \in [Clients -> {"idle", "ask", "local", "connect", "connected", "report"}]
          /\ used \in [Clients -> Epochs] /\ session \in [Clients -> 0 .. 1]
      BY <2>1 DEF Init
    <2>3. spawned = 1 /\ alive \subseteq 1 .. spawned /\ orphans = {} /\ reports = {} BY <2>1 DEF Init
    <2> QED BY <2>1, <2>2, <2>3 DEF Init, EpochTypes, EndpointOf
  <1>2. history = <<>> /\ recent = <<>> BY DEF Init
  <1>3. <<>> \in Ages /\ Len(<<>>) = 0 BY EmptySeq DEF Ages
  <1>4. RateInv BY <1>2, <1>3, BoundsAreNat DEF RateInv, InOrder
  <1> QED BY <1>1, <1>4

\* No more than RESTART_LIMIT restarts are attempted within RESTART_WINDOW
\* (run.rs:287), for any limit and window, however long a start takes to fail.
THEOREM RestartsStayRateLimited == Spec => RestartsAreRateLimited
  <1>1. Init => RateInv /\ EpochTypes BY RateStarts
  <1>2. RateInv /\ EpochTypes /\ [Next]_vars => (RateInv /\ EpochTypes)' BY RateKeeps, EpochTypesKept
  <1>3. RateInv /\ EpochTypes => TypeOK BY RateTypes
  <1>4. RateInv /\ EpochTypes /\ [Next]_vars
          => [mpc = "restart" /\ mpc' = "respawn" /\ Len(recent) = RestartLimit => recent[1] >= RestartWindow]_vars
    BY RateKeeps
  <1> QED BY <1>1, <1>2, <1>3, <1>4, PTL DEF Spec, RestartsAreRateLimited

-----------------------------------------------------------------------------
(* The state directory                                                     *)

FileType == [shape : {"none", "garbage", "empty", "torn", "current", "legacy"}, private : BOOLEAN]
DiskType == [record : FileType, temp : FileType, sock : {"none", "dead", "file"} \cup Daemons,
             os : {"unix", "windows"}]
Holders == {"none", "old", "foreign", "other"}
PortType == [holder : Holders, started : BOOLEAN, leaving : BOOLEAN, stopped : SUBSET Holders, moved : BOOLEAN]
PipeType == [listening : {0, 1}, pending : {0, 1}, streams : Nat, opened : Nat, notFound : BOOLEAN]
IoType == [pc : {"idle", "pending", "cancelling", "done"}, moved : BOOLEAN, said : {"", "bytes", "timeout"}]

\* The client's places while it holds the daemon lock, and a daemon's.
UnderLock == {"ping", "status", "stop", "wait", "remove", "clean", "ready", "refused"}
ClientType == [pc : UnderLock \cup {"idle", "spawned", "local"}, found : BOOLEAN, late : BOOLEAN]
Listening == {"bound", "started", "create", "restrict", "write", "torn", "rename", "serving", "closing"}
Active == Listening \cup {"locked", "reclaim", "bind", "failed"}
DaemonPlaces == Active \cup {"new", "gone", "killed"}

StateTypes ==
    /\ disk \in DiskType
    /\ port \in PortType
    /\ daemon \in [Daemons -> DaemonPlaces]
    /\ client \in ClientType
    /\ dlock \in {"free", "client"} \cup Daemons
    /\ pipe \in PipeType
    /\ io \in IoType

\* Who is at work in the directory holds the lock, so there is one at a time.
LockHeld ==
    /\ \A d \in Daemons : dlock = d <=> daemon[d] \in Active
    /\ dlock = "client" <=> client.pc \in UnderLock

\* The temporary file is private before it has contents and whole before it
\* becomes the record.
FilesKept ==
    /\ disk.record.shape \notin {"empty", "torn"}
    /\ \A d \in Daemons :
          /\ daemon[d] \in {"write", "torn", "rename"} => disk.temp.private
          /\ daemon[d] = "rename" => disk.temp.shape = "current"
          /\ daemon[d] = "serving" /\ disk.record.shape = "current" => disk.record.private

\* The endpoint is there from the bind to the drop of the listener; of the
\* pipe's instances one is always free to be opened or about to be accepted.
EndpointKept ==
    /\ ~pipe.notFound
    /\ \A d \in Daemons :
          /\ daemon[d] = "bind" => disk.os = "unix"
          /\ daemon[d] \in Listening =>
                IF disk.os = "unix" THEN disk.sock = d ELSE pipe.listening + pipe.pending = 1

\* Who can be behind the recorded port at each step of the retirement.
RetireKept ==
    /\ client.pc \in {"remove", "clean", "ready"} /\ client.found /\ ~client.late => port.holder # "old"
    /\ client.pc \in {"clean", "ready"} /\ client.found /\ ~client.late => disk.record.shape # "legacy"
    /\ client.pc \in {"idle", "ping", "status", "stop"} => port.stopped = {}
    /\ client.pc = "stop" /\ ~port.moved => port.holder = "old"
    /\ client.pc = "wait" /\ ~port.moved => port.stopped \subseteq {"old"}

IoKept == io.said = "timeout" => ~io.moved /\ io.pc = "done"

StateInv == StateTypes /\ LockHeld /\ FilesKept /\ EndpointKept /\ RetireKept /\ IoKept

-----------------------------------------------------------------------------
LEMMA NoFileType ==
  /\ NoFile \in FileType /\ NoFile.shape = "none" /\ NoFile.private
  /\ \A shape \in {"none", "garbage", "empty", "torn", "current", "legacy"}, private \in BOOLEAN :
        File(shape, private) \in FileType /\ File(shape, private).shape = shape /\ File(shape, private).private = private
  BY DEF NoFile, File, FileType

LEMMA DiskChanges ==
  ASSUME disk \in DiskType, NEW f \in FileType
  PROVE  /\ [disk EXCEPT !.record = f] \in DiskType
         /\ [disk EXCEPT !.record = f].record = f
         /\ [disk EXCEPT !.record = f].temp = disk.temp
         /\ [disk EXCEPT !.record = f].sock = disk.sock
         /\ [disk EXCEPT !.record = f].os = disk.os
         /\ [disk EXCEPT !.temp = f] \in DiskType
         /\ [disk EXCEPT !.temp = f].temp = f
         /\ [disk EXCEPT !.temp = f].record = disk.record
         /\ [disk EXCEPT !.temp = f].sock = disk.sock
         /\ [disk EXCEPT !.temp = f].os = disk.os
  BY DEF DiskType

LEMMA SocketChanges ==
  ASSUME disk \in DiskType, NEW s \in {"none", "dead", "file"} \cup Daemons
  PROVE  /\ [disk EXCEPT !.sock = s] \in DiskType
         /\ [disk EXCEPT !.sock = s].sock = s
         /\ [disk EXCEPT !.sock = s].record = disk.record
         /\ [disk EXCEPT !.sock = s].temp = disk.temp
         /\ [disk EXCEPT !.sock = s].os = disk.os
  BY DEF DiskType

-----------------------------------------------------------------------------
(* A daemon                                                                *)

\* A step of the daemon that holds the lock: what the step has to establish
\* about that daemon; no other is at work.
LEMMA DaemonKeeps ==
  ASSUME StateInv, NEW d \in Daemons, NEW place \in DaemonPlaces, daemon[d] \in Active,
         GoesTo(d, place), UNCHANGED <<port, client, io>>,
         IF place \in Active THEN UNCHANGED dlock ELSE dlock' = "free",
         disk' \in DiskType, disk'.os = disk.os, pipe' \in PipeType, ~pipe'.notFound,
         disk'.record.shape \notin {"empty", "torn"},
         place \in {"write", "torn", "rename"} => disk'.temp.private,
         place = "rename" => disk'.temp.shape = "current",
         place = "serving" /\ disk'.record.shape = "current" => disk'.record.private,
         place = "bind" => disk.os = "unix",
         place \in Listening => IF disk.os = "unix" THEN disk'.sock = d ELSE pipe'.listening + pipe'.pending = 1
  PROVE  StateInv'
  <1>1. daemon \in [Daemons -> DaemonPlaces] /\ daemon' = [daemon EXCEPT ![d] = place] /\ dlock = d
    BY DEF GoesTo, StateInv, StateTypes, LockHeld
  <1>2. \A e \in Daemons : e # d => daemon'[e] = daemon[e] /\ daemon[e] \notin Active
    BY <1>1 DEF StateInv, LockHeld
  <1>3. daemon'[d] = place /\ daemon' \in [Daemons -> DaemonPlaces]
    BY <1>1
  <1>4. d # "client" /\ d # "free" BY DaemonsAssumption
  <1>5. client.pc \notin UnderLock BY <1>1, <1>4 DEF StateInv, LockHeld
  <1>6. StateTypes' BY <1>1, <1>3 DEF StateInv, StateTypes
  <1>7. LockHeld'
    <2>1. CASE place \in Active BY <1>1, <1>2, <1>3, <2>1 DEF StateInv, LockHeld
    <2>2. CASE place \notin Active
      <3>1. dlock' = "free" /\ \A e \in Daemons : e # "free" BY <2>2, DaemonsAssumption
      <3>2. \A e \in Daemons : daemon'[e] \notin Active BY <1>2, <1>3, <2>2
      <3> QED BY <1>5, <3>1, <3>2 DEF LockHeld
    <2> QED BY <2>1, <2>2
  <1>8. FilesKept' BY <1>2, <1>3 DEF FilesKept, Active, Listening
  <1>9. EndpointKept' BY <1>2, <1>3 DEF EndpointKept, Active, Listening
  <1>10. RetireKept' BY <1>5 DEF StateInv, RetireKept, UnderLock
  <1>11. IoKept' BY DEF StateInv, IoKept
  <1> QED BY <1>6, <1>7, <1>8, <1>9, <1>10, <1>11 DEF StateInv

\* What the invariant says of the daemon that takes the step.
LEMMA DaemonHas ==
  ASSUME StateInv, NEW d \in Daemons
  PROVE  /\ disk \in DiskType /\ pipe \in PipeType /\ ~pipe.notFound
         /\ disk.record \in FileType /\ disk.temp \in FileType /\ disk.record.shape \notin {"empty", "torn"}
         /\ daemon[d] \in {"write", "torn", "rename"} => disk.temp.private
         /\ daemon[d] = "rename" => disk.temp.shape = "current"
         /\ daemon[d] = "bind" => disk.os = "unix"
         /\ daemon[d] \in Listening => IF disk.os = "unix" THEN disk.sock = d ELSE pipe.listening + pipe.pending = 1
  BY DEF StateInv, StateTypes, DiskType, FilesKept, EndpointKept

LEMMA AcquireLockKeeps ==
  ASSUME StateInv, NEW d \in Daemons, AcquireLock(d)
  PROVE  StateInv'
  <1>1. /\ UNCHANGED <<disk, port, client, pipe, io>> /\ daemon' = [daemon EXCEPT ![d] = "locked"]
        /\ daemon \in [Daemons -> DaemonPlaces] /\ dlock = "free" /\ dlock' = d
    BY DEF AcquireLock, GoesTo, StateInv, StateTypes
  <1>2. \A e \in Daemons : e # "free" /\ e # "client" BY DaemonsAssumption
  <1>3. \A e \in Daemons : daemon[e] \notin Active BY <1>1, <1>2 DEF StateInv, LockHeld
  <1>4. daemon'[d] = "locked" /\ \A e \in Daemons : e # d => daemon'[e] = daemon[e] BY <1>1
  <1>5. "locked" \in Active /\ "locked" \notin Listening /\ "locked" \in DaemonPlaces BY DEF Active, Listening, DaemonPlaces
  <1>6. StateTypes' BY <1>1, <1>5 DEF StateInv, StateTypes
  <1>7. LockHeld' BY <1>1, <1>2, <1>3, <1>4, <1>5 DEF StateInv, LockHeld
  <1>8. FilesKept' BY <1>1, <1>3, <1>4 DEF StateInv, FilesKept, Active, Listening
  <1>9. EndpointKept' BY <1>1, <1>3, <1>4, <1>5 DEF StateInv, EndpointKept, Active
  <1>10. RetireKept' BY <1>1 DEF StateInv, RetireKept
  <1>11. IoKept' BY <1>1 DEF StateInv, IoKept
  <1> QED BY <1>6, <1>7, <1>8, <1>9, <1>10, <1>11 DEF StateInv

LEMMA EnsureOwnerOnlyDirKeeps ==
  ASSUME StateInv, NEW d \in Daemons, EnsureOwnerOnlyDir(d)
  PROVE  StateInv'
  <1>1. PICK allowed \in BOOLEAN :
           disk' = [disk EXCEPT !.record = RestrictExisting(@, allowed), !.temp = RestrictExisting(@, allowed)]
    BY DEF EnsureOwnerOnlyDir
  <1>2. \A f \in FileType : RestrictExisting(f, allowed) \in FileType /\ RestrictExisting(f, allowed).shape = f.shape
    BY DEF RestrictExisting, FileType
  <1>3. disk' \in DiskType /\ disk'.os = disk.os /\ disk'.record.shape = disk.record.shape
    BY <1>1, <1>2, DaemonHas DEF DiskType
  <1>4. /\ daemon[d] \in Active /\ GoesTo(d, "reclaim") /\ UNCHANGED <<port, client, dlock, pipe, io>>
        /\ "reclaim" \in DaemonPlaces /\ "reclaim" \in Active /\ "reclaim" \notin Listening
    BY DEF EnsureOwnerOnlyDir, IsAt, Active, Listening, DaemonPlaces
  <1> QED BY <1>3, <1>4, DaemonHas, DaemonKeeps

LEMMA ReclaimStaleSocketKeeps ==
  ASSUME StateInv, NEW d \in Daemons, ReclaimStaleSocket(d)
  PROVE  StateInv'
  <1>1. /\ daemon[d] \in Active /\ disk.os = "unix" /\ UNCHANGED <<port, client, dlock, pipe, io>>
        /\ \A place \in {"failed", "bind"} : place \in DaemonPlaces /\ place \in Active /\ place \notin Listening
    BY DEF ReclaimStaleSocket, IsAt, Active, Listening, DaemonPlaces
  <1>2. CASE GoesTo(d, "failed") /\ UNCHANGED disk
    BY <1>1, <1>2, DaemonHas, DaemonKeeps
  <1>3. CASE GoesTo(d, "bind") /\ disk' = [disk EXCEPT !.sock = "none"]
    <2>1. disk' \in DiskType /\ disk'.record = disk.record /\ disk'.os = disk.os BY <1>3, SocketChanges, DaemonHas
    <2> QED BY <1>1, <1>3, <2>1, DaemonHas, DaemonKeeps
  <1> QED BY <1>2, <1>3 DEF ReclaimStaleSocket

LEMMA BindSocketKeeps ==
  ASSUME StateInv, NEW d \in Daemons, BindSocket(d)
  PROVE  StateInv'
  <1>1. /\ daemon[d] = "bind" /\ daemon[d] \in Active /\ UNCHANGED <<port, client, dlock, pipe, io>>
        /\ GoesTo(d, "bound") /\ disk' = [disk EXCEPT !.sock = d]
        /\ "bound" \in DaemonPlaces /\ "bound" \in Active
    BY DEF BindSocket, IsAt, Active, Listening, DaemonPlaces
  <1>2. disk' \in DiskType /\ disk'.record = disk.record /\ disk'.os = disk.os /\ disk'.sock = d
    BY <1>1, SocketChanges, DaemonHas
  <1> QED BY <1>1, <1>2, DaemonHas, DaemonKeeps

LEMMA BindPipeKeeps ==
  ASSUME StateInv, NEW d \in Daemons, BindPipe(d)
  PROVE  StateInv'
  <1>1. /\ daemon[d] \in Active /\ UNCHANGED <<disk, port, client, dlock, io>> /\ disk.os = "windows"
        /\ GoesTo(d, "bound") /\ pipe' = [pipe EXCEPT !.listening = 1, !.pending = 0, !.streams = 0]
        /\ "bound" \in DaemonPlaces /\ "bound" \in Active
    BY DEF BindPipe, IsAt, Active, Listening, DaemonPlaces
  <1>2. pipe' \in PipeType /\ pipe'.notFound = pipe.notFound /\ pipe'.listening + pipe'.pending = 1
    <2>1. pipe \in PipeType BY DaemonHas
    <2>2. /\ pipe' \in PipeType /\ pipe'.notFound = pipe.notFound
          /\ pipe'.listening = 1 /\ pipe'.pending = 0
      BY <1>1, <2>1 DEF PipeType
    <2> QED BY <2>2
  <1> QED BY <1>1, <1>2, DaemonHas, DaemonKeeps

LEMMA StartHyperdKeeps ==
  ASSUME StateInv, NEW d \in Daemons, StartHyperd(d)
  PROVE  StateInv'
  <1>1. /\ daemon[d] \in Active /\ daemon[d] \in Listening /\ UNCHANGED <<disk, port, client, dlock, pipe, io>>
        /\ \A place \in {"failed", "started"} : place \in DaemonPlaces /\ place \in Active
        /\ \E place \in {"failed", "started"} : GoesTo(d, place)
    BY DEF StartHyperd, IsAt, Active, Listening, DaemonPlaces
  <1>2. PICK place \in {"failed", "started"} : GoesTo(d, place) BY <1>1
  <1> QED BY <1>1, <1>2, DaemonHas, DaemonKeeps

LEMMA TempKeeps ==
  ASSUME StateInv, NEW d \in Daemons, RemoveTemp(d) \/ CreateTemp(d)
  PROVE  StateInv'
  <1>1. /\ daemon[d] \in Active /\ daemon[d] \in Listening /\ UNCHANGED <<port, client, dlock, pipe, io>>
        /\ \A place \in {"create", "restrict"} : place \in DaemonPlaces /\ place \in Active
        /\ \E place \in {"create", "restrict"} : GoesTo(d, place)
    BY DEF RemoveTemp, CreateTemp, IsAt, Active, Listening, DaemonPlaces
  <1>2. PICK place \in {"create", "restrict"} : GoesTo(d, place) BY <1>1
  <1>3. PICK f \in FileType : disk' = [disk EXCEPT !.temp = f]
    BY NoFileType DEF RemoveTemp, CreateTemp
  <1>4. disk' \in DiskType /\ disk'.record = disk.record /\ disk'.os = disk.os /\ disk'.sock = disk.sock
    BY <1>3, DiskChanges, DaemonHas
  <1> QED BY <1>1, <1>2, <1>4, DaemonHas, DaemonKeeps

LEMMA RestrictOpenStateFileKeeps ==
  ASSUME StateInv, NEW d \in Daemons, RestrictOpenStateFile(d)
  PROVE  StateInv'
  <1>1. /\ daemon[d] \in Active /\ daemon[d] \in Listening /\ UNCHANGED <<port, client, dlock, pipe, io>>
        /\ \A place \in {"write", "failed"} : place \in DaemonPlaces /\ place \in Active
    BY DEF RestrictOpenStateFile, IsAt, Active, Listening, DaemonPlaces
  <1>2. CASE disk' = [disk EXCEPT !.temp.private = TRUE] /\ GoesTo(d, "write")
    <2> DEFINE f == [disk.temp EXCEPT !.private = TRUE]
    <2>1. f \in FileType /\ f.private BY DaemonHas DEF FileType
    <2>2. disk' = [disk EXCEPT !.temp = f] BY <1>2, DaemonHas DEF DiskType
    <2> HIDE DEF f
    <2>3. disk' \in DiskType /\ disk'.record = disk.record /\ disk'.os = disk.os /\ disk'.sock = disk.sock /\ disk'.temp = f
      BY <2>1, <2>2, DiskChanges, DaemonHas
    <2> QED BY <1>1, <1>2, <2>1, <2>3, DaemonHas, DaemonKeeps
  <1>3. CASE UNCHANGED disk /\ disk.temp.private /\ GoesTo(d, "write")
    BY <1>1, <1>3, DaemonHas, DaemonKeeps
  <1>4. CASE UNCHANGED disk /\ GoesTo(d, "failed")
    BY <1>1, <1>4, DaemonHas, DaemonKeeps
  <1> QED BY <1>2, <1>3, <1>4 DEF RestrictOpenStateFile, ReconcileRefusedChmod

LEMMA WriteContentsKeeps ==
  ASSUME StateInv, NEW d \in Daemons, WriteContents(d)
  PROVE  StateInv'
  <1>1. /\ daemon[d] \in Active /\ daemon[d] \in Listening /\ UNCHANGED <<port, client, dlock, pipe, io>>
        /\ daemon[d] \in {"write", "torn", "rename"}
        /\ \A place \in {"torn", "rename", "failed"} : place \in DaemonPlaces /\ place \in Active
    BY DEF WriteContents, IsAt, Active, Listening, DaemonPlaces
  <1>2. ASSUME NEW shape \in {"torn", "current"}, disk' = [disk EXCEPT !.temp.shape = shape]
        PROVE  /\ disk' \in DiskType /\ disk'.record = disk.record /\ disk'.os = disk.os /\ disk'.sock = disk.sock
               /\ disk'.temp.shape = shape /\ disk'.temp.private = disk.temp.private
    <2> DEFINE f == [disk.temp EXCEPT !.shape = shape]
    <2>1. f \in FileType /\ f.private = disk.temp.private /\ f.shape = shape BY DaemonHas DEF FileType
    <2>2. disk' = [disk EXCEPT !.temp = f] BY <1>2, DaemonHas DEF DiskType
    <2> HIDE DEF f
    <2> QED BY <2>1, <2>2, DiskChanges, DaemonHas
  <1>3. CASE GoesTo(d, "torn") /\ disk' = [disk EXCEPT !.temp.shape = "torn"]
    BY <1>1, <1>2, <1>3, DaemonHas, DaemonKeeps
  <1>4. CASE GoesTo(d, "rename") /\ disk' = [disk EXCEPT !.temp.shape = "current"]
    BY <1>1, <1>2, <1>4, DaemonHas, DaemonKeeps
  <1>5. CASE GoesTo(d, "failed") /\ UNCHANGED disk
    BY <1>1, <1>5, DaemonHas, DaemonKeeps
  <1> QED BY <1>3, <1>4, <1>5 DEF WriteContents

LEMMA RecordKeeps ==
  ASSUME StateInv, NEW d \in Daemons, Rename(d) \/ RemoveDiscoveryFile(d)
  PROVE  StateInv'
  <1>1. /\ daemon[d] \in Active /\ daemon[d] \in Listening /\ UNCHANGED <<port, client, dlock, pipe, io>>
        /\ \A place \in {"serving", "closing"} : place \in DaemonPlaces /\ place \in Active
    BY DEF Rename, RemoveDiscoveryFile, IsAt, Active, Listening, DaemonPlaces
  <1>2. CASE Rename(d)
    <2>1. daemon[d] = "rename" /\ GoesTo(d, "serving") /\ disk' = [disk EXCEPT !.record = disk.temp, !.temp = NoFile]
      BY <1>2 DEF Rename, IsAt
    <2>2. disk' \in DiskType /\ disk'.record = disk.temp /\ disk'.os = disk.os /\ disk'.sock = disk.sock
      BY <2>1, NoFileType, DaemonHas DEF DiskType
    <2> QED BY <1>1, <2>1, <2>2, DaemonHas, DaemonKeeps
  <1>3. CASE RemoveDiscoveryFile(d)
    <2>1. GoesTo(d, "closing") /\ disk' = [disk EXCEPT !.record = NoFile]
      BY <1>3 DEF RemoveDiscoveryFile
    <2>2. disk' \in DiskType /\ disk'.record = NoFile /\ disk'.os = disk.os /\ disk'.sock = disk.sock
      BY <2>1, NoFileType, DiskChanges, DaemonHas
    <2> QED BY <1>1, <2>1, <2>2, NoFileType, DaemonHas, DaemonKeeps
  <1> QED BY <1>2, <1>3

LEMMA PipeGoneType ==
  ASSUME pipe \in PipeType
  PROVE  PipeGone \in PipeType /\ PipeGone.notFound = pipe.notFound
  BY DEF PipeGone, PipeType

LEMMA DaemonEnds ==
  ASSUME StateInv, NEW d \in Daemons, DropListener(d) \/ Killed(d)
  PROVE  StateInv'
  <1>1. /\ UNCHANGED <<port, client, io>> /\ dlock' = "free" /\ pipe' = PipeGone
        /\ \A place \in {"gone", "killed"} : place \in DaemonPlaces /\ place \notin Active
        /\ \E place \in {"gone", "killed"} : GoesTo(d, place)
    BY DEF DropListener, Killed, Active, Listening, DaemonPlaces
  <1>2. daemon[d] \in Active
    <2>1. daemon[d] \in DaemonPlaces BY DEF StateInv, StateTypes
    <2> QED BY <2>1 DEF DropListener, Killed, DaemonPlaces, Active, Listening
  <1>3. disk' \in DiskType /\ disk'.record = disk.record /\ disk'.os = disk.os
    <2>1. CASE DropListener(d)
      <3>1. PICK s \in {"none", "dead", "file"} \cup Daemons : disk' = [disk EXCEPT !.sock = s]
        BY <2>1, DaemonHas DEF DropListener, DiskType
      <3> QED BY <3>1, SocketChanges, DaemonHas
    <2>2. CASE Killed(d) BY <2>2, DaemonHas DEF Killed
    <2> QED BY <2>1, <2>2
  <1>4. PICK place \in {"gone", "killed"} : GoesTo(d, place) BY <1>1
  <1>5. pipe' \in PipeType /\ ~pipe'.notFound BY <1>1, DaemonHas, PipeGoneType
  <1>6. place \notin Active /\ place \in DaemonPlaces /\ place \notin Listening /\ place \notin {"write", "torn", "rename", "serving", "bind"}
    BY <1>1 DEF Active
  <1> QED BY <1>1, <1>2, <1>3, <1>4, <1>5, <1>6, DaemonHas, DaemonKeeps

-----------------------------------------------------------------------------
(* The surroundings, the pipe and its streams                              *)

\* Nothing is at work: neither a daemon nor the client.
LEMMA LeftoverKeeps ==
  ASSUME StateInv, NEW r \in FileType, NEW f \in FileType, NEW s \in {"none", "dead", "file"},
         NEW os \in {"unix", "windows"}, r.shape \notin {"empty", "torn"}, Leftover(r, f, s, os)
  PROVE  StateInv'
  <1>1. /\ UNCHANGED <<port, daemon, client, dlock, pipe, io>> /\ \A d \in Daemons : daemon[d] = "new"
        /\ client.pc = "idle" /\ disk' = [record |-> r, temp |-> f, sock |-> s, os |-> os]
    BY DEF Leftover, Fresh
  <1>2. disk' \in DiskType /\ disk'.record = r BY <1>1 DEF DiskType
  <1>3. StateTypes' BY <1>1, <1>2 DEF StateInv, StateTypes
  <1>4. LockHeld' BY <1>1 DEF StateInv, LockHeld
  <1>5. FilesKept' BY <1>1, <1>2 DEF FilesKept
  <1>6. EndpointKept' BY <1>1 DEF StateInv, EndpointKept, Listening
  <1>7. RetireKept' BY <1>1 DEF StateInv, RetireKept
  <1>8. IoKept' BY <1>1 DEF StateInv, IoKept
  <1> QED BY <1>3, <1>4, <1>5, <1>6, <1>7, <1>8 DEF StateInv

LEMMA LeftoversKeep ==
  ASSUME StateInv,
         \/ \E record \in {File("garbage", FALSE), File("current", FALSE), NoFile}, temp \in {File("torn", FALSE), NoFile},
               sock \in {"none", "dead", "file"} : Leftover(record, temp, sock, "unix")
         \/ Leftover(NoFile, NoFile, "none", "windows")
  PROVE  StateInv'
  <1>1. \A f \in {File("garbage", FALSE), File("current", FALSE), NoFile} : f \in FileType /\ f.shape \notin {"empty", "torn"}
    BY NoFileType
  <1>2. \A f \in {File("torn", FALSE), NoFile} : f \in FileType BY NoFileType
  <1>3. PICK record \in {File("garbage", FALSE), File("current", FALSE), NoFile}, temp \in {File("torn", FALSE), NoFile},
             sock \in {"none", "dead", "file"}, os \in {"unix", "windows"} : Leftover(record, temp, sock, os)
    OBVIOUS
  <1> QED BY <1>1, <1>2, <1>3, LeftoverKeeps

LEMMA OldStartsKeeps ==
  ASSUME StateInv, OldStarts
  PROVE  StateInv'
  <1> DEFINE late == client.pc # "idle"
             f == File("legacy", FALSE)
  <1>1. /\ UNCHANGED <<daemon, dlock, pipe, io>> /\ disk' = [disk EXCEPT !.record = f]
        /\ port' = [port EXCEPT !.holder = "old", !.started = TRUE, !.moved = TRUE]
        /\ client' = [client EXCEPT !.late = late]
        /\ disk \in DiskType /\ port \in PortType /\ client \in ClientType /\ late \in BOOLEAN
    BY DEF OldStarts, StateInv, StateTypes
  <1>2. f \in FileType /\ f.shape = "legacy" BY NoFileType
  <1>3. late <=> client.pc # "idle" OBVIOUS
  <1> HIDE DEF late, f
  <1>4. disk' \in DiskType /\ disk'.record = f /\ disk'.temp = disk.temp /\ disk'.os = disk.os /\ disk'.sock = disk.sock
    BY <1>1, <1>2, DiskChanges
  <1>5. port' \in PortType /\ port'.moved /\ port'.stopped = port.stopped BY <1>1 DEF PortType, Holders
  <1>6. client' \in ClientType /\ client'.pc = client.pc /\ client'.late = late BY <1>1 DEF ClientType
  <1>7. StateTypes' BY <1>1, <1>4, <1>5, <1>6 DEF StateInv, StateTypes
  <1>8. LockHeld' BY <1>1, <1>6 DEF StateInv, LockHeld
  <1>9. FilesKept' BY <1>1, <1>2, <1>4 DEF StateInv, FilesKept
  <1>10. EndpointKept' BY <1>1, <1>4 DEF StateInv, EndpointKept
  <1>11. RetireKept' BY <1>3, <1>5, <1>6 DEF StateInv, RetireKept
  <1>12. IoKept' BY <1>1 DEF StateInv, IoKept
  <1> QED BY <1>7, <1>8, <1>9, <1>10, <1>11, <1>12 DEF StateInv

LEMMA OldRemovesRecordKeeps ==
  ASSUME StateInv, OldRemovesRecord
  PROVE  StateInv'
  <1>1. /\ UNCHANGED <<port, daemon, client, dlock, pipe, io>> /\ disk' = [disk EXCEPT !.record = NoFile] /\ disk \in DiskType
    BY DEF OldRemovesRecord, StateInv, StateTypes
  <1>2. disk' \in DiskType /\ disk'.record = NoFile /\ disk'.temp = disk.temp /\ disk'.os = disk.os /\ disk'.sock = disk.sock
    BY <1>1, NoFileType, DiskChanges
  <1>3. StateTypes' BY <1>1, <1>2 DEF StateInv, StateTypes
  <1>4. LockHeld' BY <1>1 DEF StateInv, LockHeld
  <1>5. FilesKept' BY <1>1, <1>2, NoFileType DEF StateInv, FilesKept
  <1>6. EndpointKept' BY <1>1, <1>2 DEF StateInv, EndpointKept
  <1>7. RetireKept' BY <1>1, <1>2, NoFileType DEF StateInv, RetireKept
  <1>8. IoKept' BY <1>1 DEF StateInv, IoKept
  <1> QED BY <1>3, <1>4, <1>5, <1>6, <1>7, <1>8 DEF StateInv

\* The port changes hands, and never to a pre-1.0 daemon.
LEMMA PortChanges ==
  ASSUME StateInv, OldReleasesPort \/ OldKilled \/ (\E by \in {"foreign", "other"} : PortTaken(by))
  PROVE  StateInv'
  <1>1. UNCHANGED <<disk, daemon, client, dlock, pipe, io>> /\ port \in PortType
    BY DEF OldReleasesPort, OldKilled, PortTaken, StateInv, StateTypes
  <1>2. port' \in PortType /\ port'.holder # "old" /\ port'.moved /\ port'.stopped = port.stopped
    <2>1. CASE OldReleasesPort \/ OldKilled
      BY <1>1, <2>1 DEF OldReleasesPort, OldKilled, PortType, Holders
    <2>2. CASE \E by \in {"foreign", "other"} : PortTaken(by)
      <3>1. PICK by \in {"foreign", "other"} : PortTaken(by) BY <2>2
      <3> QED BY <1>1, <3>1 DEF PortTaken, PortType, Holders
    <2> QED BY <2>1, <2>2
  <1>3. StateTypes' BY <1>1, <1>2 DEF StateInv, StateTypes
  <1>4. LockHeld' BY <1>1 DEF StateInv, LockHeld
  <1>5. FilesKept' BY <1>1 DEF StateInv, FilesKept
  <1>6. EndpointKept' BY <1>1 DEF StateInv, EndpointKept
  <1>7. RetireKept' BY <1>1, <1>2 DEF StateInv, RetireKept
  <1>8. IoKept' BY <1>1 DEF StateInv, IoKept
  <1> QED BY <1>3, <1>4, <1>5, <1>6, <1>7, <1>8 DEF StateInv

LEMMA PipeKeeps ==
  ASSUME StateInv, ConnectPipe \/ AcceptTimeout \/ StreamCloses
  PROVE  StateInv'
  <1>1. UNCHANGED <<disk, port, daemon, client, dlock, io>> /\ pipe \in PipeType /\ ~pipe.notFound
    BY DEF ConnectPipe, AcceptTimeout, StreamCloses, StateInv, StateTypes, EndpointKept
  <1>2. disk.os \in {"unix", "windows"} BY DEF StateInv, StateTypes, DiskType
  <1>3. pipe' \in PipeType /\ ~pipe'.notFound
        /\ (disk.os = "windows" /\ pipe.listening + pipe.pending = 1 => pipe'.listening + pipe'.pending = 1)
    <2>1. CASE ConnectPipe
      <3>1. PICK d \in Daemons : daemon[d] = "serving" BY <2>1 DEF ConnectPipe, Serving
      <3>2. pipe.listening + pipe.pending = 1 /\ disk.os = "windows"
        BY <2>1, <3>1 DEF ConnectPipe, StateInv, EndpointKept, Listening
      <3>3. pipe.streams \in Nat /\ pipe.opened \in Nat /\ pipe.listening \in {0, 1} /\ pipe.pending \in {0, 1}
        BY <1>1 DEF PipeType
      <3>4. Instances # 0 BY <3>2, <3>3 DEF Instances
      <3>5. pipe.listening = 1 /\ pipe' = [pipe EXCEPT !.listening = 0, !.pending = 1, !.opened = @ + 1]
        BY <2>1, <3>4 DEF ConnectPipe
      <3> DEFINE opened == pipe.opened + 1
      <3>6. opened \in Nat /\ pipe' = [pipe EXCEPT !.listening = 0, !.pending = 1, !.opened = opened]
        BY <3>3, <3>5
      <3> HIDE DEF opened
      <3>7. /\ pipe' \in PipeType /\ pipe'.listening = 0 /\ pipe'.pending = 1 /\ pipe'.notFound = pipe.notFound
        BY <1>1, <3>6 DEF PipeType
      <3> QED BY <1>1, <3>7
    <2>2. CASE AcceptTimeout
      <3>1. pipe' = [pipe EXCEPT !.pending = 0, !.listening = 1, !.streams = @ + 1]
        BY <2>2 DEF AcceptTimeout
      <3> DEFINE streams == pipe.streams + 1
      <3>2. streams \in Nat /\ pipe' = [pipe EXCEPT !.pending = 0, !.listening = 1, !.streams = streams]
        BY <1>1, <3>1 DEF PipeType
      <3> HIDE DEF streams
      <3>3. /\ pipe' \in PipeType /\ pipe'.listening = 1 /\ pipe'.pending = 0 /\ pipe'.notFound = pipe.notFound
        BY <1>1, <3>2 DEF PipeType
      <3> QED BY <1>1, <3>3
    <2>3. CASE StreamCloses
      <3>1. pipe' = [pipe EXCEPT !.streams = @ - 1] /\ pipe.streams > 0
        BY <2>3 DEF StreamCloses
      <3>2. /\ pipe' \in PipeType /\ pipe'.listening = pipe.listening /\ pipe'.pending = pipe.pending
            /\ pipe'.notFound = pipe.notFound
        BY <1>1, <3>1 DEF PipeType
      <3> QED BY <1>1, <3>2
    <2> QED BY <2>1, <2>2, <2>3
  <1>4. StateTypes' BY <1>1, <1>3 DEF StateInv, StateTypes
  <1>5. LockHeld' BY <1>1 DEF StateInv, LockHeld
  <1>6. FilesKept' BY <1>1 DEF StateInv, FilesKept
  <1>7. EndpointKept' BY <1>1, <1>2, <1>3 DEF StateInv, EndpointKept
  <1>8. RetireKept' BY <1>1 DEF StateInv, RetireKept
  <1>9. IoKept' BY <1>1 DEF StateInv, IoKept
  <1> QED BY <1>4, <1>5, <1>6, <1>7, <1>8, <1>9 DEF StateInv

LEMMA IoKeeps ==
  ASSUME StateInv, StartIo \/ Transfer \/ WaitForIo \/ CancelIo
  PROVE  StateInv'
  <1>1. UNCHANGED <<disk, port, daemon, client, dlock, pipe>> /\ io \in IoType /\ IoKept
    BY DEF StartIo, Transfer, WaitForIo, CancelIo, StateInv, StateTypes
  <1>2. io' \in IoType /\ IoKept'
    <2>1. CASE StartIo
      <3>1. io' = [io EXCEPT !.pc = "pending"] /\ io.pc = "idle" BY <2>1 DEF StartIo
      <3> QED BY <1>1, <3>1 DEF IoType, IoKept
    <2>2. CASE Transfer
      <3>1. io' = [io EXCEPT !.moved = TRUE] /\ io.pc \in {"pending", "cancelling"} BY <2>2 DEF Transfer
      <3> QED BY <1>1, <3>1 DEF IoType, IoKept
    <2>3. CASE WaitForIo
      <3>1. CASE io' = [io EXCEPT !.pc = "done", !.said = "bytes"]
        BY <1>1, <3>1 DEF IoType, IoKept
      <3>2. CASE io' = [io EXCEPT !.pc = "cancelling"] /\ io.pc = "pending"
        BY <1>1, <3>2 DEF IoType, IoKept
      <3> QED BY <2>3, <3>1, <3>2 DEF WaitForIo
    <2>4. CASE CancelIo
      <3>1. io' = [io EXCEPT !.pc = "done", !.said = ResultAfterCancel] BY <2>4 DEF CancelIo
      <3>2. ResultAfterCancel \in {"bytes", "timeout"} /\ (ResultAfterCancel = "timeout" => ~io.moved)
        BY DEF ResultAfterCancel
      <3> QED BY <1>1, <3>1, <3>2 DEF IoType, IoKept
    <2> QED BY <2>1, <2>2, <2>3, <2>4
  <1>3. StateTypes' BY <1>1, <1>2 DEF StateInv, StateTypes
  <1>4. LockHeld' BY <1>1 DEF StateInv, LockHeld
  <1>5. FilesKept' BY <1>1 DEF StateInv, FilesKept
  <1>6. EndpointKept' BY <1>1 DEF StateInv, EndpointKept
  <1>7. RetireKept' BY <1>1 DEF StateInv, RetireKept
  <1> QED BY <1>2, <1>3, <1>4, <1>5, <1>6, <1>7 DEF StateInv

-----------------------------------------------------------------------------
(* The client that retires a pre-1.0 daemon                                *)

\* A step of the client under the lock: no daemon is at work, so only the
\* client's place, the port and the record matter.
LEMMA ClientKeeps ==
  ASSUME StateInv, NEW place \in UnderLock, client.pc \in UnderLock,
         client' = [client EXCEPT !.pc = place], UNCHANGED <<daemon, dlock, pipe, io>>,
         disk' \in DiskType, disk'.record.shape \notin {"empty", "torn"}, port' \in PortType, RetireKept'
  PROVE  StateInv'
  <1>1. client \in ClientType BY DEF StateInv, StateTypes
  <1>2. client' \in ClientType /\ client'.pc = place BY <1>1 DEF ClientType
  <1>3. \A d \in Daemons : daemon[d] \notin Active
    <2>1. dlock = "client" /\ \A d \in Daemons : d # "client" BY DaemonsAssumption DEF StateInv, LockHeld
    <2> QED BY <2>1 DEF StateInv, LockHeld
  <1>4. StateTypes' BY <1>2 DEF StateInv, StateTypes
  <1>5. LockHeld' BY <1>2 DEF StateInv, LockHeld
  <1>6. FilesKept' BY <1>3 DEF FilesKept, Active, Listening
  <1>7. EndpointKept' BY <1>3 DEF StateInv, EndpointKept, Active, Listening
  <1>8. IoKept' BY DEF StateInv, IoKept
  <1> QED BY <1>4, <1>5, <1>6, <1>7, <1>8 DEF StateInv

LEMMA RetireUnderLockKeeps ==
  ASSUME StateInv, RetireUnderLock
  PROVE  StateInv'
  <1> DEFINE found == ReadLegacyRecord
             place == IF found THEN "ping" ELSE "clean"
  <1>1. /\ UNCHANGED <<disk, daemon, pipe, io>> /\ dlock = "free" /\ dlock' = "client" /\ client.pc = "idle"
        /\ client' = [client EXCEPT !.pc = place, !.found = found] /\ port' = [port EXCEPT !.moved = FALSE]
        /\ client \in ClientType /\ port \in PortType /\ found \in BOOLEAN /\ place \in {"ping", "clean"}
        /\ (place = "clean" => ~found)
    BY DEF RetireUnderLock, StateInv, StateTypes, ReadLegacyRecord
  <1> HIDE DEF found, place
  <1>2. client' \in ClientType /\ client'.pc = place /\ client'.found = found BY <1>1 DEF ClientType, UnderLock
  <1>3. port' \in PortType /\ port'.stopped = port.stopped BY <1>1 DEF PortType
  <1>4. \A d \in Daemons : d # "free" /\ d # "client" /\ daemon[d] \notin Active
    BY <1>1, DaemonsAssumption DEF StateInv, LockHeld
  <1>5. StateTypes' BY <1>1, <1>2, <1>3 DEF StateInv, StateTypes
  <1>6. LockHeld' BY <1>1, <1>2, <1>4 DEF LockHeld, UnderLock
  <1>7. FilesKept' BY <1>1 DEF StateInv, FilesKept
  <1>8. EndpointKept' BY <1>1 DEF StateInv, EndpointKept
  <1>9. RetireKept' BY <1>1, <1>2, <1>3 DEF StateInv, RetireKept
  <1>10. IoKept' BY <1>1 DEF StateInv, IoKept
  <1> QED BY <1>5, <1>6, <1>7, <1>8, <1>9, <1>10 DEF StateInv

\* What an exchange with the recorded port tells.
LEMMA RepliesTell ==
  ASSUME port \in PortType
  PROVE  /\ \A reply \in Exchange("PING") : ClassifyPing(reply) \in {"dead", "foreign"} => port.holder # "old"
         /\ \A reply \in Exchange("PING") : ClassifyPing(reply) \in {"dead", "foreign", "identified", "unknown"}
         /\ \A reply \in Exchange("STATUS") : StatusPid(reply) = "pid" => port.holder = "old"
         /\ \A reply \in Exchange("STATUS") : StatusPid(reply) \notin {"pid", "unknown"} => port.holder # "old"
  <1>1. port.holder \in Holders BY DEF PortType
  <1>2. CASE port.holder = "none" BY <1>2 DEF Exchange, ClassifyPing, StatusPid
  <1>3. CASE port.holder = "old" BY <1>3 DEF Exchange, ClassifyPing, StatusPid
  <1>4. CASE port.holder = "other" BY <1>4 DEF Exchange, ClassifyPing, StatusPid
  <1>5. CASE port.holder = "foreign" BY <1>5 DEF Exchange, ClassifyPing, StatusPid
  <1> QED BY <1>1, <1>2, <1>3, <1>4, <1>5 DEF Holders

LEMMA AskingKeeps ==
  ASSUME StateInv, RetirePing \/ RetireStatus \/ RetireWait
  PROVE  StateInv'
  <1>1. /\ UNCHANGED <<disk, daemon, dlock, pipe, io>> /\ client.pc \in {"ping", "status", "wait"}
        /\ disk \in DiskType /\ disk.record.shape \notin {"empty", "torn"} /\ client \in ClientType /\ port \in PortType
    BY DEF RetirePing, RetireStatus, RetireWait, StateInv, StateTypes, FilesKept
  <1>2. /\ port' \in PortType /\ port'.holder = port.holder /\ port'.stopped = port.stopped
    BY <1>1 DEF RetirePing, RetireStatus, RetireWait, PortType
  <1>3. \E place \in {"status", "stop", "remove", "refused"} :
           /\ client' = [client EXCEPT !.pc = place]
           /\ place = "remove" => port.holder # "old"
           /\ place \in {"status", "stop"} => client.pc \in {"ping", "status"}
           /\ place = "stop" => port.holder = "old"
    <2>1. CASE RetirePing
      <3>1. PICK reply \in Exchange("PING") :
               client' = [client EXCEPT !.pc = CASE ClassifyPing(reply) = "identified" -> "status"
                                                 [] ClassifyPing(reply) = "unknown" -> "refused"
                                                 [] OTHER -> "remove"]
        BY <2>1 DEF RetirePing
      <3>2. client.pc = "ping" BY <2>1 DEF RetirePing
      <3> QED BY <1>1, <3>1, <3>2, RepliesTell
    <2>2. CASE RetireStatus
      <3>1. PICK reply \in Exchange("STATUS") :
               client' = [client EXCEPT !.pc = CASE StatusPid(reply) = "pid" -> "stop"
                                                 [] StatusPid(reply) = "unknown" -> "refused"
                                                 [] OTHER -> "remove"]
        BY <2>2 DEF RetireStatus
      <3>2. client.pc = "status" BY <2>2 DEF RetireStatus
      <3> QED BY <1>1, <3>1, <3>2, RepliesTell
    <2>3. CASE RetireWait BY <1>1, <2>3, RepliesTell DEF RetireWait
    <2> QED BY <2>1, <2>2, <2>3
  <1>4. PICK place \in {"status", "stop", "remove", "refused"} :
           /\ client' = [client EXCEPT !.pc = place]
           /\ place = "remove" => port.holder # "old"
           /\ place \in {"status", "stop"} => client.pc \in {"ping", "status"}
           /\ place = "stop" => port.holder = "old"
    BY <1>3
  <1>5. client'.pc = place BY <1>1, <1>4 DEF ClientType
  <1>6. RetireKept' BY <1>2, <1>4, <1>5 DEF StateInv, RetireKept
  <1>7. place \in UnderLock /\ client.pc \in UnderLock BY <1>1 DEF UnderLock
  <1> QED BY <1>1, <1>2, <1>4, <1>6, <1>7, ClientKeeps

LEMMA RetireStopKeeps ==
  ASSUME StateInv, RetireStop
  PROVE  StateInv'
  <1>1. /\ UNCHANGED <<disk, daemon, dlock, pipe, io>> /\ client.pc = "stop" /\ client' = [client EXCEPT !.pc = "wait"]
        /\ disk \in DiskType /\ disk.record.shape \notin {"empty", "torn"} /\ client \in ClientType /\ port \in PortType
    BY DEF RetireStop, StateInv, StateTypes, FilesKept
  <1>2. PICK heard \in BOOLEAN :
           port' = IF port.holder = "none" THEN port
                   ELSE [port EXCEPT !.stopped = @ \cup {port.holder},
                                     !.leaving = @ \/ (port.holder = "old" /\ heard)]
    BY DEF RetireStop
  <1>3. port.stopped = {} /\ (~port.moved => port.holder = "old")
    BY <1>1 DEF StateInv, RetireKept
  <1>4. /\ port' \in PortType /\ port'.moved = port.moved /\ port'.stopped \subseteq {port.holder}
    <2>1. CASE port.holder = "none" BY <1>1, <1>2, <1>3, <2>1
    <2>2. CASE port.holder # "none"
      <3> DEFINE leaving == port.leaving \/ (port.holder = "old" /\ heard)
                 stopped == port.stopped \cup {port.holder}
      <3>1. leaving \in BOOLEAN /\ stopped = {port.holder} /\ stopped \subseteq Holders BY <1>1, <1>3 DEF PortType
      <3>2. port' = [port EXCEPT !.stopped = stopped, !.leaving = leaving] BY <1>2, <2>2
      <3> HIDE DEF leaving, stopped
      <3> QED BY <1>1, <3>1, <3>2 DEF PortType
    <2> QED BY <2>1, <2>2
  <1>5. client'.pc = "wait" BY <1>1 DEF ClientType
  <1>6. RetireKept' BY <1>3, <1>4, <1>5 DEF RetireKept
  <1>7. "wait" \in UnderLock /\ client.pc \in UnderLock BY <1>1 DEF UnderLock
  <1> QED BY <1>1, <1>4, <1>6, <1>7, ClientKeeps

LEMMA RemovingKeeps ==
  ASSUME StateInv, RemoveLegacyRecord \/ RemoveStaleRecord
  PROVE  StateInv'
  <1>1. /\ UNCHANGED <<port, daemon, dlock, pipe, io>>
        /\ disk \in DiskType /\ disk.record.shape \notin {"empty", "torn"} /\ client \in ClientType /\ port \in PortType
    BY DEF RemoveLegacyRecord, RemoveStaleRecord, StateInv, StateTypes, FilesKept
  <1>2. disk' \in DiskType /\ (disk' = disk \/ disk'.record = NoFile)
    <2>1. disk' = disk \/ disk' = [disk EXCEPT !.record = NoFile]
      <3>1. CASE RemoveLegacyRecord BY <3>1 DEF RemoveLegacyRecord
      <3>2. CASE RemoveStaleRecord BY <3>2 DEF RemoveStaleRecord
      <3> QED BY <3>1, <3>2
    <2>2. /\ [disk EXCEPT !.record = NoFile] \in DiskType
          /\ [disk EXCEPT !.record = NoFile].record = NoFile
      BY <1>1, NoFileType DEF DiskType
    <2>3. CASE disk' = disk BY <1>1, <2>3
    <2>4. CASE disk' = [disk EXCEPT !.record = NoFile] BY <2>2, <2>4
    <2> QED BY <2>1, <2>3, <2>4
  <1>3. disk'.record.shape \in {disk.record.shape, "none"} BY <1>2, NoFileType
  <1>4. CASE RemoveLegacyRecord
    <2>1. client.pc = "remove" /\ client' = [client EXCEPT !.pc = "clean"] BY <1>4 DEF RemoveLegacyRecord
    <2>2. disk'.record.shape # "legacy"
      <3>1. CASE ReadLegacyRecord BY <1>1, <1>4, <3>1, NoFileType, DiskChanges DEF RemoveLegacyRecord
      <3>2. CASE ~ReadLegacyRecord BY <1>4, <3>2 DEF RemoveLegacyRecord, ReadLegacyRecord
      <3> QED BY <3>1, <3>2
    <2>3. client'.pc = "clean" /\ client'.found = client.found /\ client'.late = client.late BY <1>1, <2>1 DEF ClientType
    <2>4. RetireKept' BY <1>1, <2>1, <2>2, <2>3 DEF StateInv, RetireKept
    <2>5. "clean" \in UnderLock /\ client.pc \in UnderLock BY <2>1 DEF UnderLock
    <2> QED BY <1>1, <1>2, <1>3, <2>1, <2>4, <2>5, ClientKeeps
  <1>5. CASE RemoveStaleRecord
    <2>1. client.pc = "clean" /\ client' = [client EXCEPT !.pc = "ready"] BY <1>5 DEF RemoveStaleRecord
    <2>2. client'.pc = "ready" /\ client'.found = client.found /\ client'.late = client.late BY <1>1, <2>1 DEF ClientType
    <2>3. RetireKept' BY <1>1, <1>3, <2>1, <2>2 DEF StateInv, RetireKept
    <2>4. "ready" \in UnderLock /\ client.pc \in UnderLock BY <2>1 DEF UnderLock
    <2> QED BY <1>1, <1>2, <1>3, <2>1, <2>3, <2>4, ClientKeeps
  <1> QED BY <1>4, <1>5

LEMMA UnlockKeeps ==
  ASSUME StateInv, Unlock
  PROVE  StateInv'
  <1>1. /\ UNCHANGED <<disk, port, daemon, pipe, io>> /\ dlock' = "free" /\ client \in ClientType /\ client.pc \in UnderLock
    BY DEF Unlock, StateInv, StateTypes, UnderLock
  <1>2. client' \in ClientType /\ client'.pc \in {"spawned", "local"} BY <1>1 DEF Unlock, ClientType
  <1>3. \A d \in Daemons : d # "free" /\ daemon[d] \notin Active
    BY <1>1, DaemonsAssumption DEF StateInv, LockHeld
  <1>4. StateTypes' BY <1>1, <1>2 DEF StateInv, StateTypes
  <1>5. LockHeld' BY <1>1, <1>2, <1>3 DEF LockHeld, UnderLock
  <1>6. FilesKept' BY <1>1 DEF StateInv, FilesKept
  <1>7. EndpointKept' BY <1>1 DEF StateInv, EndpointKept
  <1>8. RetireKept' BY <1>2 DEF RetireKept
  <1>9. IoKept' BY <1>1 DEF StateInv, IoKept
  <1> QED BY <1>4, <1>5, <1>6, <1>7, <1>8, <1>9 DEF StateInv

-----------------------------------------------------------------------------
LEMMA StateStarts == StateInit => StateInv
  <1> SUFFICES ASSUME StateInit PROVE StateInv OBVIOUS
  <1>1. disk \in DiskType /\ disk.record = NoFile BY NoFileType DEF StateInit, DiskType
  <1>2. port \in PortType /\ port.stopped = {} BY DEF StateInit, PortType, Holders
  <1>3. client \in ClientType /\ client.pc = "idle" BY DEF StateInit, ClientType
  <1>4. pipe \in PipeType /\ ~pipe.notFound BY DEF StateInit, PipeType
  <1>5. io \in IoType /\ io.said = "" BY DEF StateInit, IoType
  <1>6. \A d \in Daemons : daemon[d] = "new" /\ d # "free" BY DaemonsAssumption DEF StateInit
  <1>7. StateTypes BY <1>1, <1>2, <1>3, <1>4, <1>5 DEF StateInit, StateTypes, DaemonPlaces
  <1>8. LockHeld BY <1>3, <1>6 DEF StateInit, LockHeld, Active, Listening, UnderLock
  <1>9. FilesKept BY <1>1, <1>6, NoFileType DEF FilesKept
  <1>10. EndpointKept BY <1>4, <1>6 DEF EndpointKept, Listening
  <1>11. RetireKept BY <1>2, <1>3 DEF RetireKept
  <1>12. IoKept BY <1>5 DEF IoKept
  <1> QED BY <1>7, <1>8, <1>9, <1>10, <1>11, <1>12 DEF StateInv

LEMMA StateKeeps == StateInv /\ [StateNext]_svars => StateInv'
  <1> SUFFICES ASSUME StateInv, [StateNext]_svars PROVE StateInv' OBVIOUS
  <1>1. CASE \/ \E record \in {File("garbage", FALSE), File("current", FALSE), NoFile}, temp \in {File("torn", FALSE), NoFile},
                   sock \in {"none", "dead", "file"} : Leftover(record, temp, sock, "unix")
             \/ Leftover(NoFile, NoFile, "none", "windows")
    BY <1>1, LeftoversKeep
  <1>2. CASE OldStarts BY <1>2, OldStartsKeeps
  <1>3. CASE OldRemovesRecord BY <1>3, OldRemovesRecordKeeps
  <1>4. CASE OldReleasesPort \/ OldKilled \/ (\E by \in {"foreign", "other"} : PortTaken(by))
    BY <1>4, PortChanges
  <1>5. CASE RetireUnderLock BY <1>5, RetireUnderLockKeeps
  <1>6. CASE RetirePing \/ RetireStatus \/ RetireWait BY <1>6, AskingKeeps
  <1>7. CASE RetireStop BY <1>7, RetireStopKeeps
  <1>8. CASE RemoveLegacyRecord \/ RemoveStaleRecord BY <1>8, RemovingKeeps
  <1>9. CASE Unlock BY <1>9, UnlockKeeps
  <1>10. ASSUME NEW d \in Daemons,
                \/ AcquireLock(d) \/ EnsureOwnerOnlyDir(d) \/ ReclaimStaleSocket(d) \/ BindSocket(d) \/ BindPipe(d)
                \/ StartHyperd(d) \/ RemoveTemp(d) \/ CreateTemp(d) \/ RestrictOpenStateFile(d) \/ WriteContents(d) \/ Rename(d)
                \/ RemoveDiscoveryFile(d) \/ DropListener(d) \/ Killed(d)
         PROVE  StateInv'
    BY <1>10, AcquireLockKeeps, EnsureOwnerOnlyDirKeeps, ReclaimStaleSocketKeeps, BindSocketKeeps, BindPipeKeeps,
       StartHyperdKeeps, TempKeeps, RestrictOpenStateFileKeeps, WriteContentsKeeps, RecordKeeps, DaemonEnds
  <1>11. CASE ConnectPipe \/ AcceptTimeout \/ StreamCloses BY <1>11, PipeKeeps
  <1>12. CASE StartIo \/ Transfer \/ WaitForIo \/ CancelIo BY <1>12, IoKeeps
  <1>13. CASE UNCHANGED svars
    <2>1. UNCHANGED <<disk, port, daemon, client, dlock, pipe, io>> BY <1>13 DEF svars
    <2> QED BY <2>1 DEF StateInv, StateTypes, LockHeld, FilesKept, EndpointKept, RetireKept, IoKept
  <1> QED BY <1>1, <1>2, <1>3, <1>4, <1>5, <1>6, <1>7, <1>8, <1>9, <1>10, <1>11, <1>12, <1>13 DEF StateNext

LEMMA TheStateDirIsSound == StateInv => StateDirIsSound
  <1> SUFFICES ASSUME StateInv PROVE StateDirIsSound OBVIOUS
  <1>1. RecordIsWholeAndPrivate BY DEF StateInv, FilesKept, RecordIsWholeAndPrivate, Serving
  <1>2. ServingIsReachable
    <2>1. ASSUME NEW d \in Daemons, daemon[d] = "serving", disk.os # "unix" PROVE ~pipe.notFound /\ Instances > 0
      <3>1. pipe.listening + pipe.pending = 1 /\ ~pipe.notFound BY <2>1 DEF StateInv, EndpointKept, Listening
      <3>2. pipe.streams \in Nat /\ pipe.listening \in {0, 1} /\ pipe.pending \in {0, 1}
        BY DEF StateInv, StateTypes, PipeType
      <3> QED BY <3>1, <3>2 DEF Instances
    <2>2. ASSUME NEW d \in Daemons, daemon[d] = "serving", disk.os = "unix" PROVE disk.sock = d
      BY <2>2 DEF StateInv, EndpointKept, Listening
    <2> QED BY <2>1, <2>2 DEF ServingIsReachable
  <1>3. TimeoutLosesNothing BY DEF StateInv, IoKept, TimeoutLosesNothing
  <1>4. RetiredMeansGone /\ StopReachesRecorded BY DEF StateInv, RetireKept, RetiredMeansGone, StopReachesRecorded
  <1> QED BY <1>1, <1>2, <1>3, <1>4 DEF StateDirIsSound

\* For any number of daemons and connections, with kills between any two steps:
\* the record is whole and private, a daemon that serves is reached, an operation
\* that timed out had no effect, and retirement stops the recorded daemon and
\* no other (state_perms.rs:321, control.rs:802, legacy.rs:128).
THEOREM StateDirStaysSound == StateSpec => []StateDirIsSound
  <1>1. StateInv /\ [StateNext]_svars => StateInv' BY StateKeeps
  <1>2. StateInit => StateInv BY StateStarts
  <1>3. StateInv => StateDirIsSound BY TheStateDirIsSound
  <1> QED BY <1>1, <1>2, <1>3, PTL DEF StateSpec

-----------------------------------------------------------------------------
(* The installer                                                           *)

InstRuns == {"clear", "download", "verify", "extract", "copying", "refresh", "mirror"}
IsTree(t) == t = [f \in DOMAIN t |-> t[f]]

BootTypes ==
    /\ DOMAIN root = PlainVersions /\ \A v \in PlainVersions : IsTree(root[v])
    /\ current \in [files : {current.files}, version : {current.version}] /\ IsTree(current.files)
    /\ marks \in [torn : {marks.torn}, loose : {marks.loose}, currentLoose : BOOLEAN]
    /\ inst.pc \in InstRuns \cup {"idle", "ok", "err"}
    /\ inst.pc \in InstRuns =>
          inst \in [pc : InstRuns, release : Releases, wheel : {inst.wheel}, left : {inst.left}, found : BOOLEAN]
    /\ inst.pc \in InstRuns \cup {"ok"} => inst.release \in Releases /\ V \in PlainVersions

\* A version that was not cut short is empty or one wheel; while a wheel is being
\* unpacked, its files are those that are there and those still to come.
TreesKept ==
    /\ \A v \in PlainVersions \ marks.torn : DOMAIN root[v] = {} \/ \E w \in DOMAIN Wheels : root[v] = Unpacked(w)
    /\ inst.pc \in {"download", "verify"} => DOMAIN root[V] = {}
    /\ inst.pc \in {"clear", "download", "verify"} => ~inst.found
    /\ inst.pc \in {"verify", "extract", "copying"} => inst.wheel \in DOMAIN Wheels
    /\ inst.pc \in {"extract", "copying"} =>
          /\ inst.left \in Seq(ToSet(Wheels[inst.wheel]))
          /\ DOMAIN root[V] \cup Targets(inst.left) = Targets(Wheels[inst.wheel])
          /\ \A f \in DOMAIN root[V] : \/ root[V][f] = <<inst.wheel, "whole">>
                                      \/ /\ inst.pc = "copying" /\ f = Target(Head(inst.left))[1]
                                         /\ root[V][f] = <<inst.wheel, "part">>
          /\ V \notin marks.torn => DOMAIN root[V] = {}
          /\ inst.found => \E f \in DOMAIN root[V] : IsHyperd(f)
          /\ Verified(Sha256For(inst.release, Host), inst.wheel)
    /\ inst.pc = "copying" => /\ inst.left # <<>> /\ Target(Head(inst.left)) # <<>>
                              /\ Target(Head(inst.left))[1] \in DOMAIN root[V]
    /\ inst.pc \in {"refresh", "mirror", "ok"} => ExeName \in DOMAIN root[V]

\* current/ holds files of the version that is mirrored, and in the end all of them.
CurrentKept ==
    /\ inst.pc = "mirror" => /\ \A f \in DOMAIN current.files : f \in DOMAIN root[V] /\ current.files[f] = root[V][f]
                             /\ marks.currentLoose <=> V \in marks.loose
    /\ inst.pc = "ok" => current.files = root[V] /\ current.version = V

\* What the verdict and the error of an install were decided from.
VerdictKept ==
    /\ verdict # NoVerdict => /\ verdict.host = "Unknown" \/ verdict.host = CompareDigests(verdict.release, Host)
                              /\ verdict.ok => HasWheelTag(verdict.release, Host)
    /\ inst.pc = "err" /\ inst.why = "checksum" => ~Verified(Sha256For(inst.release, Host), inst.wheel)
    /\ inst.pc = "err" /\ inst.why = "wheel tag" => ~HasWheelTag(inst.release, Host)

BootInv == BootTypes /\ TreesKept /\ CurrentKept /\ UnverifiedIsNeverInstalled /\ VerdictKept

LEMMA TargetIs == ASSUME NEW e PROVE Target(e) = <<>> \/ (Target(e) = <<Target(e)[1]>> /\ ToSet(Target(e)) = {Target(e)[1]})
  <1> DEFINE p == StripLibHyperPrefix(e.path)
  <1>1. p = <<>> \/ \E x : p = <<x>> BY DEF StripLibHyperPrefix
  <1> HIDE DEF p
  <1>2. Target(e) = <<>> \/ Target(e) = p BY DEF Target, p
  <1>3. \A x : <<x>>[1] = x /\ ToSet(<<x>>) = {x} BY DEF ToSet
  <1> QED BY <1>1, <1>2, <1>3

LEMMA TargetsOfNone == Targets(<<>>) = {} /\ ToSet(<<>>) = {}
  BY DEF Targets, ToSet

LEMMA TargetsOfSome ==
  ASSUME NEW S, NEW s \in Seq(S), s # <<>>
  PROVE  Targets(s) = ToSet(Target(Head(s))) \cup Targets(Tail(s)) /\ Tail(s) \in Seq(S) /\ Head(s) \in S
  <1>1. /\ Len(s) \in Nat /\ Len(s) > 0 /\ DOMAIN s = 1 .. Len(s) /\ Head(s) = s[1] /\ Head(s) \in S
        /\ Tail(s) \in Seq(S) /\ Len(Tail(s)) = Len(s) - 1 /\ DOMAIN Tail(s) = 1 .. Len(Tail(s))
        /\ \A i \in 1 .. Len(Tail(s)) : Tail(s)[i] = s[i + 1]
    BY EmptySeq, LenProperties, HeadTailProperties
  <1>2. ToSet(s) = {Head(s)} \cup ToSet(Tail(s))
    <2>1. ASSUME NEW x \in ToSet(s) PROVE x = Head(s) \/ x \in ToSet(Tail(s))
      <3>1. PICK i \in 1 .. Len(s) : x = s[i] BY <1>1 DEF ToSet
      <3>2. CASE i = 1 BY <1>1, <3>1, <3>2
      <3>3. CASE i # 1
        <4>1. i - 1 \in 1 .. Len(Tail(s)) /\ Tail(s)[i - 1] = s[i] BY <1>1, <3>3
        <4> QED BY <1>1, <3>1, <4>1 DEF ToSet
      <3> QED BY <3>2, <3>3
    <2>2. Head(s) \in ToSet(s) BY <1>1 DEF ToSet
    <2>3. ASSUME NEW x \in ToSet(Tail(s)) PROVE x \in ToSet(s)
      <3>1. PICK i \in 1 .. Len(Tail(s)) : x = Tail(s)[i] BY <1>1 DEF ToSet
      <3>2. i + 1 \in 1 .. Len(s) /\ x = s[i + 1] BY <1>1, <3>1
      <3> QED BY <1>1, <3>2 DEF ToSet
    <2> QED BY <2>1, <2>2, <2>3
  <1> QED BY <1>1, <1>2 DEF Targets

\* An install that stopped, and a verdict, change no file.
LEMMA InstStops ==
  ASSUME BootInv, UNCHANGED <<root, current, marks>>, inst'.pc \in {"idle", "err"}, VerdictKept'
  PROVE  BootInv'
  <1>1. BootTypes' BY DEF BootInv, BootTypes, InstRuns
  <1>2. TreesKept' BY DEF BootInv, TreesKept
  <1>3. CurrentKept' BY DEF BootInv, CurrentKept
  <1>4. UnverifiedIsNeverInstalled' BY DEF BootInv, UnverifiedIsNeverInstalled
  <1> QED BY <1>1, <1>2, <1>3, <1>4 DEF BootInv

LEMMA StepFailsKeeps == ASSUME BootInv, StepFails PROVE BootInv'
  <1>1. inst'.pc = "idle" /\ UNCHANGED <<root, current, marks, verdict>> BY DEF StepFails, Quiet
  <1>2. VerdictKept' BY <1>1 DEF BootInv, VerdictKept
  <1> QED BY <1>1, <1>2, InstStops

LEMMA ResolveFailsKeeps == ASSUME BootInv, ResolveFails PROVE BootInv'
  <1>1. inst'.pc = "err" /\ inst'.why = "platform or version file" /\ UNCHANGED <<root, current, marks, verdict>>
    BY DEF ResolveFails
  <1>2. VerdictKept' BY <1>1 DEF BootInv, VerdictKept
  <1> QED BY <1>1, <1>2, InstStops

LEMMA VerifyReleaseKeeps ==
  ASSUME BootInv, NEW r \in Releases, NEW readable \in BOOLEAN, NEW heads, VerifyRelease(r, readable, heads)
  PROVE  BootInv'
  <1>1. inst'.pc = "idle" /\ UNCHANGED <<root, current, marks>> BY DEF VerifyRelease, Quiet
  <1> DEFINE out == [p \in Platforms |->
                     [status |-> IF HasWheelTag(r, p) THEN heads[p] ELSE NoStatus,
                      digest |-> DigestStatuses(r, readable)[p]]]
             fine == \A p \in Platforms : OutcomeOk(out[p])
  <1>2. verdict'.release = r /\ verdict'.host = out[Host].digest /\ verdict'.ok = fine BY DEF VerifyRelease
  <1>3. Host \in Platforms BY DEF Host, Platforms
  <1>4. out[Host].digest = "Unknown" \/ out[Host].digest = CompareDigests(r, Host) BY <1>3 DEF DigestStatuses
  <1>5. fine => HasWheelTag(r, Host)
    <2>1. ~HasWheelTag(r, Host) => out[Host].status = 0 BY <1>3 DEF NoStatus
    <2>2. 0 \notin 200 .. 399 OBVIOUS
    <2> QED BY <1>3, <2>1, <2>2 DEF OutcomeOk
  <1> HIDE DEF out, fine
  <1>6. VerdictKept' BY <1>1, <1>2, <1>4, <1>5 DEF VerdictKept
  <1> QED BY <1>1, <1>6, InstStops

LEMMA InstallKeeps == ASSUME BootInv, NEW r \in Releases, NEW force \in BOOLEAN, Install(r, force) PROVE BootInv'
  <1>1. UNCHANGED <<root, current, marks>> BY DEF Install
  <1>2. verdict' = verdict \/ verdict' = NoVerdict BY DEF Install
  <1>3. CASE ~ValidateVersion(r)
    <2>0. inst' = [pc |-> "err", release |-> r, why |-> "version", wheel |-> ""] BY <1>3 DEF Install
    <2>1. inst'.pc = "err" /\ inst'.why = "version" BY <2>0
    <2>2. VerdictKept' BY <1>2, <2>1 DEF BootInv, VerdictKept
    <2> QED BY <1>1, <2>1, <2>2, InstStops
  <1>4. CASE ValidateVersion(r)
    <2> DEFINE p == IF CacheHit(r, force) THEN "refresh" ELSE "clear"
    <2>1. inst' = [pc |-> p, release |-> r, wheel |-> "", left |-> <<>>, found |-> FALSE] BY <1>4 DEF Install
    <2>2. r.version \in PlainVersions BY <1>4 DEF ValidateVersion, PlainVersions
    <2>3. p \in {"refresh", "clear"} /\ (p = "refresh" => ExeName \in DOMAIN root[r.version]) BY DEF CacheHit
    <2> HIDE DEF p
    <2>4. V' = r.version BY <2>1 DEF V
    <2>5. BootTypes' BY <1>1, <2>1, <2>2, <2>3, <2>4 DEF BootInv, BootTypes, InstRuns
    <2>6. TreesKept' BY <1>1, <2>1, <2>3, <2>4 DEF BootInv, TreesKept
    <2>7. CurrentKept' BY <1>1, <2>1, <2>3 DEF BootInv, CurrentKept
    <2>8. UnverifiedIsNeverInstalled' BY <1>1 DEF BootInv, UnverifiedIsNeverInstalled
    <2>9. VerdictKept' BY <1>2, <2>1, <2>3 DEF BootInv, VerdictKept
    <2> QED BY <2>5, <2>6, <2>7, <2>8, <2>9 DEF BootInv
  <1> QED BY <1>3, <1>4

\* The place of an install that goes on, and the fields it has.
LEMMA InstFields ==
  ASSUME BootInv, inst.pc \in InstRuns
  PROVE  /\ inst \in [pc : InstRuns, release : Releases, wheel : {inst.wheel}, left : {inst.left}, found : BOOLEAN]
         /\ inst.release \in Releases /\ V \in PlainVersions
         /\ \A p \in InstRuns : LET i == [inst EXCEPT !.pc = p]
                                IN  /\ i.pc = p /\ i.release = inst.release /\ i.wheel = inst.wheel
                                    /\ i.left = inst.left /\ i.found = inst.found
                                    /\ i \in [pc : InstRuns, release : Releases, wheel : {i.wheel}, left : {i.left},
                                              found : BOOLEAN]
  BY DEF BootInv, BootTypes

LEMMA ClearVersionKeeps == ASSUME BootInv, ClearVersion PROVE BootInv'
  <1>1. /\ inst.pc = "clear" /\ root' = [root EXCEPT ![V] = NoFiles] /\ UNCHANGED <<current, verdict>>
        /\ marks' = [marks EXCEPT !.torn = marks.torn \ {V}, !.loose = marks.loose \ {V}]
    BY DEF ClearVersion, InstAt
  <1>2. V \in PlainVersions /\ "clear" \in InstRuns /\ "download" \in InstRuns BY <1>1, InstFields DEF InstRuns
  <1>3. /\ marks' \in [torn : {marks'.torn}, loose : {marks'.loose}, currentLoose : BOOLEAN]
        /\ marks'.torn = marks.torn \ {V} /\ marks'.loose = marks.loose \ {V} /\ marks'.currentLoose = marks.currentLoose
    BY <1>1 DEF BootInv, BootTypes
  <1>4. DOMAIN NoFiles = {} /\ IsTree(NoFiles) BY DEF NoFiles, IsTree
  <1>5. /\ DOMAIN root' = PlainVersions /\ root'[V] = NoFiles
        /\ \A v \in PlainVersions \ {V} : root'[v] = root[v]
    BY <1>1, <1>2 DEF BootInv, BootTypes
  <1>6. UnverifiedIsNeverInstalled'
    BY <1>1, <1>3, <1>4, <1>5 DEF BootInv, UnverifiedIsNeverInstalled
  <1>7. \A v \in PlainVersions : IsTree(root'[v]) BY <1>4, <1>5 DEF BootInv, BootTypes
  <1>8. \A v \in PlainVersions \ marks'.torn :
           DOMAIN root'[v] = {} \/ \E w \in DOMAIN Wheels : root'[v] = Unpacked(w)
    BY <1>3, <1>4, <1>5 DEF BootInv, TreesKept
  <1>9. CASE HasWheelTag(inst.release, Host)
    <2>1. inst' = [inst EXCEPT !.pc = "download"] BY <1>9 DEF ClearVersion, InstGo
    <2>2. /\ inst'.pc = "download" /\ inst'.release = inst.release /\ inst'.found = inst.found
          /\ inst' \in [pc : InstRuns, release : Releases, wheel : {inst'.wheel}, left : {inst'.left}, found : BOOLEAN]
      BY <2>1, <1>1, <1>2, InstFields
    <2>3. V' = V BY <2>2 DEF V
    <2>4. inst.release \in Releases BY <1>1, <1>2, InstFields
    <2>5. BootTypes' BY <1>1, <1>2, <1>3, <1>5, <1>7, <2>2, <2>3, <2>4 DEF BootInv, BootTypes
    <2>6. TreesKept'
      <3>1. ~inst.found BY <1>1 DEF BootInv, TreesKept
      <3> QED BY <1>4, <1>5, <1>8, <2>2, <2>3, <3>1 DEF TreesKept
    <2>7. CurrentKept' BY <2>2 DEF CurrentKept
    <2>8. VerdictKept' BY <1>1, <2>2 DEF BootInv, VerdictKept
    <2> QED BY <1>6, <2>5, <2>6, <2>7, <2>8 DEF BootInv
  <1>10. CASE ~HasWheelTag(inst.release, Host)
    <2>0. Fail("wheel tag") BY <1>10 DEF ClearVersion
    <2>1. inst'.pc = "err" /\ inst'.why = "wheel tag" /\ inst'.release = inst.release BY <2>0 DEF Fail
    <2>2. BootTypes' BY <1>1, <1>3, <1>5, <1>7, <2>1 DEF BootInv, BootTypes, InstRuns
    <2>3. TreesKept' BY <1>8, <2>1 DEF TreesKept
    <2>4. CurrentKept' BY <2>1 DEF CurrentKept
    <2>5. VerdictKept' BY <1>1, <1>10, <2>1 DEF BootInv, VerdictKept
    <2> QED BY <1>6, <2>2, <2>3, <2>4, <2>5 DEF BootInv
  <1> QED BY <1>9, <1>10

LEMMA DownloadKeeps == ASSUME BootInv, NEW w \in DOMAIN Wheels, Download(w) PROVE BootInv'
  <1>1. inst.pc = "download" /\ inst' = [inst EXCEPT !.pc = "verify", !.wheel = w] /\ UNCHANGED <<root, current, verdict, marks>>
    BY DEF Download, InstAt
  <1>2. inst.pc \in InstRuns /\ "verify" \in InstRuns BY <1>1 DEF InstRuns
  <1>3. inst \in [pc : InstRuns, release : Releases, wheel : {inst.wheel}, left : {inst.left}, found : BOOLEAN]
    BY <1>2, InstFields
  <1>4. /\ inst'.pc = "verify" /\ inst'.wheel = w /\ inst'.release = inst.release /\ inst'.found = inst.found
        /\ inst' \in [pc : InstRuns, release : Releases, wheel : {inst'.wheel}, left : {inst'.left}, found : BOOLEAN]
    BY <1>1, <1>2, <1>3
  <1>5. V' = V BY <1>4 DEF V
  <1>6. BootTypes' BY <1>1, <1>2, <1>4, <1>5 DEF BootInv, BootTypes
  <1>7. TreesKept' BY <1>1, <1>4, <1>5 DEF BootInv, TreesKept
  <1>8. CurrentKept' BY <1>4 DEF CurrentKept
  <1>9. UnverifiedIsNeverInstalled' BY <1>1 DEF BootInv, UnverifiedIsNeverInstalled
  <1>10. VerdictKept' BY <1>1, <1>4 DEF BootInv, VerdictKept
  <1> QED BY <1>6, <1>7, <1>8, <1>9, <1>10 DEF BootInv

LEMMA VerifyWheelKeeps == ASSUME BootInv, VerifyWheel PROVE BootInv'
  <1>1. inst.pc = "verify" /\ UNCHANGED <<root, current, verdict, marks>> BY DEF VerifyWheel, InstAt
  <1>2. inst.pc \in InstRuns /\ "extract" \in InstRuns BY <1>1 DEF InstRuns
  <1>3. CASE Verified(Sha256For(inst.release, Host), inst.wheel)
    <2> DEFINE s == Wheels[inst.wheel]
    <2>1. inst' = [inst EXCEPT !.pc = "extract", !.left = s] BY <1>3 DEF VerifyWheel
    <2>2. inst.wheel \in DOMAIN Wheels /\ DOMAIN root[V] = {} BY <1>1 DEF BootInv, TreesKept
    <2>3. s \in Seq(ToSet(s)) BY <2>2, WheelsAssumption
    <2> HIDE DEF s
    <2>4. inst \in [pc : InstRuns, release : Releases, wheel : {inst.wheel}, left : {inst.left}, found : BOOLEAN]
      BY <1>2, InstFields
    <2>5. /\ inst'.pc = "extract" /\ inst'.wheel = inst.wheel /\ inst'.release = inst.release /\ inst'.left = s
          /\ inst'.found = inst.found
          /\ inst' \in [pc : InstRuns, release : Releases, wheel : {inst'.wheel}, left : {inst'.left}, found : BOOLEAN]
      BY <2>1, <1>2, <2>4
    <2>6. V' = V BY <2>5 DEF V
    <2>7. ~inst.found BY <1>1 DEF BootInv, TreesKept
    <2>8. BootTypes' BY <1>1, <1>2, <2>5, <2>6 DEF BootInv, BootTypes
    <2>9. TreesKept'
      <3>1. \A f \in DOMAIN root[V] : FALSE BY <2>2
      <3>2. \A v \in PlainVersions \ marks.torn : DOMAIN root[v] = {} \/ \E w \in DOMAIN Wheels : root[v] = Unpacked(w)
        BY DEF BootInv, TreesKept
      <3> QED BY <1>1, <1>3, <2>2, <2>3, <2>5, <2>6, <2>7, <3>1, <3>2 DEF TreesKept, s
    <2>10. CurrentKept' BY <2>5 DEF CurrentKept
    <2>11. UnverifiedIsNeverInstalled' BY <1>1 DEF BootInv, UnverifiedIsNeverInstalled
    <2>12. VerdictKept' BY <1>1, <2>5 DEF BootInv, VerdictKept
    <2> QED BY <2>8, <2>9, <2>10, <2>11, <2>12 DEF BootInv
  <1>4. CASE ~Verified(Sha256For(inst.release, Host), inst.wheel)
    <2>1. inst'.pc = "err" /\ inst'.why = "checksum" /\ inst'.release = inst.release /\ inst'.wheel = inst.wheel
      BY <1>4 DEF VerifyWheel, Fail
    <2>2. VerdictKept' BY <1>1, <1>4, <2>1 DEF BootInv, VerdictKept
    <2> QED BY <1>1, <2>1, <2>2, InstStops
  <1> QED BY <1>3, <1>4

LEMMA ExtractEntryKeeps == ASSUME BootInv, ExtractEntry PROVE BootInv'
  <1>1. inst.pc = "extract" /\ inst.left # <<>> /\ UNCHANGED <<current, verdict>> BY DEF ExtractEntry, InstAt
  <1>2. inst.pc \in InstRuns /\ "copying" \in InstRuns /\ "extract" \in InstRuns BY <1>1 DEF InstRuns
  <1>3. /\ inst \in [pc : InstRuns, release : Releases, wheel : {inst.wheel}, left : {inst.left}, found : BOOLEAN]
        /\ inst.release \in Releases /\ V \in PlainVersions
    BY <1>2, InstFields
  <1>4. /\ inst.wheel \in DOMAIN Wheels /\ inst.left \in Seq(ToSet(Wheels[inst.wheel]))
        /\ DOMAIN root[V] \cup Targets(inst.left) = Targets(Wheels[inst.wheel])
        /\ \A f \in DOMAIN root[V] : root[V][f] = <<inst.wheel, "whole">>
        /\ V \notin marks.torn => DOMAIN root[V] = {}
        /\ inst.found => \E f \in DOMAIN root[V] : IsHyperd(f)
        /\ Verified(Sha256For(inst.release, Host), inst.wheel)
    BY <1>1 DEF BootInv, TreesKept
  <1> DEFINE rel == Target(Head(inst.left))
             rest == Tail(inst.left)
             S == ToSet(Wheels[inst.wheel])
  <1>5. Targets(inst.left) = ToSet(rel) \cup Targets(rest) /\ rest \in Seq(S)
    BY <1>1, <1>4, TargetsOfSome
  <1>6. \A v \in PlainVersions \ marks.torn : DOMAIN root[v] = {} \/ \E w \in DOMAIN Wheels : root[v] = Unpacked(w)
    BY DEF BootInv, TreesKept
  <1>7. CASE rel = <<>>
    <2>1. inst' = [inst EXCEPT !.left = rest] /\ UNCHANGED <<root, marks>> BY <1>7 DEF ExtractEntry
    <2>2. ToSet(rel) = {} BY <1>7, TargetsOfNone
    <2>3. Targets(rest) = Targets(inst.left) BY <1>5, <2>2
    <2> HIDE DEF rest, S, rel
    <2>4. /\ inst'.pc = "extract" /\ inst'.wheel = inst.wheel /\ inst'.release = inst.release /\ inst'.left = rest
          /\ inst'.found = inst.found
          /\ inst' \in [pc : InstRuns, release : Releases, wheel : {inst'.wheel}, left : {inst'.left}, found : BOOLEAN]
      BY <2>1, <1>1, <1>3
    <2>5. V' = V BY <2>4 DEF V
    <2>6. BootTypes' BY <1>1, <1>2, <1>3, <2>1, <2>4, <2>5 DEF BootInv, BootTypes
    <2>7. TreesKept'
      <3>1. inst'.left \in Seq(ToSet(Wheels[inst'.wheel])) BY <1>5, <2>4 DEF S
      <3>2. DOMAIN root'[V'] \cup Targets(inst'.left) = Targets(Wheels[inst'.wheel]) BY <1>4, <2>1, <2>3, <2>4, <2>5
      <3>3. /\ \A f \in DOMAIN root'[V'] : root'[V'][f] = <<inst'.wheel, "whole">>
            /\ V' \notin marks'.torn => DOMAIN root'[V'] = {}
            /\ inst'.found => \E f \in DOMAIN root'[V'] : IsHyperd(f)
            /\ Verified(Sha256For(inst'.release, Host), inst'.wheel)
        BY <1>4, <2>1, <2>4, <2>5
      <3> QED BY <1>4, <1>6, <2>1, <2>4, <3>1, <3>2, <3>3 DEF TreesKept
    <2>8. CurrentKept' BY <2>4 DEF CurrentKept
    <2>9. UnverifiedIsNeverInstalled' BY <1>1, <2>1 DEF BootInv, UnverifiedIsNeverInstalled
    <2>10. VerdictKept' BY <1>1, <2>4 DEF BootInv, VerdictKept
    <2> QED BY <2>6, <2>7, <2>8, <2>9, <2>10 DEF BootInv
  <1>8. CASE rel # <<>>
    <2> DEFINE f0 == rel[1]
               c0 == <<inst.wheel, "part">>
               t0 == marks.torn \cup {V}
               l0 == IF Sha256For(inst.release, Host) = Unpinned THEN marks.loose \cup {V} ELSE marks.loose
               placed == PutFile(root[V], f0, c0)
    <2>1. /\ inst' = [inst EXCEPT !.pc = "copying"] /\ root' = [root EXCEPT ![V] = placed]
          /\ marks' = [marks EXCEPT !.torn = t0, !.loose = l0]
      BY <1>8 DEF ExtractEntry
    <2>2. IsTree(root[V]) /\ DOMAIN root = PlainVersions BY <1>3 DEF BootInv, BootTypes
    <2>3. /\ IsTree(placed) /\ DOMAIN placed = DOMAIN root[V] \cup {f0} /\ placed[f0] = c0
          /\ \A g \in DOMAIN root[V] \ {f0} : placed[g] = root[V][g]
      <3> DEFINE tree == root[V]
      <3>1. IsTree(tree) BY <2>2
      <3> HIDE DEF tree, f0, c0
      <3>2. LET put == PutFile(tree, f0, c0)
            IN  /\ IsTree(put) /\ DOMAIN put = DOMAIN tree \cup {f0} /\ put[f0] = c0
                /\ \A g \in DOMAIN tree \ {f0} : put[g] = tree[g]
        BY <3>1 DEF PutFile, IsTree
      <3> QED BY <3>2 DEF tree
    <2>4. /\ inst'.pc = "copying" /\ inst'.wheel = inst.wheel /\ inst'.release = inst.release
          /\ inst'.left = inst.left /\ inst'.found = inst.found
          /\ inst' \in [pc : InstRuns, release : Releases, wheel : {inst'.wheel}, left : {inst'.left}, found : BOOLEAN]
      BY <2>1, <1>2, <1>3
    <2>5. V' = V BY <2>4 DEF V
    <2>6. ToSet(rel) = {f0} BY <1>8, TargetIs
    <2>7. Target(Head(inst.left)) = rel /\ Target(Head(inst.left))[1] = f0 OBVIOUS
    <2>8. /\ V \in t0 /\ (\A v \in PlainVersions \ t0 : v # V /\ v \notin marks.torn)
          /\ marks.loose \subseteq l0 /\ (V \notin l0 => Pinned(inst.wheel, V))
      <3>1. Sha256For(inst.release, Host) # Unpinned => Pinned(inst.wheel, V)
        BY <1>3, <1>4 DEF Verified, Pinned, V
      <3> QED BY <3>1
    <2> HIDE DEF rel, rest, S, f0, t0, l0, placed
    <2>9. /\ marks' \in [torn : {marks'.torn}, loose : {marks'.loose}, currentLoose : BOOLEAN]
          /\ marks'.torn = t0 /\ marks'.loose = l0 /\ marks'.currentLoose = marks.currentLoose
      BY <2>1 DEF BootInv, BootTypes
    <2>10. DOMAIN root' = PlainVersions /\ root'[V] = placed /\ \A v \in PlainVersions \ {V} : root'[v] = root[v]
      BY <2>1, <2>2, <1>3
    <2>11. BootTypes'
      <3>1. \A v \in PlainVersions : IsTree(root'[v]) BY <2>3, <2>10 DEF BootInv, BootTypes
      <3> QED BY <1>1, <1>2, <1>3, <2>4, <2>5, <2>9, <2>10, <3>1 DEF BootInv, BootTypes
    <2>12. TreesKept'
      <3>1. \A v \in PlainVersions \ marks'.torn :
               DOMAIN root'[v] = {} \/ \E w \in DOMAIN Wheels : root'[v] = Unpacked(w)
        BY <1>6, <2>8, <2>9, <2>10
      <3>2. DOMAIN placed \cup Targets(inst.left) = Targets(Wheels[inst.wheel]) BY <1>4, <1>5, <2>3, <2>6
      <3>3. \A f \in DOMAIN placed : placed[f] = <<inst.wheel, "whole">> \/ (f = f0 /\ placed[f] = <<inst.wheel, "part">>)
        BY <1>4, <2>3
      <3>4. inst.found => \E f \in DOMAIN placed : IsHyperd(f) BY <1>4, <2>3
      <3>5. root'[V'] = placed BY <2>5, <2>10
      <3>6. V' \in marks'.torn BY <2>5, <2>8, <2>9
      <3>7. f0 \in DOMAIN placed BY <2>3
      <3> QED BY <1>1, <1>4, <1>8, <2>4, <2>7, <3>1, <3>2, <3>3, <3>4, <3>5, <3>6, <3>7 DEF TreesKept
    <2>13. CurrentKept' BY <2>4 DEF CurrentKept
    <2>14. UnverifiedIsNeverInstalled'
      <3>1. ASSUME NEW v \in PlainVersions \ l0, NEW f \in DOMAIN root'[v] PROVE Pinned(root'[v][f][1], v)
        <4>1. v \in PlainVersions \ marks.loose BY <2>8
        <4>2. \A g \in DOMAIN root[v] : Pinned(root[v][g][1], v) BY <4>1 DEF BootInv, UnverifiedIsNeverInstalled
        <4>3. CASE v # V BY <2>10, <4>2, <4>3
        <4>4. CASE v = V /\ f = f0
          <5>1. root'[v][f] = c0 BY <2>3, <2>10, <4>4
          <5> QED BY <5>1, <2>8, <4>4
        <4>5. CASE v = V /\ f # f0
          <5>1. f \in DOMAIN root[V] /\ root'[v][f] = root[V][f] BY <2>3, <2>10, <4>5
          <5> QED BY <5>1, <4>2, <4>5
        <4> QED BY <4>3, <4>4, <4>5
      <3> QED BY <1>1, <2>9, <3>1 DEF BootInv, UnverifiedIsNeverInstalled
    <2>15. VerdictKept' BY <1>1, <2>4 DEF BootInv, VerdictKept
    <2> QED BY <2>11, <2>12, <2>13, <2>14, <2>15 DEF BootInv
  <1> QED BY <1>7, <1>8

LEMMA CopyEntryKeeps == ASSUME BootInv, CopyEntry PROVE BootInv'
  <1>1. inst.pc = "copying" /\ UNCHANGED <<current, verdict, marks>> BY DEF CopyEntry, InstAt
  <1>2. inst.pc \in InstRuns /\ "extract" \in InstRuns BY <1>1 DEF InstRuns
  <1>3. /\ inst \in [pc : InstRuns, release : Releases, wheel : {inst.wheel}, left : {inst.left}, found : BOOLEAN]
        /\ inst.release \in Releases /\ V \in PlainVersions
    BY <1>2, InstFields
  <1> DEFINE rel == Target(Head(inst.left))
             f0 == rel[1]
             rest == Tail(inst.left)
             S == ToSet(Wheels[inst.wheel])
             found == inst.found \/ IsHyperd(f0)
             c0 == <<inst.wheel, "whole">>
             placed == [root[V] EXCEPT ![f0] = c0]
  <1>4. /\ inst.wheel \in DOMAIN Wheels /\ inst.left \in Seq(S) /\ inst.left # <<>>
        /\ DOMAIN root[V] \cup Targets(inst.left) = Targets(Wheels[inst.wheel])
        /\ V \notin marks.torn => DOMAIN root[V] = {}
        /\ inst.found => \E f \in DOMAIN root[V] : IsHyperd(f)
        /\ Verified(Sha256For(inst.release, Host), inst.wheel)
        /\ rel # <<>> /\ f0 \in DOMAIN root[V]
    <2>1. inst.pc \in {"extract", "copying"} /\ inst.pc \in {"verify", "extract", "copying"} BY <1>1
    <2>2. /\ inst.wheel \in DOMAIN Wheels /\ inst.left \in Seq(S) /\ inst.left # <<>>
          /\ rel # <<>> /\ f0 \in DOMAIN root[V]
      BY <1>1, <2>1 DEF BootInv, TreesKept
    <2>3. /\ DOMAIN root[V] \cup Targets(inst.left) = Targets(Wheels[inst.wheel])
          /\ V \notin marks.torn => DOMAIN root[V] = {}
          /\ inst.found => \E f \in DOMAIN root[V] : IsHyperd(f)
          /\ Verified(Sha256For(inst.release, Host), inst.wheel)
      BY <2>1 DEF BootInv, TreesKept
    <2> QED BY <2>2, <2>3
  <1>5. ASSUME NEW f \in DOMAIN root[V]
         PROVE  root[V][f][1] = inst.wheel /\ (f # f0 => root[V][f] = <<inst.wheel, "whole">>)
    <2>1. TreesKept /\ inst.pc \in {"extract", "copying"} BY <1>1 DEF BootInv
    <2>2. \/ root[V][f] = <<inst.wheel, "whole">>
          \/ /\ inst.pc = "copying" /\ f = Target(Head(inst.left))[1]
             /\ root[V][f] = <<inst.wheel, "part">>
      BY <2>1, Zenon DEF TreesKept
    <2>3. CASE root[V][f] = <<inst.wheel, "whole">> BY <2>3
    <2>4. CASE f = Target(Head(inst.left))[1] /\ root[V][f] = <<inst.wheel, "part">> BY <2>4
    <2> QED BY <2>2, <2>3, <2>4
  <1>6. Targets(inst.left) = ToSet(rel) \cup Targets(rest) /\ rest \in Seq(S)
    BY <1>4, TargetsOfSome
  <1>7. ToSet(rel) = {f0} BY <1>4, TargetIs
  <1>8. IsTree(root[V]) /\ DOMAIN root = PlainVersions BY <1>3 DEF BootInv, BootTypes
  <1>9. root' = [root EXCEPT ![V] = placed] BY <1>3, <1>8 DEF CopyEntry
  <1>10. found \in BOOLEAN /\ inst' = [inst EXCEPT !.pc = "extract", !.left = rest, !.found = found]
    <2>1. inst.found \in BOOLEAN BY <1>3
    <2>2. IsHyperd(f0) \in BOOLEAN BY DEF IsHyperd
    <2> QED BY <2>1, <2>2 DEF CopyEntry
  <1>11. /\ IsTree(placed) /\ DOMAIN placed = DOMAIN root[V] /\ placed[f0] = c0
         /\ \A g \in DOMAIN root[V] \ {f0} : placed[g] = root[V][g]
    <2> DEFINE tree == root[V]
    <2>1. IsTree(tree) /\ f0 \in DOMAIN tree BY <1>4, <1>8
    <2> HIDE DEF tree, f0, c0
    <2>2. LET put == [tree EXCEPT ![f0] = c0]
          IN  /\ IsTree(put) /\ DOMAIN put = DOMAIN tree /\ put[f0] = c0
              /\ \A g \in DOMAIN tree \ {f0} : put[g] = tree[g]
      BY <2>1 DEF IsTree
    <2> QED BY <2>2 DEF tree
  <1>12. found => \E f \in DOMAIN placed : IsHyperd(f) BY <1>4, <1>11
  <1> HIDE DEF rel, rest, S, f0, placed, found
  <1>13. DOMAIN root' = PlainVersions /\ root'[V] = placed /\ \A v \in PlainVersions \ {V} : root'[v] = root[v]
    BY <1>3, <1>8, <1>9
  <1>14. /\ inst'.pc = "extract" /\ inst'.wheel = inst.wheel /\ inst'.release = inst.release
         /\ inst'.left = rest /\ inst'.found = found
         /\ inst' \in [pc : InstRuns, release : Releases, wheel : {inst'.wheel}, left : {inst'.left}, found : BOOLEAN]
    BY <1>2, <1>3, <1>10
  <1>15. V' = V BY <1>14 DEF V
  <1>16. BootTypes'
    <2>1. \A v \in PlainVersions : IsTree(root'[v]) BY <1>11, <1>13 DEF BootInv, BootTypes
    <2> QED BY <1>1, <1>2, <1>3, <1>13, <1>14, <1>15, <2>1 DEF BootInv, BootTypes
  <1>17. TreesKept'
    <2>1. V \in marks.torn BY <1>4
    <2>2. \A v \in PlainVersions \ marks.torn : DOMAIN root'[v] = {} \/ \E w \in DOMAIN Wheels : root'[v] = Unpacked(w)
      BY <1>13, <2>1 DEF BootInv, TreesKept
    <2>3. DOMAIN placed \cup Targets(rest) = Targets(Wheels[inst.wheel]) BY <1>4, <1>6, <1>7, <1>11
    <2>4. \A f \in DOMAIN placed : placed[f] = <<inst.wheel, "whole">> BY <1>5, <1>11
    <2>5. root'[V'] = placed BY <1>13, <1>15
    <2>6. inst'.left \in Seq(ToSet(Wheels[inst'.wheel])) BY <1>6, <1>14 DEF S
    <2> QED BY <1>1, <1>4, <1>12, <1>14, <1>15, <2>1, <2>2, <2>3, <2>4, <2>5, <2>6 DEF TreesKept
  <1>18. CurrentKept' BY <1>14 DEF CurrentKept
  <1>19. UnverifiedIsNeverInstalled'
    <2>1. ASSUME NEW v \in PlainVersions \ marks.loose, NEW f \in DOMAIN root'[v] PROVE Pinned(root'[v][f][1], v)
      <3>1. \A g \in DOMAIN root[v] : Pinned(root[v][g][1], v) BY DEF BootInv, UnverifiedIsNeverInstalled
      <3>2. CASE v # V BY <1>13, <3>1, <3>2
      <3>3. CASE v = V
        <4>1. f \in DOMAIN root[V] /\ root'[v][f] = placed[f] BY <3>3, <1>11, <1>13
        <4>2. root[V][f][1] = inst.wheel BY <4>1, <1>5
        <4>3. placed[f][1] = inst.wheel BY <4>1, <4>2, <1>11
        <4> QED BY <3>1, <3>3, <4>1, <4>2, <4>3
      <3> QED BY <3>2, <3>3
    <2> QED BY <1>1, <2>1 DEF BootInv, UnverifiedIsNeverInstalled
  <1>20. VerdictKept' BY <1>1, <1>14 DEF BootInv, VerdictKept
  <1> QED BY <1>16, <1>17, <1>18, <1>19, <1>20 DEF BootInv

LEMMA ExtractEndsKeeps == ASSUME BootInv, ExtractEnds PROVE BootInv'
  <1>1. inst.pc = "extract" /\ inst.left = <<>> /\ UNCHANGED <<root, current, verdict>> BY DEF ExtractEnds, InstAt
  <1>2. inst.pc \in InstRuns /\ "refresh" \in InstRuns BY <1>1 DEF InstRuns
  <1>3. V \in PlainVersions /\ inst.release \in Releases BY <1>2, InstFields
  <1>4. /\ inst.wheel \in DOMAIN Wheels /\ DOMAIN root[V] \cup Targets(inst.left) = Targets(Wheels[inst.wheel])
        /\ \A f \in DOMAIN root[V] : root[V][f] = <<inst.wheel, "whole">>
        /\ inst.found => \E f \in DOMAIN root[V] : IsHyperd(f)
    BY <1>1 DEF BootInv, TreesKept
  <1>5. CASE ~inst.found
    <2>0. Fail("no hyperd in archive") /\ UNCHANGED marks BY <1>5 DEF ExtractEnds
    <2>1. inst'.pc = "err" /\ inst'.why = "no hyperd in archive" BY <2>0 DEF Fail
    <2>2. VerdictKept' BY <1>1, <2>1 DEF BootInv, VerdictKept
    <2> QED BY <1>1, <2>0, <2>1, <2>2, InstStops
  <1>6. CASE inst.found
    <2>1. inst' = [inst EXCEPT !.pc = "refresh"] /\ marks' = [marks EXCEPT !.torn = marks.torn \ {V}]
      BY <1>6 DEF ExtractEnds, InstGo
    <2>2. /\ inst'.pc = "refresh" /\ inst'.release = inst.release
          /\ inst' \in [pc : InstRuns, release : Releases, wheel : {inst'.wheel}, left : {inst'.left}, found : BOOLEAN]
      BY <2>1, <1>2, InstFields
    <2>3. V' = V BY <2>2 DEF V
    <2>4. /\ marks' \in [torn : {marks'.torn}, loose : {marks'.loose}, currentLoose : BOOLEAN]
          /\ marks'.torn = marks.torn \ {V} /\ marks'.loose = marks.loose /\ marks'.currentLoose = marks.currentLoose
      BY <2>1 DEF BootInv, BootTypes
    <2>5. DOMAIN root[V] = Targets(Wheels[inst.wheel]) BY <1>1, <1>4, TargetsOfNone
    <2>6. root[V] = Unpacked(inst.wheel)
      <3>1. IsTree(root[V]) BY <1>3 DEF BootInv, BootTypes
      <3> QED BY <1>4, <2>5, <3>1 DEF Unpacked, IsTree
    <2>7. ExeName \in DOMAIN root[V] BY <1>4, <1>6, <2>5, WheelsAssumption
    <2>8. BootTypes' BY <1>1, <1>2, <1>3, <2>2, <2>3, <2>4 DEF BootInv, BootTypes
    <2>9. TreesKept'
      <3>1. \A v \in PlainVersions \ marks'.torn :
               DOMAIN root[v] = {} \/ \E w \in DOMAIN Wheels : root[v] = Unpacked(w)
        BY <1>4, <2>4, <2>6 DEF BootInv, TreesKept
      <3> QED BY <1>1, <2>2, <2>3, <2>7, <3>1 DEF TreesKept
    <2>10. CurrentKept' BY <2>2 DEF CurrentKept
    <2>11. UnverifiedIsNeverInstalled' BY <1>1, <2>4 DEF BootInv, UnverifiedIsNeverInstalled
    <2>12. VerdictKept' BY <1>1, <2>2 DEF BootInv, VerdictKept
    <2> QED BY <2>8, <2>9, <2>10, <2>11, <2>12 DEF BootInv
  <1> QED BY <1>5, <1>6

LEMMA RefreshCurrentKeeps == ASSUME BootInv, RefreshCurrent PROVE BootInv'
  <1> DEFINE loose == V \in marks.loose
  <1>1. /\ inst.pc = "refresh" /\ current' = [files |-> NoFiles, version |-> NoVersion] /\ UNCHANGED <<root, verdict>>
        /\ marks' = [marks EXCEPT !.currentLoose = loose] /\ inst' = [inst EXCEPT !.pc = "mirror"]
    BY DEF RefreshCurrent, InstAt, InstGo
  <1>2. inst.pc \in InstRuns /\ "mirror" \in InstRuns BY <1>1 DEF InstRuns
  <1>3. V \in PlainVersions /\ inst.release \in Releases BY <1>2, InstFields
  <1>4. /\ inst'.pc = "mirror" /\ inst'.release = inst.release
        /\ inst' \in [pc : InstRuns, release : Releases, wheel : {inst'.wheel}, left : {inst'.left}, found : BOOLEAN]
    BY <1>1, <1>2, InstFields
  <1>5. V' = V BY <1>4 DEF V
  <1>6. /\ marks' \in [torn : {marks'.torn}, loose : {marks'.loose}, currentLoose : BOOLEAN]
        /\ marks'.torn = marks.torn /\ marks'.loose = marks.loose /\ (marks'.currentLoose <=> loose)
    <2>1. loose \in BOOLEAN OBVIOUS
    <2> HIDE DEF loose
    <2> QED BY <1>1, <2>1 DEF BootInv, BootTypes
  <1>7. current'.files = NoFiles /\ current' \in [files : {current'.files}, version : {current'.version}]
        /\ DOMAIN NoFiles = {} /\ IsTree(NoFiles)
    BY <1>1 DEF NoFiles, IsTree
  <1>8. BootTypes' BY <1>1, <1>2, <1>3, <1>4, <1>5, <1>6, <1>7 DEF BootInv, BootTypes
  <1>9. TreesKept'
    <2>1. ExeName \in DOMAIN root[V] BY <1>1 DEF BootInv, TreesKept
    <2>2. \A v \in PlainVersions \ marks.torn : DOMAIN root[v] = {} \/ \E w \in DOMAIN Wheels : root[v] = Unpacked(w)
      BY DEF BootInv, TreesKept
    <2> QED BY <1>1, <1>4, <1>5, <1>6, <2>1, <2>2 DEF TreesKept
  <1>10. CurrentKept' BY <1>4, <1>5, <1>6, <1>7 DEF CurrentKept
  <1>11. UnverifiedIsNeverInstalled' BY <1>1, <1>6, <1>7 DEF BootInv, UnverifiedIsNeverInstalled
  <1>12. VerdictKept' BY <1>1, <1>4 DEF BootInv, VerdictKept
  <1> QED BY <1>8, <1>9, <1>10, <1>11, <1>12 DEF BootInv

LEMMA CopyToCurrentKeeps == ASSUME BootInv, NEW f, CopyToCurrent(f) PROVE BootInv'
  <1> DEFINE c == root[V][f]
             tree == current.files
             placed == PutFile(tree, f, c)
  <1>1. /\ inst.pc = "mirror" /\ f \in DOMAIN root[V] /\ UNCHANGED <<root, inst, verdict, marks>>
        /\ current' = [current EXCEPT !.files = placed]
    BY DEF CopyToCurrent, InstAt
  <1>2. IsTree(tree) BY DEF BootInv, BootTypes
  <1>3. \A g \in DOMAIN tree : g \in DOMAIN root[V] /\ tree[g] = root[V][g] BY <1>1 DEF BootInv, CurrentKept
  <1>4. inst.pc \in InstRuns BY <1>1 DEF InstRuns
  <1>5. V \in PlainVersions BY <1>4, InstFields
  <1>6. /\ IsTree(placed) /\ DOMAIN placed = DOMAIN tree \cup {f} /\ placed[f] = c
        /\ \A g \in DOMAIN tree \ {f} : placed[g] = tree[g]
    <2> HIDE DEF tree, c
    <2> QED BY <1>2 DEF PutFile, IsTree
  <1> HIDE DEF placed
  <1>7. current'.files = placed /\ current' \in [files : {current'.files}, version : {current'.version}]
    BY <1>1 DEF BootInv, BootTypes
  <1>8. \A g \in DOMAIN placed : g \in DOMAIN root[V] /\ placed[g] = root[V][g] BY <1>1, <1>3, <1>6
  <1>9. V' = V BY <1>1 DEF V
  <1>10. BootTypes' BY <1>1, <1>6, <1>7, <1>9 DEF BootInv, BootTypes
  <1>11. TreesKept' BY <1>1, <1>9 DEF BootInv, TreesKept
  <1>12. CurrentKept' BY <1>1, <1>7, <1>8, <1>9 DEF BootInv, CurrentKept
  <1>13. UnverifiedIsNeverInstalled'
    <2>1. ASSUME ~marks.currentLoose, NEW g \in DOMAIN placed PROVE \E v \in PlainVersions : Pinned(placed[g][1], v)
      <3>1. V \notin marks.loose BY <1>1, <2>1 DEF BootInv, CurrentKept
      <3>2. Pinned(root[V][g][1], V) BY <1>5, <1>8, <3>1 DEF BootInv, UnverifiedIsNeverInstalled
      <3> QED BY <1>5, <1>8, <3>2
    <2> QED BY <1>1, <1>7, <2>1 DEF BootInv, UnverifiedIsNeverInstalled
  <1>14. VerdictKept' BY <1>1 DEF BootInv, VerdictKept
  <1> QED BY <1>10, <1>11, <1>12, <1>13, <1>14 DEF BootInv

LEMMA WriteVersionKeeps == ASSUME BootInv, WriteVersion PROVE BootInv'
  <1>1. /\ inst.pc = "mirror" /\ UNCHANGED <<root, verdict, marks>> /\ current' = [current EXCEPT !.version = V]
        /\ inst' = [pc |-> "ok", release |-> inst.release] /\ \A f \in DOMAIN root[V] : Mirrored(f)
    BY DEF WriteVersion, InstAt
  <1>2. inst.pc \in InstRuns BY <1>1 DEF InstRuns
  <1>3. V \in PlainVersions /\ inst.release \in Releases BY <1>2, InstFields
  <1>4. inst'.pc = "ok" /\ inst'.release = inst.release BY <1>1
  <1>5. V' = V BY <1>4 DEF V
  <1>6. /\ current'.files = current.files /\ current'.version = V
        /\ current' \in [files : {current'.files}, version : {current'.version}]
    BY <1>1 DEF BootInv, BootTypes
  <1>7. current.files = root[V]
    <2>1. IsTree(root[V]) /\ IsTree(current.files) BY <1>3 DEF BootInv, BootTypes
    <2>2. \A g \in DOMAIN current.files : g \in DOMAIN root[V] /\ current.files[g] = root[V][g]
      BY <1>1 DEF BootInv, CurrentKept
    <2>3. \A g \in DOMAIN root[V] : g \in DOMAIN current.files BY <1>1 DEF Mirrored
    <2>4. DOMAIN current.files = DOMAIN root[V] BY <2>2, <2>3
    <2> DEFINE a == current.files
               b == root[V]
    <2>5. IsTree(a) /\ IsTree(b) /\ DOMAIN a = DOMAIN b /\ \A g \in DOMAIN a : a[g] = b[g] BY <2>1, <2>2, <2>4
    <2> HIDE DEF a, b
    <2>6. a = b BY <2>5 DEF IsTree
    <2> QED BY <2>6 DEF a, b
  <1>8. BootTypes' BY <1>1, <1>3, <1>4, <1>5, <1>6 DEF BootInv, BootTypes, InstRuns
  <1>9. TreesKept'
    <2>1. ExeName \in DOMAIN root[V] BY <1>1 DEF BootInv, TreesKept
    <2>2. \A v \in PlainVersions \ marks.torn : DOMAIN root[v] = {} \/ \E w \in DOMAIN Wheels : root[v] = Unpacked(w)
      BY DEF BootInv, TreesKept
    <2> QED BY <1>1, <1>4, <1>5, <2>1, <2>2 DEF TreesKept
  <1>10. CurrentKept' BY <1>1, <1>4, <1>5, <1>6, <1>7 DEF CurrentKept
  <1>11. UnverifiedIsNeverInstalled' BY <1>1, <1>6 DEF BootInv, UnverifiedIsNeverInstalled
  <1>12. VerdictKept' BY <1>1, <1>4 DEF BootInv, VerdictKept
  <1> QED BY <1>8, <1>9, <1>10, <1>11, <1>12 DEF BootInv

LEMMA BootStarts == BootInit => BootInv
  <1> SUFFICES ASSUME BootInit PROVE BootInv OBVIOUS
  <1>1. DOMAIN NoFiles = {} /\ IsTree(NoFiles) BY DEF NoFiles, IsTree
  <1>2. inst.pc = "idle" /\ verdict = NoVerdict BY DEF BootInit, Quiet
  <1>3. DOMAIN root = PlainVersions /\ \A v \in PlainVersions : root[v] = NoFiles BY DEF BootInit
  <1>4. current.files = NoFiles /\ current \in [files : {current.files}, version : {current.version}] BY DEF BootInit
  <1>5. marks \in [torn : {marks.torn}, loose : {marks.loose}, currentLoose : BOOLEAN] BY DEF BootInit
  <1>6. BootTypes BY <1>1, <1>2, <1>3, <1>4, <1>5 DEF BootTypes, InstRuns
  <1>7. TreesKept BY <1>1, <1>2, <1>3 DEF TreesKept
  <1>8. CurrentKept BY <1>2 DEF CurrentKept
  <1>9. UnverifiedIsNeverInstalled BY <1>1, <1>3, <1>4 DEF UnverifiedIsNeverInstalled
  <1>10. VerdictKept BY <1>2 DEF VerdictKept
  <1> QED BY <1>6, <1>7, <1>8, <1>9, <1>10 DEF BootInv

LEMMA BootKeeps == BootInv /\ [BootNext]_bootVars => BootInv'
  <1> SUFFICES ASSUME BootInv, [BootNext]_bootVars PROVE BootInv' OBVIOUS
  <1>1. CASE UNCHANGED bootVars
    <2>1. UNCHANGED <<root, current, inst, verdict, marks>> BY <1>1 DEF bootVars
    <2>2. V' = V BY <2>1 DEF V
    <2>3. BootTypes' BY <2>1, <2>2 DEF BootInv, BootTypes
    <2>4. TreesKept' BY <2>1, <2>2 DEF BootInv, TreesKept
    <2>5. CurrentKept' BY <2>1, <2>2 DEF BootInv, CurrentKept
    <2>6. UnverifiedIsNeverInstalled' BY <2>1 DEF BootInv, UnverifiedIsNeverInstalled
    <2>7. VerdictKept' BY <2>1 DEF BootInv, VerdictKept
    <2> QED BY <2>3, <2>4, <2>5, <2>6, <2>7 DEF BootInv
  <1> QED BY <1>1, InstallKeeps, ResolveFailsKeeps, ClearVersionKeeps, DownloadKeeps, VerifyWheelKeeps, ExtractEntryKeeps,
             CopyEntryKeeps, ExtractEndsKeeps, RefreshCurrentKeeps, CopyToCurrentKeeps, WriteVersionKeeps, StepFailsKeeps,
             VerifyReleaseKeeps DEF BootNext

LEMMA BootInvSays == BootInv => InstallIsTrustworthy
  <1> SUFFICES ASSUME BootInv PROVE InstallIsTrustworthy OBVIOUS
  <1>1. InstalledIsWhole
    <2> SUFFICES ASSUME inst.pc = "ok"
                 PROVE  /\ current.version = V
                        /\ V \notin marks.torn =>
                             \E w \in DOMAIN Wheels : current.files = Unpacked(w) /\ ExeName \in DOMAIN Unpacked(w)
      BY DEF InstalledIsWhole, InstAt
    <2>1. V \in PlainVersions BY DEF BootInv, BootTypes
    <2>2. current.files = root[V] /\ current.version = V BY DEF BootInv, CurrentKept
    <2>3. ExeName \in DOMAIN root[V] BY DEF BootInv, TreesKept
    <2>4. V \notin marks.torn => DOMAIN root[V] = {} \/ \E w \in DOMAIN Wheels : root[V] = Unpacked(w)
      BY <2>1 DEF BootInv, TreesKept
    <2> QED BY <2>2, <2>3, <2>4
  <1>2. VerdictPredictsInstall
    <2> DEFINE name == WheelFilename(inst.release, Host)
               genuine == name \in DOMAIN Published /\ inst.wheel = Published[name]
    <2>1. ASSUME verdict # NoVerdict, inst.release = verdict.release
          PROVE  /\ inst.pc = "extract" /\ genuine => verdict.host # "Mismatch"
                 /\ inst.pc = "err" /\ genuine /\ inst.why = "checksum" => verdict.host \in {"Mismatch", "Unknown"}
                 /\ inst.pc = "err" /\ verdict.ok => inst.why # "wheel tag"
      <3>1. verdict.host = "Unknown" \/ verdict.host = CompareDigests(inst.release, Host)
        BY <2>1 DEF BootInv, VerdictKept
      <3>2. verdict.ok => HasWheelTag(inst.release, Host) BY <2>1 DEF BootInv, VerdictKept
      <3>3. inst.pc = "err" /\ inst.why = "wheel tag" => ~HasWheelTag(inst.release, Host) BY DEF BootInv, VerdictKept
      <3>4. inst.pc = "extract" => Verified(Sha256For(inst.release, Host), inst.wheel) BY DEF BootInv, TreesKept
      <3>5. inst.pc = "err" /\ inst.why = "checksum" => ~Verified(Sha256For(inst.release, Host), inst.wheel)
        BY DEF BootInv, VerdictKept
      <3>6. genuine /\ Verified(Sha256For(inst.release, Host), inst.wheel) => CompareDigests(inst.release, Host) # "Mismatch"
        BY DEF CompareDigests, Verified
      <3>7. genuine /\ ~Verified(Sha256For(inst.release, Host), inst.wheel)
               => CompareDigests(inst.release, Host) \in {"Mismatch", "Unknown"}
        BY DEF CompareDigests, Verified
      <3> QED BY <3>1, <3>2, <3>3, <3>4, <3>5, <3>6, <3>7
    <2> QED BY <2>1 DEF VerdictPredictsInstall, InstAt
  <1>3. UnverifiedIsNeverInstalled BY DEF BootInv
  <1> QED BY <1>1, <1>2, <1>3 DEF InstallIsTrustworthy

\* For any releases, wheels and published digests, with a failure or a kill at any
\* step of any install: what an install() that returned Ok left in current/ is one
\* whole wheel with its executable, no file of a wheel that no release pins is
\* found in a directory, and verify_release predicts the checksum
\* (install.rs:97, download.rs:62, verify.rs).
THEOREM InstallsAreTrustworthy == BootSpec => []InstallIsTrustworthy
  BY BootStarts, BootKeeps, BootInvSays, PTL DEF BootSpec
=============================================================================
