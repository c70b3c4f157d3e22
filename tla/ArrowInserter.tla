--------------------------- MODULE ArrowInserter ---------------------------
(***************************************************************************)
(* Arrow bulk inserts (ArrowInserter, AsyncArrowInserter,                  *)
(* AsyncArrowInserterOwned) and text imports (import_text) of hyperdb-api: *)
(* data the caller has already encoded is streamed into one COPY.          *)
(*                                                                         *)
(* A piece of the stream is a schema or a record batch, numbered by the    *)
(* call that gave it.  The server (external) takes a stream with exactly   *)
(* one schema, first.  Sends lock the shared connection and write through; *)
(* an async call can be dropped at each of its awaits.                     *)
(***************************************************************************)
EXTENDS Integers, Sequences

CONSTANTS
    FlushEvery,      \* pieces after which the stream is flushed (flush_threshold)
    MaxArrowCalls    \* bound: calls on one inserter

ASSUME ArrowAssumption == FlushEvery \in Nat /\ MaxArrowCalls \in Nat

VARIABLES
    arrow,           \* the inserter's fields
    copied,          \* what reached the open COPY
    landed           \* the batches the server committed

arrowVars == <<arrow, copied, landed>>

ArrowKinds == {"sync", "async", "owned", "import"}
Schema == 0

\* ipcMade: insert_batch has its StreamWriter; raw: insert_raw was used
ArrowInit ==
    /\ arrow \in [kind : ArrowKinds, mode : {"none"}, schemaSent : {FALSE}, buffered : {0},
                  open : {FALSE}, ipcMade : {FALSE}, stage : {"open"},
                  calls : {0}, given : {<<>>}, raw : {FALSE}, dropped : {FALSE}]
    /\ copied = <<>>
    /\ landed = <<>>

Ready == arrow.stage = "open" /\ arrow.calls < MaxArrowCalls
ThisCall == arrow.calls + 1

\* maybe_flush, on success
MaybeFlush(a) == [a EXCEPT !.buffered = IF @ >= FlushEvery THEN 0 ELSE @]
Buffered(a, n) == MaybeFlush([a EXCEPT !.buffered = @ + n, !.open = TRUE])

\* A call that returned an error before anything was sent
RefusedCall == arrow' = [arrow EXCEPT !.calls = ThisCall] /\ UNCHANGED <<copied, landed>>

\* Pieces are sent: a schema or none, and batches
SendPieces(schema, batches, a) ==
    /\ copied' = copied \o schema \o batches
    /\ arrow' = [Buffered(a, Len(schema \o batches)) EXCEPT !.calls = ThisCall, !.given = @ \o batches]
    /\ UNCHANGED landed

\* ensure_writer: the COPY is refused, and no field has changed yet
EnsureWriterFails == Ready /\ ~arrow.open /\ arrow.kind # "import" /\ RefusedCall

\* A send or a flush fails: the COPY is lost with its connection, and every
\* later call fails there too
SendFails ==
    /\ Ready /\ arrow.open
    /\ arrow' = [arrow EXCEPT !.stage = "failed", !.open = FALSE, !.calls = ThisCall]
    /\ copied' = <<>>
    /\ UNCHANGED landed

-----------------------------------------------------------------------------
(* Raw IPC                                                                 *)

DataAccepted == arrow.mode # "BatchIpc" /\ ~arrow.schemaSent

InsertData ==
    /\ Ready /\ arrow.kind # "import"
    /\ IF DataAccepted
       THEN SendPieces(<<Schema>>, <<ThisCall>>, [arrow EXCEPT !.schemaSent = TRUE,
                                                      !.mode = IF arrow.kind = "sync" THEN "RawIpc" ELSE @])
       ELSE RefusedCall

InsertRecordBatches ==
    /\ Ready /\ arrow.kind # "import"
    /\ IF arrow.mode # "BatchIpc" /\ arrow.schemaSent THEN SendPieces(<<>>, <<ThisCall>>, arrow) ELSE RefusedCall

\* The caller says what the bytes are; only the owned inserter notes the schema
InsertRaw ==
    /\ Ready /\ arrow.kind # "import"
    /\ IF arrow.mode = "BatchIpc" THEN RefusedCall
       ELSE \E schema \in {<<Schema>>, <<>>} :
                SendPieces(schema, <<ThisCall>>, [arrow EXCEPT !.raw = TRUE,
                                            !.schemaSent = @ \/ arrow.kind = "owned"])

\* Mutant: the schema counts as sent only when the flush has returned.
SentAfterFlush(a) == a

\* What an insert_data that is dropped while it waits to flush has already noted
DroppedInFlush(a) == IF a.kind = "owned" THEN [a EXCEPT !.schemaSent = TRUE] ELSE a

\* The future of insert_data is dropped after the send, waiting for the connection
DropInsertData ==
    /\ Ready /\ arrow.kind \in {"async", "owned"} /\ DataAccepted
    /\ arrow.buffered + 2 >= FlushEvery
    /\ copied' = copied \o <<Schema, ThisCall>>
    /\ arrow' = [DroppedInFlush(arrow) EXCEPT !.open = TRUE, !.calls = ThisCall, !.dropped = TRUE,
                                              !.buffered = @ + 2, !.given = @ \o <<ThisCall>>]
    /\ UNCHANGED landed

-----------------------------------------------------------------------------
(* insert_batch: the blocking inserter encodes with one StreamWriter       *)

\* The schema comes with the StreamWriter, so once, and is drained before the batch
EncodedSchema == IF arrow.ipcMade THEN <<>> ELSE <<Schema>>

InsertBatch ==
    /\ Ready /\ arrow.kind = "sync"
    /\ IF arrow.mode = "RawIpc" THEN RefusedCall
       ELSE SendPieces(EncodedSchema, <<ThisCall>>,
                       [arrow EXCEPT !.mode = "BatchIpc", !.ipcMade = TRUE, !.schemaSent = TRUE])

\* The batch does not fit the schema: encoding fails, and only the schema went out
EncodeFails ==
    /\ Ready /\ arrow.kind = "sync" /\ arrow.mode # "RawIpc"
    /\ SendPieces(EncodedSchema, <<>>,
                  [arrow EXCEPT !.mode = "BatchIpc", !.ipcMade = TRUE, !.schemaSent = TRUE])

-----------------------------------------------------------------------------
(* execute, cancel and Drop                                                *)

\* The stream as the server reads it: one schema, first, and then the batches
AcceptedStream(s) == Len(s) > 0 /\ s[1] = Schema /\ \A i \in 2..Len(s) : s[i] # Schema

Closed(stage) ==
    /\ arrow' = [arrow EXCEPT !.stage = stage, !.open = FALSE]
    /\ copied' = <<>>

ArrowExecute ==
    /\ arrow.stage = "open" /\ arrow.kind # "import"
    /\ \/ ~arrow.open /\ Closed(IF arrow.kind = "owned" THEN "failed" ELSE "done") /\ UNCHANGED landed
       \/ arrow.open /\ AcceptedStream(copied) /\ landed' = Tail(copied) /\ Closed("done")
       \/ arrow.open /\ UNCHANGED landed /\ Closed("failed")

\* cancel, or Drop: the COPY is failed
ArrowCancel ==
    /\ arrow.stage = "open" /\ arrow.kind # "import"
    /\ Closed("cancelled") /\ UNCHANGED landed

-----------------------------------------------------------------------------
(* import_text                                                             *)

\* copy_in_raw with the validated options, then one read of the caller's reader
ImportRead ==
    /\ Ready /\ arrow.kind = "import"
    /\ SendPieces(<<>>, <<ThisCall>>, arrow)

\* An interrupted read is tried again
ImportInterrupted == Ready /\ arrow.kind = "import" /\ RefusedCall

\* Mutant: a read error ends the import like the end of the file.
ReadErrorIsEnd == landed' = copied

\* What a failed read leaves in the table: the COPY is cancelled
AfterReadError == UNCHANGED landed

ImportReadFails ==
    /\ arrow.stage = "open" /\ arrow.kind = "import"
    /\ AfterReadError /\ Closed("failed")

\* End of file: finish, which the server may refuse
ImportEnd ==
    /\ arrow.stage = "open" /\ arrow.kind = "import"
    /\ \/ landed' = copied /\ Closed("done")
       \/ UNCHANGED landed /\ Closed("failed")

ArrowNext ==
    \/ EnsureWriterFails \/ SendFails \/ InsertData \/ InsertRecordBatches \/ InsertRaw
    \/ DropInsertData \/ InsertBatch \/ EncodeFails \/ ArrowExecute \/ ArrowCancel
    \/ ImportRead \/ ImportInterrupted \/ ImportReadFails \/ ImportEnd

ArrowSpec == ArrowInit /\ [][ArrowNext]_arrowVars

-----------------------------------------------------------------------------
(* Properties                                                              *)

\* A COPY carries one schema, and first, in whichever order insert_data,
\* insert_record_batches and insert_batch are called, refused or failed, also
\* after a dropped call of the owned inserter.  Streams to which the caller gave
\* raw bytes, and dropped calls of the borrowing async inserter, are not covered.
OneSchemaPerStream ==
    arrow.kind # "import" /\ arrow.open /\ ~arrow.raw /\ (arrow.dropped => arrow.kind = "owned")
       => AcceptedStream(copied)

\* What an inserter or an import that reported success gave is in the table, and
\* one that failed, was cancelled or dropped leaves nothing, however many pieces
\* had reached the server.
ArrowAllOrNothing ==
    landed = IF arrow.stage = "done" THEN arrow.given ELSE <<>>

\* An Arrow or text load stores everything it was given or nothing, in one stream
\* with one schema, also when calls are dropped half way.
ArrowLoadIsWhole == OneSchemaPerStream /\ ArrowAllOrNothing
=============================================================================
