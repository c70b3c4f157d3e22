----------------------------- MODULE Inserter -----------------------------
(***************************************************************************)
(* Bulk inserts of hyperdb-api: Inserter and AsyncInserter, which fill an  *)
(* InsertChunk and stream it into one COPY; MappedInserter, which goes     *)
(* through a temporary staging table; and ChunkSender, with which several  *)
(* threads send chunks of their own into one COPY (inserter.rs,            *)
(* async_inserter.rs).                                                     *)
(*                                                                         *)
(* A value is [row, col]: the row the caller means it for and its place in *)
(* that row.  The COPY stream is a sequence of values, the HyperBinary     *)
(* header and the trailer.  The server (external) takes a stream only if   *)
(* it is framed by one header and one trailer, and cuts the values into    *)
(* rows of Cols by position: nothing in the stream marks where a row ends. *)
(***************************************************************************)
EXTENDS Integers, Sequences

CONSTANTS
    Cols,            \* columns of the table
    ChunkRows,       \* rows after which a chunk is flushed (CHUNK_ROW_LIMIT)
    MaxInsRows       \* bound: rows the caller tries to add

ASSUME InserterAssumption == Cols \in Nat \ {0} /\ ChunkRows \in Nat \ {0} /\ MaxInsRows \in Nat

VARIABLES
    ins,             \* the inserter and its chunk
    copyStream,      \* what reached the open COPY; NoCopy when none is open
    table,           \* the rows the COPY committed, in order
    mapped           \* the staging table of a MappedInserter, and its target

insVars == <<ins, copyStream, table, mapped>>

Header == [row |-> 0, col |-> 0]
Trailer == [row |-> 0, col |-> -1]
NoCopy == <<Trailer>>
Value(r, c) == [row |-> r, col |-> c]
EmptyChunk == [buf |-> <<>>, rows |-> 0, col |-> 0, header |-> FALSE]

InserterKinds == {"sync", "async", "mapped", "sender"}

InsInit ==
    /\ ins \in [kind : InserterKinds, chunk : {EmptyChunk}, stage : {"filling"}, tried : {0},
                given : {<<>>}, headerSent : {FALSE}, lost : {FALSE}]
    /\ copyStream = NoCopy
    /\ table = <<>>
    /\ mapped = IF ins.kind = "mapped" THEN [staging |-> "made", target |-> FALSE, left |-> FALSE]
                ELSE [staging |-> "none", target |-> FALSE, left |-> FALSE]

Filling == ins.stage = "filling"
CopyOpen == copyStream # NoCopy

-----------------------------------------------------------------------------
(* InsertChunk                                                             *)

\* add_row: the values in order until one is refused or the row is too long; the
\* first of the stream brings the header (ensure_header)
AddValues(chunk, r, n) ==
    LET fits == IF n < Cols - chunk.col THEN n ELSE Cols - chunk.col
        values == [i \in 1..fits |-> Value(r, i)]
    IN [chunk EXCEPT !.buf = @ \o (IF chunk.header \/ fits = 0 THEN <<>> ELSE <<Header>>) \o values,
                     !.header = @ \/ fits > 0,
                     !.col = @ + fits]

EndRow(chunk) == [chunk EXCEPT !.col = 0, !.rows = @ + 1]
ShouldFlush(chunk) == chunk.rows >= ChunkRows

\* Mutant: the header is written anew for every chunk.
TakeForgetsHeader(chunk) == EmptyChunk

\* take: the buffer leaves; the header was written and the column index stays
Take(chunk) == [chunk EXCEPT !.buf = <<>>, !.rows = 0]

-----------------------------------------------------------------------------
(* Inserter, AsyncInserter                                                 *)

Keep == UNCHANGED <<table, mapped>>

\* The whole row was taken.  Below the limit nothing is sent
AddRow ==
    /\ Filling /\ ins.kind # "sender" /\ ins.tried < MaxInsRows /\ ins.chunk.col = 0
    /\ LET chunk == EndRow(AddValues(ins.chunk, ins.tried + 1, Cols))
       IN ins' = [ins EXCEPT !.chunk = chunk, !.tried = @ + 1, !.given = @ \o <<ins.tried + 1>>,
                             !.stage = IF ShouldFlush(chunk) THEN "flush" ELSE "filling"]
    /\ UNCHANGED copyStream /\ Keep

\* A value is refused (NULL in a required column, a number out of range), or the
\* row begins where an earlier one stopped: what was taken before stays
AddRowFails ==
    /\ Filling /\ ins.kind # "sender" /\ ins.tried < MaxInsRows
    /\ \E n \in 0..Cols :
          /\ n < Cols \/ ins.chunk.col > 0
          /\ ins' = [ins EXCEPT !.chunk = AddValues(ins.chunk, ins.tried + 1, n), !.tried = @ + 1]
    /\ UNCHANGED copyStream /\ Keep

Blocking == ins.kind \in {"sync", "mapped"}
Sent(bytes) == (IF CopyOpen THEN copyStream ELSE <<>>) \o bytes

\* flush: the blocking inserter takes the chunk before it opens the COPY
FlushChunk ==
    /\ ins.stage = "flush" /\ ~ins.lost
    /\ copyStream' = Sent(ins.chunk.buf)
    /\ ins' = [ins EXCEPT !.chunk = Take(@), !.stage = "filling"]
    /\ Keep

FlushRefused ==
    /\ ins.stage = "flush" /\ ~CopyOpen
    /\ ins' = [ins EXCEPT !.chunk = IF Blocking THEN Take(@) ELSE @, !.stage = "filling"]
    /\ UNCHANGED copyStream /\ Keep

\* The connection breaks while the chunk is sent
FlushLost ==
    /\ ins.stage = "flush"
    /\ ins' = [ins EXCEPT !.chunk = Take(@), !.stage = "filling", !.lost = TRUE]
    /\ copyStream' = NoCopy
    /\ Keep

\* How an inserter ends: an open COPY is failed, so that nothing of it is kept
Ends(how) == ins' = [ins EXCEPT !.stage = how]
Abort(how) == Ends(how) /\ copyStream' = NoCopy

ExecuteIncomplete ==
    /\ Filling /\ ins.kind # "sender" /\ ins.chunk.col # 0
    /\ Abort("failed") /\ Keep

\* The values of the stream between header and trailer, as rows by position
Framed(s) == /\ Len(s) > 0 /\ s[1] = Header
             /\ \A i \in 2..Len(s) : s[i] # Header
             /\ (Len(s) - 1) % Cols = 0
RowsOf(s) == [i \in 1..((Len(s) - 1) \div Cols) |-> SubSeq(s, 2 + (i - 1) * Cols, 1 + i * Cols)]

\* Mutant: a row that was begun is sent with the rest.
ExecuteIgnoresPartialRow ==
    /\ Filling /\ ins.kind # "sender" /\ ~ins.lost /\ ins.given # <<>>
    /\ LET s == Sent(ins.chunk.buf)
       IN /\ Framed(s)
          /\ table' = table \o RowsOf(s)
    /\ Abort("done")
    /\ UNCHANGED mapped

\* execute: the rest of the chunk, the trailer, and the answer to the COPY
Execute ==
    /\ Filling /\ ins.kind # "sender" /\ ins.chunk.col = 0 /\ ~ins.lost
    /\ ins.given # <<>>
    /\ LET s == Sent(IF ins.chunk.rows = 0 THEN <<>> ELSE ins.chunk.buf)
       IN /\ Framed(s)
          /\ table' = table \o RowsOf(s)
    /\ Abort(IF ins.kind = "mapped" THEN "map" ELSE "done")
    /\ UNCHANGED mapped

ExecuteNothing ==
    /\ Filling /\ ins.kind # "sender" /\ ins.chunk.col = 0 /\ ins.given = <<>>
    /\ Abort(IF ins.kind = "mapped" THEN "map" ELSE "done")
    /\ Keep

\* The server refuses the COPY or its data, or the connection is gone
ExecuteFails ==
    /\ Filling /\ ins.kind # "sender" /\ ins.chunk.col = 0 /\ ins.given # <<>>
    /\ Abort("failed") /\ Keep

\* cancel, or Drop of the inserter
Cancel ==
    /\ Filling /\ ins.kind # "sender"
    /\ Abort(IF ins.kind = "mapped" THEN "failed" ELSE "cancelled") /\ Keep

-----------------------------------------------------------------------------
(* MappedInserter: staging table, INSERT ... SELECT, DROP                  *)

InsertSelect ==
    /\ ins.stage = "map"
    /\ \/ mapped' = [mapped EXCEPT !.target = TRUE] /\ Ends("unstage")
       \/ UNCHANGED mapped /\ Ends("failed")
    /\ UNCHANGED <<copyStream, table>>

\* drop_now: its failure is reported although the target has its rows
DropNow ==
    /\ ins.stage = "unstage"
    /\ \/ mapped' = [mapped EXCEPT !.staging = "dropped"] /\ Ends("done")
       \/ mapped' = [mapped EXCEPT !.staging = "dropped", !.left = TRUE] /\ Ends("errored")
    /\ UNCHANGED <<copyStream, table>>

\* Mutant: the staging table goes before the inner inserter's writer.
StagingDroppedFirst ==
    /\ ins.kind = "mapped" /\ mapped.staging = "made"
    /\ Filling
    /\ mapped' = [mapped EXCEPT !.staging = "dropped"]
    /\ UNCHANGED <<ins, copyStream, table>>

\* Drop of StagingTable, after the writer: DROP without waiting for the connection.
\* While panicking, or when the connection is busy, the temporary table stays
DropStaging ==
    /\ ins.kind = "mapped" /\ ins.stage = "failed" /\ mapped.staging = "made"
    /\ \/ mapped' = [mapped EXCEPT !.staging = "dropped"]
       \/ mapped' = [mapped EXCEPT !.staging = "dropped", !.left = TRUE]
    /\ UNCHANGED <<ins, copyStream, table>>

-----------------------------------------------------------------------------
(* ChunkSender                                                             *)

\* A thread's own chunk: the header and n whole rows, the first of them r
ChunkOf(r, n) ==
    <<Header>> \o [i \in 1..(n * Cols) |-> Value(r + ((i - 1) \div Cols), 1 + ((i - 1) % Cols))]

\* Mutant: the header is counted as sent before the COPY is open.
HeaderBeforeCopy == TRUE

\* send_chunk refused: copy_in failed, and the header is still to be sent
HeaderAfterRefusal == ins.headerSent

\* send_chunk holds the lock from opening the COPY to the last byte
SendChunk ==
    /\ Filling /\ ins.kind = "sender" /\ ~ins.lost
    /\ \E n \in 1..ChunkRows :
          /\ ins.tried + n <= MaxInsRows
          /\ LET rows == [i \in 1..n |-> ins.tried + i]
                 buf == ChunkOf(ins.tried + 1, n)
                 bytes == IF ins.headerSent THEN Tail(buf) ELSE buf
             IN /\ copyStream' = Sent(bytes)
                /\ ins' = [ins EXCEPT !.tried = @ + n, !.given = @ \o rows, !.headerSent = TRUE]
    /\ Keep

SendChunkRefused ==
    /\ Filling /\ ins.kind = "sender" /\ ~CopyOpen /\ ins.tried < MaxInsRows
    /\ ins' = [ins EXCEPT !.tried = @ + 1, !.headerSent = HeaderAfterRefusal]
    /\ UNCHANGED copyStream /\ Keep

\* The connection breaks inside send_chunk
SendChunkLost ==
    /\ Filling /\ ins.kind = "sender" /\ ins.tried < MaxInsRows
    /\ ins' = [ins EXCEPT !.tried = @ + 1, !.headerSent = TRUE, !.lost = TRUE]
    /\ copyStream' = NoCopy
    /\ Keep

\* finish: no COPY was opened, or the trailer and the answer
FinishCopy ==
    /\ Filling /\ ins.kind = "sender"
    /\ \/ ~CopyOpen /\ ~ins.lost /\ Ends("done") /\ UNCHANGED <<copyStream, table>>
       \/ CopyOpen /\ Framed(copyStream) /\ table' = table \o RowsOf(copyStream) /\ Abort("done")
       \/ CopyOpen /\ Abort("failed") /\ UNCHANGED table
    /\ UNCHANGED mapped

InsNext ==
    \/ AddRow \/ AddRowFails \/ FlushChunk \/ FlushRefused \/ FlushLost
    \/ Execute \/ ExecuteIncomplete \/ ExecuteNothing \/ ExecuteFails \/ Cancel
    \/ InsertSelect \/ DropNow \/ DropStaging
    \/ SendChunk \/ SendChunkRefused \/ SendChunkLost \/ FinishCopy

InsSpec == InsInit /\ [][InsNext]_insVars

-----------------------------------------------------------------------------
(* Properties                                                              *)

\* Every row of the table is one the caller gave, its values in their columns: a
\* row that failed half way never mixes with the next one, although the stream
\* itself has no row boundaries.
RowsAreWhole ==
    \A i \in DOMAIN table : \E r \in 1..ins.tried : table[i] = [c \in 1..Cols |-> Value(r, c)]

\* When execute or finish reports success, every row that was taken is in the
\* table, in order: a chunk that was lost on the way never goes unnoticed.
EveryRowOrNone ==
    /\ ins.stage \in {"done", "map", "unstage", "errored"} => Len(table) = Len(ins.given)
    /\ ins.stage \in {"filling", "flush", "cancelled"} => table = <<>>

\* A COPY that threads share carries one header, first, whoever sends it and
\* whether or not an earlier chunk was refused.
SharedStreamIsFramed ==
    ins.kind = "sender" /\ CopyOpen => /\ copyStream[1] = Header
                                       /\ \A i \in 2..Len(copyStream) : copyStream[i] # Header

\* The staging table is dropped only when no COPY is open on the connection.
NoStatementInsideCopy == mapped.staging = "dropped" => ~CopyOpen

\* A bulk insert stores the caller's rows, whole and all of them, or none, and its
\* COPY stream is well formed whichever threads write to it.
InsertIsWhole ==
    RowsAreWhole /\ EveryRowOrNone /\ SharedStreamIsFramed /\ NoStatementInsideCopy
=============================================================================
