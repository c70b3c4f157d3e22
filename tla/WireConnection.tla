--------------------------- MODULE WireConnection ---------------------------
(***************************************************************************)
(* One PostgreSQL-wire connection of the synchronous client: RawConnection *)
(* (connection.rs) behind the mutex of Client (client.rs), the two guards  *)
(* that keep the mutex locked between calls (QueryStream, CopyInWriter),   *)
(* the prepared-statement functions (prepare.rs) that use the connection   *)
(* directly, and the out-of-band cancel request (client.rs, tls.rs).       *)
(*                                                                         *)
(* The mutex admits one request at a time, so the holder is the record op; *)
(* threads that wait for the lock change nothing.  A step of the client is *)
(* one message taken from the wire, a step of the server one message put   *)
(* on it, so the drains, the budgets and the cancel race with the server.  *)
(*                                                                         *)
(* The server and the transport are external.  They are modelled from what *)
(* the client relies on: messages arrive in order; every request is        *)
(* answered by messages that end with one ReadyForQuery, preceded by       *)
(* ErrorResponse when it fails; a rejected COPY ignores the COPY frames    *)
(* still in flight; a cancel request that finds no running query is        *)
(* dropped.  A lost link stays lost: what was in flight to the client may  *)
(* still arrive, a write may fail or vanish, a read on the empty wire      *)
(* fails.                                                                  *)
(***************************************************************************)
EXTENDS Integers, Sequences, FiniteSets

CONSTANTS
    MaxRequests,     \* bound: requests issued in a behaviour
    MaxRows,         \* bound: rows of one result
    MaxCopyFrames,   \* bound: COPY frames between the writer and the server
    Capacity,        \* bound: messages in flight to the client
    ChunkSize,       \* chunk_size of a stream
    DrainCap,        \* POST_ERROR_DRAIN_CAP and POST_CANCEL_DRAIN_CAP
    MaxDataRows      \* ABANDONED_STREAM_MAX_DATA_ROWS

ASSUME BoundsAssumption ==
    /\ MaxRequests \in Nat \ {0}
    /\ MaxRows \in Nat
    /\ MaxCopyFrames \in Nat \ {0}
    /\ Capacity \in Nat \ {0}
    /\ ChunkSize \in Nat \ {0}
    /\ DrainCap \in Nat \ {0}
    /\ MaxDataRows \in Nat \ {0}

VARIABLES
    op,              \* the request or guard that holds the connection mutex
    issued,          \* how many requests were issued
    writeBuf,        \* RawConnection.write_buf
    desynchronized,  \* RawConnection.desynchronized
    poisoned,        \* the mutex is poisoned
    link,            \* the transport still works
    toServer,        \* frames on their way to the server
    toClient,        \* messages on their way to the client, read_buf included
    srv,             \* the server's session
    cancels,         \* cancel requests the server has not processed
    misanswered,     \* history: requests that passed the check of the flag
                     \*   and were answered with another request's reply
    strayCancels,    \* history: queries hit by the cancel of an earlier stream
                     \*   whose Drop had waited for that cancel
    abandoned        \* history: a COPY OUT was left in the middle

clientVars == <<op, issued, writeBuf, desynchronized, poisoned>>
wireVars == <<link, toServer, toClient>>
history == <<misanswered, strayCancels, abandoned>>
vars == <<clientVars, wireVars, srv, cancels, history>>

Ids == 1 .. MaxRequests

\* The kinds of request are also the phases their reply is awaited in.
Kinds == {"simple", "prepared", "copyOut", "stream", "copyIn"}

Phases == Kinds \cup
          {"free", "chunk", "drainReady", "cancelWait", "abandon", "errDrain",
           "writer", "finishing", "cancelling"}

Replies == {"row", "copyData", "notice", "complete", "copyInResponse",
            "error", "ready"}
Frames == Kinds \cup {"copyDatum", "copyDone", "copyFail"}

Free == [phase |-> "free", id |-> 0, checked |-> FALSE, n |-> 0, rows |-> 0]

Enter(phase) == [op EXCEPT !.phase = phase, !.n = 0, !.rows = 0]

Init ==
    /\ op = Free
    /\ issued = 0
    /\ writeBuf = <<>>
    /\ desynchronized = FALSE
    /\ poisoned = FALSE
    /\ link = TRUE
    /\ toServer = <<>>
    /\ toClient = <<>>
    /\ srv = [mode |-> "idle", kind |-> "simple", id |-> 0, left |-> 0]
    /\ cancels = {}
    /\ misanswered = {}
    /\ strayCancels = {}
    /\ abandoned = FALSE

-----------------------------------------------------------------------------
(* Writing                                                                 *)

Frame(k) == [k |-> k, id |-> op.id]

\* flush() of the buffer w: a dead transport may still swallow the bytes.
FlushSucceeds(w) ==
    /\ writeBuf' = <<>>
    /\ toServer' = IF link THEN toServer \o w ELSE toServer

\* write_all or flush of the stream fails; write_buf is not cleared.
FlushFails(w) ==
    /\ ~link
    /\ writeBuf' = w
    /\ UNCHANGED toServer

\* ensure_healthy
Healthy == ~desynchronized

\* A request takes the lock, appends its frames to write_buf and flushes.
Request(kind) ==
    LET id == issued + 1
        w  == Append(writeBuf, [k |-> kind, id |-> id])
    IN  /\ op.phase = "free"
        /\ ~poisoned
        /\ issued < MaxRequests
        /\ issued' = id
        /\ \/ /\ FlushSucceeds(w)
              /\ op' = [Free EXCEPT !.phase = kind, !.id = id,
                                    !.checked = Healthy]
           \/ /\ FlushFails(w)
              /\ UNCHANGED op
        /\ UNCHANGED <<desynchronized, poisoned, link, toClient, srv, cancels,
                       history>>

\* simple_query and query_binary; exec, try_exec and batch_execute use them.
SimpleQuery == Healthy /\ Request("simple")

\* start_query_binary and start_simple_query, bind_execute_sync: a stream.
QueryStreaming == Healthy /\ Request("stream")

\* start_copy_in_with_format and start_copy_in_raw
StartCopyIn == Healthy /\ Request("copyIn")

\* copy_out and copy_out_to_writer
CopyOut == Healthy /\ Request("copyOut")

\* prepare, execute_prepared, execute_prepared_no_result_with_formats and
\* close_statement_internal, which lock the connection and write to it
\* without asking ensure_healthy.
PreparedRequest == Request("prepared")

-----------------------------------------------------------------------------
(* Reading                                                                 *)

\* read_message returns the next message, which is one of ks.
Read(ks) ==
    /\ toClient # <<>>
    /\ Head(toClient).k \in ks
    /\ toClient' = Tail(toClient)
    /\ UNCHANGED <<link, toServer>>

\* read_message fails: the transport is gone and nothing is left to parse.
ReadFails ==
    /\ ~link
    /\ toClient = <<>>
    /\ UNCHANGED wireVars

\* The message that decides the outcome of the request has been read.
Answer ==
    misanswered' = IF op.checked /\ Head(toClient).id # op.id
                   THEN misanswered \cup {op.id}
                   ELSE misanswered

\* ErrorResponse: consume_error starts the bounded drain.
ErrorStartsDrain ==
    /\ Read({"error"})
    /\ Answer
    /\ op' = Enter("errDrain")

\* ReadyForQuery: the request is complete and the lock is released.
ReadyEnds ==
    /\ Read({"ready"})
    /\ Answer
    /\ op' = Free

NotTerminal == Replies \ {"error", "ready"}

\* Everything up to ReadyForQuery; a failed read just returns.
ReadUntilReady(phase) ==
    /\ op.phase = phase
    /\ \/ ReadyEnds
       \/ ErrorStartsDrain
       \/ Read(NotTerminal) /\ UNCHANGED <<op, misanswered>>
       \/ ReadFails /\ op' = Free /\ UNCHANGED misanswered
    /\ UNCHANGED <<issued, writeBuf, desynchronized, poisoned, srv, cancels,
                   strayCancels, abandoned>>

\* The loops of simple_query and query_binary
ReadReply == ReadUntilReady("simple")

\* The loops of prepare.rs
ReadPreparedReply == ReadUntilReady("prepared")

\* The loop of copy_out, and of copy_out_to_writer with a writer that works
ReadCopyOut == ReadUntilReady("copyOut")

\* copy_out_to_writer: the caller's writer refuses a chunk and the error is
\* returned at once, in the middle of the server's reply.
WriterRefusesChunk ==
    /\ op.phase = "copyOut"
    /\ Read({"copyData"})
    /\ op' = Free
    /\ abandoned' = TRUE
    /\ UNCHANGED <<issued, writeBuf, desynchronized, poisoned, srv, cancels,
                   misanswered, strayCancels>>

\* start_copy_in_*: wait for CopyInResponse; a CopyInWriter then holds the
\* lock.  Any other message but an error is skipped.
ReadCopyInResponse ==
    /\ op.phase = "copyIn"
    /\ \/ Read({"copyInResponse"}) /\ op' = Enter("writer")
                                   /\ UNCHANGED misanswered
       \/ ErrorStartsDrain
       \/ Read(Replies \ {"copyInResponse", "error"})
            /\ UNCHANGED <<op, misanswered>>
       \/ ReadFails /\ op' = Free /\ UNCHANGED misanswered
    /\ UNCHANGED <<issued, writeBuf, desynchronized, poisoned, srv, cancels,
                   strayCancels, abandoned>>

\* Mutant: an exhausted budget is not recorded in the flag.
DrainForgetsFlag ==
    /\ op.phase = "errDrain"
    /\ \/ /\ op.n < DrainCap
          /\ Read(Replies)
          /\ op' = IF Head(toClient).k = "ready" THEN Free
                   ELSE [op EXCEPT !.n = @ + 1]
          /\ UNCHANGED desynchronized
       \/ /\ op.n = DrainCap \/ (~link /\ toClient = <<>>)
          /\ op' = Free
          /\ desynchronized' = (desynchronized \/ op.n < DrainCap)
          /\ UNCHANGED wireVars
    /\ UNCHANGED <<issued, writeBuf, poisoned, srv, cancels, history>>

\* drain_until_ready_bounded(POST_ERROR_DRAIN_CAP), from consume_error.
DrainUntilReadyBounded ==
    /\ op.phase = "errDrain"
    /\ \/ /\ op.n < DrainCap
          /\ \/ /\ Read({"ready"})
                /\ op' = Free
                /\ UNCHANGED desynchronized
             \/ /\ Read(Replies \ {"ready"})
                /\ op' = [op EXCEPT !.n = @ + 1]
                /\ UNCHANGED desynchronized
             \/ /\ ReadFails
                /\ op' = Free
                /\ desynchronized' = TRUE
       \/ /\ op.n = DrainCap
          /\ op' = Free
          /\ desynchronized' = TRUE
          /\ UNCHANGED wireVars
    /\ UNCHANGED <<issued, writeBuf, poisoned, srv, cancels, history>>

-----------------------------------------------------------------------------
(* QueryStream and PreparedQueryStream                                     *)

\* The caller asks for the next chunk, or for the rest of the result.
NextChunk ==
    /\ op.phase = "stream"
    /\ op' = Enter("chunk")
    /\ UNCHANGED <<issued, writeBuf, desynchronized, poisoned, wireVars, srv,
                   cancels, history>>

DrainToReady ==
    /\ op.phase = "stream"
    /\ op' = Enter("drainReady")
    /\ UNCHANGED <<issued, writeBuf, desynchronized, poisoned, wireVars, srv,
                   cancels, history>>

\* Both terminal messages finish the stream and release the lock; a failed
\* read returns with the stream unfinished.
ReadStream(phase, others) ==
    /\ op.phase = phase
    /\ \/ ReadyEnds
       \/ ErrorStartsDrain
       \/ Read(others) /\ UNCHANGED <<op, misanswered>>
       \/ ReadFails /\ op' = Enter("stream") /\ UNCHANGED misanswered

\* Mutant: the chunk is returned one row late.
ReadChunkOverruns ==
    /\ \/ ReadStream("chunk", NotTerminal \ {"row"})
       \/ /\ op.phase = "chunk"
          /\ Read({"row"})
          /\ op' = IF op.n + 1 > ChunkSize THEN Enter("stream")
                   ELSE [op EXCEPT !.n = @ + 1]
          /\ UNCHANGED misanswered
    /\ UNCHANGED <<issued, writeBuf, desynchronized, poisoned, srv, cancels,
                   strayCancels, abandoned>>

\* The loop of next_chunk: it returns when the chunk is full.
ReadChunk ==
    /\ \/ ReadStream("chunk", NotTerminal \ {"row"})
       \/ /\ op.phase = "chunk"
          /\ Read({"row"})
          /\ op' = IF op.n + 1 >= ChunkSize THEN Enter("stream")
                   ELSE [op EXCEPT !.n = @ + 1]
          /\ UNCHANGED misanswered
    /\ UNCHANGED <<issued, writeBuf, desynchronized, poisoned, srv, cancels,
                   strayCancels, abandoned>>

\* The loop of drain_to_ready: rows are discarded without limit.
ReadToReady ==
    /\ ReadStream("drainReady", NotTerminal)
    /\ UNCHANGED <<issued, writeBuf, desynchronized, poisoned, srv, cancels,
                   strayCancels, abandoned>>

\* Mutant: the cancel is sent and not waited for.
DropStreamDoesNotWait ==
    /\ op.phase = "stream"
    /\ link
    /\ cancels' = cancels \cup {[by |-> "drop", target |-> op.id]}
    /\ op' = Enter("abandon")
    /\ UNCHANGED <<issued, writeBuf, desynchronized, poisoned, wireVars, srv,
                   history>>

\* Drop of an unfinished stream: cancel() on a connection of its own.  It may
\* fail (no connection to be had), which is swallowed.  A Drop that runs
\* while its thread panics poisons the mutex when the guard goes.
DropStream ==
    /\ op.phase = "stream"
    /\ poisoned' \in {poisoned, TRUE}
    /\ \/ /\ link
          /\ cancels' = cancels \cup {[by |-> "drop", target |-> op.id]}
          /\ op' = Enter("cancelWait")
       \/ /\ op' = Enter("abandon")
          /\ UNCHANGED cancels
    /\ UNCHANGED <<issued, writeBuf, desynchronized, wireVars, srv, history>>

\* drain_sync on the cancel connection: until the server closes it, or
\* CANCEL_DRAIN_TIMEOUT passes with the request still under way.
CancelWaitEnds ==
    LET mine == [by |-> "drop", target |-> op.id]
    IN  /\ op.phase = "cancelWait"
        /\ op' = Enter("abandon")
        /\ cancels' = IF mine \in cancels
                      THEN (cancels \ {mine}) \cup
                             {[by |-> "late", target |-> 0]}
                      ELSE cancels
        /\ UNCHANGED <<issued, writeBuf, desynchronized, poisoned, wireVars,
                       srv, history>>

\* Mutant: only rows are charged against a budget.
DrainChargesRowsOnly ==
    /\ op.phase = "abandon"
    /\ \/ /\ Read({"ready"})
          /\ op' = Free
          /\ UNCHANGED desynchronized
       \/ /\ Read({"row"})
          /\ IF op.rows + 1 > MaxDataRows
             THEN op' = Free /\ desynchronized' = TRUE
             ELSE op' = [op EXCEPT !.rows = @ + 1] /\ UNCHANGED desynchronized
       \/ /\ Read(Replies \ {"ready", "row"})
          /\ UNCHANGED <<op, desynchronized>>
       \/ /\ ReadFails
          /\ op' = Free
          /\ desynchronized' = TRUE
    /\ UNCHANGED <<issued, writeBuf, poisoned, srv, cancels, history>>

\* drain_abandoned_stream(POST_CANCEL_DRAIN_CAP, ABANDONED_STREAM_MAX_DATA_ROWS)
DrainAbandonedStream ==
    /\ op.phase = "abandon"
    /\ \/ /\ Read({"ready"})
          /\ op' = Free
          /\ UNCHANGED desynchronized
       \/ /\ Read({"row"})
          /\ IF op.rows + 1 > MaxDataRows
             THEN op' = Free /\ desynchronized' = TRUE
             ELSE op' = [op EXCEPT !.rows = @ + 1] /\ UNCHANGED desynchronized
       \/ /\ Read(Replies \ {"ready", "row"})
          /\ IF op.n + 1 > DrainCap
             THEN op' = Free /\ desynchronized' = TRUE
             ELSE op' = [op EXCEPT !.n = @ + 1] /\ UNCHANGED desynchronized
       \/ /\ ReadFails
          /\ op' = Free
          /\ desynchronized' = TRUE
    /\ UNCHANGED <<issued, writeBuf, poisoned, srv, cancels, history>>

\* Client::cancel called by another thread: it takes no lock.
UserCancel ==
    /\ link
    /\ \A c \in cancels : c.by # "user"
    /\ cancels' = cancels \cup {[by |-> "user", target |-> 0]}
    /\ UNCHANGED <<clientVars, wireVars, srv, history>>

-----------------------------------------------------------------------------
(* CopyInWriter                                                            *)

\* send: buffered only.
Send ==
    /\ op.phase = "writer"
    /\ Len(writeBuf) + Len(toServer) < MaxCopyFrames
    /\ writeBuf' = Append(writeBuf, Frame("copyDatum"))
    /\ UNCHANGED <<op, issued, desynchronized, poisoned, wireVars, srv,
                   cancels, history>>

\* flush: an error is returned, the writer stays usable.
Flush ==
    /\ op.phase = "writer"
    /\ writeBuf # <<>>
    /\ FlushSucceeds(writeBuf) \/ FlushFails(writeBuf)
    /\ UNCHANGED <<op, issued, desynchronized, poisoned, link, toClient, srv,
                   cancels, history>>

\* send_direct: what is buffered first, then the frame; a failure of either
\* may leave half a frame on the wire.
SendDirect ==
    /\ op.phase = "writer"
    /\ Len(writeBuf) + Len(toServer) < MaxCopyFrames
    /\ \/ /\ FlushSucceeds(Append(writeBuf, Frame("copyDatum")))
          /\ UNCHANGED desynchronized
       \/ /\ FlushFails(writeBuf) \/ FlushFails(<<>>)
          /\ desynchronized' = TRUE
    /\ UNCHANGED <<op, issued, poisoned, link, toClient, srv, cancels, history>>

\* finish_copy and cancel_copy up to their read loops: refused on a
\* desynchronized wire, else the buffer and the closing frame are flushed.
EndCopy(frame, phase) ==
    /\ op.phase = "writer"
    /\ IF desynchronized
       THEN op' = Free /\ UNCHANGED <<writeBuf, toServer, desynchronized>>
       ELSE \/ /\ FlushSucceeds(Append(writeBuf, Frame(frame)))
               /\ op' = Enter(phase)
               /\ UNCHANGED desynchronized
            \/ /\ FlushFails(writeBuf) \/ FlushFails(<<Frame(frame)>>)
               /\ op' = Free
               /\ desynchronized' = TRUE
    /\ UNCHANGED <<issued, poisoned, link, toClient, srv, cancels, history>>

\* CopyInWriter::finish
Finish == EndCopy("copyDone", "finishing")

\* Mutant: dropping the writer only releases the lock.
DropReleasesLockOnly ==
    /\ op.phase = "writer"
    /\ op' = Free
    /\ UNCHANGED <<issued, writeBuf, desynchronized, poisoned, wireVars, srv,
                   cancels, history>>

\* CopyInWriter::cancel, and the Drop of a writer that was not completed
CancelCopy == EndCopy("copyFail", "cancelling")

\* Drop while the thread panics: no I/O; the flag is set, the mutex poisoned.
DropWriterPanicking ==
    /\ op.phase = "writer"
    /\ op' = Free
    /\ desynchronized' = TRUE
    /\ poisoned' = TRUE
    /\ UNCHANGED <<issued, writeBuf, wireVars, srv, cancels, history>>

\* The bounded read loops of finish_copy and cancel_copy, which differ in
\* what they make of the ErrorResponse.
ReadCopyEnd ==
    /\ op.phase \in {"finishing", "cancelling"}
    /\ \/ /\ op.n < DrainCap
          /\ \/ ReadyEnds /\ UNCHANGED desynchronized
             \/ /\ op.phase = "finishing"
                /\ ErrorStartsDrain
                /\ UNCHANGED desynchronized
             \/ /\ Read(NotTerminal \cup
                        (IF op.phase = "cancelling" THEN {"error"} ELSE {}))
                /\ op' = [op EXCEPT !.n = @ + 1]
                /\ UNCHANGED <<desynchronized, misanswered>>
             \/ /\ ReadFails
                /\ op' = Free
                /\ desynchronized' = TRUE
                /\ UNCHANGED misanswered
       \/ /\ op.n = DrainCap
          /\ op' = Free
          /\ desynchronized' = TRUE
          /\ UNCHANGED <<wireVars, misanswered>>
    /\ UNCHANGED <<issued, writeBuf, poisoned, srv, cancels, strayCancels,
                   abandoned>>

-----------------------------------------------------------------------------
(* The server and the transport (external)                                 *)

Emit(k) ==
    /\ Len(toClient) < Capacity
    /\ toClient' = Append(toClient, [k |-> k, id |-> srv.id])

NextFrame(ks) ==
    /\ link
    /\ toServer # <<>>
    /\ Head(toServer).k \in ks
    /\ toServer' = Tail(toServer)

ServerTakesRequest ==
    /\ srv.mode = "idle"
    /\ NextFrame(Kinds)
    /\ \E rows \in 0 .. MaxRows :
          srv' = [mode |-> "run", kind |-> Head(toServer).k,
                  id |-> Head(toServer).id, left |-> rows]
    /\ UNCHANGED <<link, toClient>>

ServerSendsRow ==
    /\ link /\ srv.mode = "run" /\ srv.kind # "copyIn" /\ srv.left > 0
    /\ Emit(IF srv.kind = "copyOut" THEN "copyData" ELSE "row")
    /\ srv' = [srv EXCEPT !.left = @ - 1]
    /\ UNCHANGED <<link, toServer>>

\* NoticeResponse, RowDescription, BindComplete and the like; nothing bounds
\* how many of them a server sends before the end of a reply.
ServerSendsNotice ==
    /\ link /\ srv.mode \in {"run", "tail"}
    /\ Emit("notice")
    /\ UNCHANGED <<srv, link, toServer>>

ServerCompletes ==
    /\ link /\ srv.mode = "run" /\ srv.kind # "copyIn" /\ srv.left = 0
    /\ Emit("complete")
    /\ srv' = [srv EXCEPT !.mode = "tail"]
    /\ UNCHANGED <<link, toServer>>

ServerOpensCopyIn ==
    /\ link /\ srv.mode = "run" /\ srv.kind = "copyIn"
    /\ Emit("copyInResponse")
    /\ srv' = [srv EXCEPT !.mode = "copyIn"]
    /\ UNCHANGED <<link, toServer>>

\* The statement fails, or a COPY is rejected in the middle.
ServerFails ==
    /\ link /\ srv.mode \in {"run", "copyIn"}
    /\ Emit("error")
    /\ srv' = [srv EXCEPT !.mode = "tail"]
    /\ UNCHANGED <<link, toServer>>

ServerTakesCopyFrame ==
    /\ srv.mode = "copyIn"
    /\ \/ /\ NextFrame({"copyDatum"})
          /\ UNCHANGED <<srv, toClient>>
       \/ /\ NextFrame({"copyDone"})
          /\ \E reply \in {"complete", "error"} : Emit(reply)
          /\ srv' = [srv EXCEPT !.mode = "tail"]
       \/ /\ NextFrame({"copyFail"})
          /\ Emit("error")
          /\ srv' = [srv EXCEPT !.mode = "tail"]
    /\ UNCHANGED link

\* Frames of a COPY that was already rejected.
ServerIgnoresCopyFrame ==
    /\ srv.mode = "idle"
    /\ NextFrame({"copyDatum", "copyDone", "copyFail"})
    /\ UNCHANGED <<srv, link, toClient>>

ServerSendsReady ==
    /\ link /\ srv.mode = "tail"
    /\ Emit("ready")
    /\ srv' = [srv EXCEPT !.mode = "idle"]
    /\ UNCHANGED <<link, toServer>>

Server ==
    /\ \/ ServerTakesRequest
       \/ ServerSendsRow
       \/ ServerSendsNotice
       \/ ServerCompletes
       \/ ServerOpensCopyIn
       \/ ServerFails
       \/ ServerTakesCopyFrame
       \/ ServerIgnoresCopyFrame
       \/ ServerSendsReady
    /\ UNCHANGED <<clientVars, cancels, history>>

\* The server processes a cancel request and closes its connection.  It
\* fails the query that runs, whichever that is by now.
ServerCancels ==
    /\ link
    /\ \E c \in cancels :
          /\ cancels' = cancels \ {c}
          /\ IF srv.mode \in {"run", "copyIn"}
             THEN /\ Emit("error")
                  /\ srv' = [srv EXCEPT !.mode = "tail"]
                  /\ strayCancels' = IF c.by = "drop" /\ c.target < srv.id
                                     THEN strayCancels \cup {srv.id}
                                     ELSE strayCancels
             ELSE UNCHANGED <<toClient, srv, strayCancels>>
    /\ UNCHANGED <<clientVars, link, toServer, misanswered, abandoned>>

LinkLost ==
    /\ link
    /\ link' = FALSE
    /\ \E n \in 0 .. Len(toClient) : toClient' = SubSeq(toClient, 1, n)
    /\ toServer' = <<>>
    /\ cancels' = {}
    /\ UNCHANGED <<clientVars, srv, history>>

-----------------------------------------------------------------------------
\* A call that is in progress on the client and waits for nobody but the wire.
ClientReads ==
    \/ ReadReply
    \/ ReadPreparedReply
    \/ ReadCopyOut
    \/ ReadCopyInResponse
    \/ DrainUntilReadyBounded
    \/ ReadChunk
    \/ ReadToReady
    \/ CancelWaitEnds
    \/ DrainAbandonedStream
    \/ ReadCopyEnd

\* No call is in progress; the connection may rest like this for ever.
Resting == op.phase = "free" /\ UNCHANGED vars

Next ==
    \/ SimpleQuery
    \/ QueryStreaming
    \/ StartCopyIn
    \/ CopyOut
    \/ PreparedRequest
    \/ ClientReads
    \/ WriterRefusesChunk
    \/ NextChunk
    \/ DrainToReady
    \/ DropStream
    \/ UserCancel
    \/ Send
    \/ Flush
    \/ SendDirect
    \/ Finish
    \/ CancelCopy
    \/ DropWriterPanicking
    \/ Server
    \/ ServerCancels
    \/ LinkLost
    \/ Resting

Spec == Init /\ [][Next]_vars

\* A thread inside a call keeps running, and the server keeps sending; which
\* messages it sends is its own affair, notices without end included.
FairSpec == Spec /\ WF_vars(ClientReads) /\ WF_vars(Server)
-----------------------------------------------------------------------------
(* Properties                                                              *)

MessageOf(kinds) == [k : kinds, id : Ids]

\* The state stays well formed; in particular a read loop never counts past
\* its budget (drain_until_ready_bounded, drain_abandoned_stream, finish_copy,
\* cancel_copy) and next_chunk never collects more than chunk_size rows.
TypeOK ==
    /\ op \in [phase : Phases, id : 0 .. MaxRequests, checked : BOOLEAN,
               n : Nat, rows : 0 .. MaxDataRows]
    /\ op.n <= IF op.phase = "chunk" THEN ChunkSize - 1
               ELSE IF op.phase \in {"errDrain", "abandon", "finishing",
                                     "cancelling"} THEN DrainCap ELSE 0
    /\ issued \in 0 .. MaxRequests
    /\ writeBuf \in Seq(MessageOf(Frames))
    /\ toServer \in Seq(MessageOf(Frames))
    /\ toClient \in Seq(MessageOf(Replies))
    /\ Len(toClient) <= Capacity
    /\ {desynchronized, poisoned, link, abandoned} \subseteq BOOLEAN
    /\ srv \in [mode : {"idle", "run", "copyIn", "tail"}, kind : Kinds,
                id : 0 .. MaxRequests, left : 0 .. MaxRows]
    /\ cancels \subseteq [by : {"drop", "late", "user"}, target : 0 .. MaxRequests]
    /\ misanswered \subseteq Ids
    /\ strayCancels \subseteq Ids

\* A connection that is free and not marked desynchronized is in step with
\* its server: no reply is left for the next request to misread, and the
\* server is not inside a query or a COPY.  Every way a request can end has
\* to establish this or set the flag: a result, a server error, a stream or a
\* COPY writer dropped at any point, a panic, a lost or late cancel, a budget
\* that runs out, a link that dies.  (The one path that does neither, a
\* COPY OUT whose writer fails, is set apart by `abandoned`.)
CleanWhenFree ==
    op.phase = "free" /\ ~desynchronized /\ ~abandoned =>
        /\ toClient = <<>>
        /\ link => /\ srv.mode = "idle"
                   /\ \A i \in 1 .. Len(toServer) : toServer[i].k \notin Kinds

\* What that buys the caller: a request issued on a connection not marked
\* desynchronized is answered by its own reply, never by what an earlier
\* request left on the wire.
RepliesAreOwn == ~abandoned => misanswered = {}

\* The same with no exception, as drain_until_ready's documentation and the
\* wire_desync tests demand of every operation.  copy_out_to_writer breaks it.
EveryReplyIsOwn == misanswered = {}

\* The cancel that the Drop of a stream sends, and waits for, never fails a
\* later query on the connection: client.rs waits for the server to close the
\* cancel connection "so the cancel cannot land on the caller's next query".
\* Only a wait cut short by CANCEL_DRAIN_TIMEOUT lets the cancel escape.
WaitedCancelIsContained == strayCancels = {}

\* A destructor and an error path come to an end even when the server sends
\* other messages for ever and never ReadyForQuery: the budgets of the drains
\* bound them (connection.rs, POST_ERROR_DRAIN_CAP).
DrainsEnd ==
    (op.phase \in {"errDrain", "cancelWait", "abandon", "finishing",
                   "cancelling"}) ~> (op.phase = "free")

\* A request gets its own reply, and its own cancels only.
RequestsAreIsolated == RepliesAreOwn /\ WaitedCancelIsContained
=============================================================================
