------------------------------ MODULE AsyncWire ------------------------------
(***************************************************************************)
(* One PostgreSQL-wire connection of the asynchronous client:              *)
(* AsyncRawConnection (async_connection.rs) behind the tokio mutex of      *)
(* AsyncClient (async_client.rs), its streams (async_stream_query.rs,      *)
(* async_prepared_stream.rs) and its COPY writers.                         *)
(*                                                                         *)
(* Two things set it apart from the synchronous connection.  A future may  *)
(* be dropped at any await (a timeout, select!), which ends the call in    *)
(* the middle and releases the lock; and a COPY writer locks the mutex     *)
(* only for the length of a call, so other tasks reach the connection      *)
(* while the COPY is open.  The step of a client is therefore one write or *)
(* one message read, and a drop of its future may take its place.          *)
(*                                                                         *)
(* The server and the transport are external, as in WireConnection.  Here  *)
(* the server also meets frames no order was agreed for: one that was      *)
(* written in part stops it, and a request inside a COPY fails the COPY.   *)
(***************************************************************************)
EXTENDS Integers, Sequences, FiniteSets

CONSTANTS
    MaxAsyncRequests,  \* bound: requests issued in a behaviour
    MaxAsyncRows,      \* bound: rows of one result
    MaxAsyncFrames,    \* bound: frames between a COPY writer and the server
    AsyncCapacity,     \* bound: messages in flight to the client
    AsyncChunkSize,    \* chunk_size of a stream
    AsyncDrainCap      \* POST_ERROR_DRAIN_CAP

ASSUME AsyncAssumption ==
    /\ MaxAsyncRequests \in Nat /\ MaxAsyncRows \in Nat /\ MaxAsyncFrames \in Nat
    /\ AsyncCapacity \in Nat /\ AsyncChunkSize \in Nat \ {0} /\ AsyncDrainCap \in Nat

VARIABLES
    aop,              \* the call or stream guard that holds the mutex
    aissued,          \* how many requests were issued
    awriters,         \* requests whose COPY writer is alive and not finished
    awriteBuf,        \* write_buf
    awriteInFlight,   \* write_in_flight
    apendingCancel,   \* pending_copy_cancel
    adesynchronized,  \* desynchronized
    alink,            \* the transport still works
    atoServer,        \* frames on their way to the server
    atoClient,        \* messages on their way to the client, read_buf included
    asrv,             \* the server's session
    acancelSent,      \* a cancel request is on its way to the server
    amisanswered,     \* history: requests answered with another one's reply
    atainted          \* history: what was done to the connection: a "torn"
                      \*   write, and what none of its flags records

asyncClient == <<aop, aissued, awriters, awriteBuf, awriteInFlight, apendingCancel,
                 adesynchronized>>
asyncWire == <<alink, atoServer, atoClient>>
asyncHistory == <<amisanswered, atainted>>
asyncVars == <<asyncClient, asyncWire, asrv, acancelSent, asyncHistory>>

AsyncIds == 1 .. MaxAsyncRequests
AsyncKinds == {"simple", "stream", "copyIn"}
AsyncFrames == AsyncKinds \cup {"copyDatum", "copyDone", "copyFail", "torn"}
AsyncReplies == {"row", "notice", "complete", "copyInResponse", "error", "ready"}

\* The 64 KiB by which read_message had grown read_buf when it was dropped.
\* Message::parse refuses their length, and consumes nothing.
Zeros == [k |-> "zeros", id |-> 0]

\* Where the holder of the mutex is.
Writing == {"flushPending", "flush", "writerFlush", "direct", "endFlush"}
Reading == {"drainPending", "await", "chunk", "drainReady", "errDrain",
            "streamErrDrain", "ending"}

AsyncFree == [phase |-> "free", kind |-> "simple", id |-> 0, n |-> 0]
AsyncEnter(phase) == [aop EXCEPT !.phase = phase, !.n = 0]

AsyncInit ==
    /\ aop = AsyncFree
    /\ aissued = 0
    /\ awriters = {}
    /\ awriteBuf = <<>>
    /\ awriteInFlight = FALSE
    /\ apendingCancel = FALSE
    /\ adesynchronized = FALSE
    /\ alink = TRUE
    /\ atoServer = <<>>
    /\ atoClient = <<>>
    /\ asrv = [mode |-> "idle", kind |-> "simple", id |-> 0, left |-> 0]
    /\ acancelSent = FALSE
    /\ amisanswered = {}
    /\ atainted = {}

-----------------------------------------------------------------------------
(* Health                                                                  *)

\* is_healthy, ensure_healthy
IsHealthy == ~adesynchronized /\ ~awriteInFlight

\* queue_copy_fail
QueueCopyFail(id) ==
    IF awriteInFlight
    THEN /\ adesynchronized' = TRUE
         /\ UNCHANGED <<awriteBuf, apendingCancel>>
    ELSE /\ awriteBuf' = Append(awriteBuf, [k |-> "copyFail", id |-> id])
         /\ apendingCancel' = TRUE
         /\ UNCHANGED adesynchronized

-----------------------------------------------------------------------------
(* Writing                                                                 *)

AsyncTorn == \E i \in 1 .. Len(atoServer) : atoServer[i].k = "torn"

\* What the server makes of fs: behind a torn frame it is part of that frame.
Deliver(fs) == atoServer' = IF alink /\ ~AsyncTorn THEN atoServer \o fs ELSE atoServer

\* A write of w starts: flush sets the flag before the first await.
StartWrite(w) ==
    /\ awriteBuf' = w
    /\ awriteInFlight' = (awriteInFlight \/ w # <<>>)

\* The request's own frames are appended to write_buf and flushed.
WriteRequest(o) ==
    /\ StartWrite(Append(awriteBuf, [k |-> o.kind, id |-> o.id]))
    /\ aop' = [o EXCEPT !.phase = "flush", !.n = 0]

\* Mutant: the queued CopyFail goes out together with the request.
RequestIgnoresPending(kind) ==
    /\ aop.phase = "free"
    /\ aissued < MaxAsyncRequests
    /\ IsHealthy
    /\ aissued' = aissued + 1
    /\ WriteRequest([AsyncFree EXCEPT !.kind = kind, !.id = aissued + 1])
    /\ UNCHANGED <<awriters, apendingCancel, adesynchronized, asyncWire, asrv,
                   acancelSent, asyncHistory>>

\* Every request: lock, ensure_healthy, drain_pending_copy_cancel, write.
AsyncRequest(kind) ==
    LET o == [AsyncFree EXCEPT !.kind = kind, !.id = aissued + 1]
    IN  /\ aop.phase = "free"
        /\ aissued < MaxAsyncRequests
        /\ IsHealthy
        /\ aissued' = aissued + 1
        /\ IF apendingCancel
           THEN StartWrite(awriteBuf) /\ aop' = [o EXCEPT !.phase = "flushPending"]
           ELSE WriteRequest(o)
        /\ atainted' = atainted \cup (IF awriters = {} THEN {} ELSE {"overlap"})
        /\ UNCHANGED <<awriters, apendingCancel, adesynchronized, asyncWire, asrv,
                       acancelSent, amisanswered>>

\* The requests that read their reply under the lock differ in their frames and
\* in what they make of the rows.
AsyncSimpleQuery == AsyncRequest("simple")
AsyncQueryBinary == AsyncRequest("simple")
AsyncCopyOut == AsyncRequest("simple")
AsyncPrepare == AsyncRequest("simple")
ExecutePrepared == AsyncRequest("simple")
ExecutePreparedNoResult == AsyncRequest("simple")
CloseStatement == AsyncRequest("simple")

\* The caller wraps the guard in an AsyncQueryStream (the first two) or an
\* AsyncPreparedQueryStream.
StartQueryBinary == AsyncRequest("stream")
StartSimpleQuery == AsyncRequest("stream")
BindExecuteSync == AsyncRequest("stream")

\* start_copy_in_with_format
AsyncStartCopyIn == AsyncRequest("copyIn")

\* flush and send_copy_data_direct complete.  What follows depends on the
\* call: the drain of the abandoned COPY, the reply, or nothing more.
WriteCompletes ==
    /\ aop.phase \in Writing
    /\ Deliver(awriteBuf)
    /\ awriteBuf' = <<>>
    /\ awriteInFlight' = FALSE
    /\ aop' = CASE aop.phase = "flushPending" -> AsyncEnter("drainPending")
               [] aop.phase = "flush" ->
                    AsyncEnter(IF aop.kind = "stream" THEN "stream" ELSE "await")
               [] aop.phase = "endFlush" -> AsyncEnter("ending")
               [] OTHER -> AsyncFree
    /\ atainted' = IF "torn" \in atainted THEN atainted \cup {"rewrite"} ELSE atainted
    /\ UNCHANGED <<aissued, awriters, apendingCancel, adesynchronized, alink,
                   atoClient, asrv, acancelSent, amisanswered>>

\* write_all or flush of the stream fails: write_in_flight stays set.
WriteFails ==
    /\ aop.phase \in Writing
    /\ ~alink
    /\ aop' = AsyncFree
    /\ UNCHANGED <<aissued, awriters, awriteBuf, awriteInFlight, apendingCancel,
                   adesynchronized, asyncWire, asrv, acancelSent, asyncHistory>>

\* The future of the call is dropped in a write.  Some of the bytes are on
\* the wire, and write_buf is not cleared.
DropWrite ==
    /\ aop.phase \in Writing
    /\ aop' = AsyncFree
    /\ \E n \in 0 .. Len(awriteBuf), torn \in BOOLEAN :
          LET sent == SubSeq(awriteBuf, 1, n)
          IN  Deliver(IF torn /\ n < Len(awriteBuf)
                      THEN Append(sent, [awriteBuf[n + 1] EXCEPT !.k = "torn"])
                      ELSE sent)
    /\ atainted' = atainted \cup {"torn"}
    /\ UNCHANGED <<aissued, awriters, awriteBuf, awriteInFlight, apendingCancel,
                   adesynchronized, alink, atoClient, asrv, acancelSent,
                   amisanswered>>

-----------------------------------------------------------------------------
(* Reading                                                                 *)

\* read_message returns the next message, which is one of ks.
AsyncRead(ks) ==
    /\ atoClient # <<>>
    /\ Head(atoClient).k \in ks
    /\ atoClient' = Tail(atoClient)
    /\ UNCHANGED <<alink, atoServer>>

\* read_message fails: end of stream, or bytes that are not a message.
AsyncReadFails ==
    /\ IF atoClient = <<>> THEN ~alink ELSE Head(atoClient) = Zeros
    /\ UNCHANGED asyncWire

\* The message that decides the outcome of the request has been read.
AsyncAnswer ==
    amisanswered' = IF Head(atoClient).id # aop.id
                   THEN amisanswered \cup {aop.id} ELSE amisanswered

\* Mutant: one message more than the budget is read.
DrainOverruns(success, e) ==
    \/ /\ aop.n <= AsyncDrainCap
       /\ \/ AsyncRead({"ready"}) /\ success
          \/ /\ AsyncRead(AsyncReplies \ {"ready"})
             /\ aop' = [aop EXCEPT !.n = @ + 1]
             /\ UNCHANGED <<adesynchronized, apendingCancel, awriteBuf,
                            awriteInFlight>>
          \/ AsyncReadFails /\ e
    \/ aop.n > AsyncDrainCap /\ UNCHANGED asyncWire /\ e

\* Mutant: the drain has no budget.
DrainUnbounded(success, e) ==
    \/ AsyncRead({"ready"}) /\ success
    \/ /\ AsyncRead(AsyncReplies \ {"ready"})
       /\ UNCHANGED <<aop, adesynchronized, apendingCancel, awriteBuf,
                      awriteInFlight>>
    \/ AsyncReadFails /\ e

\* drain_until_ready_bounded: success at ReadyForQuery, else e.
BoundedDrain(success, e) ==
    \/ /\ aop.n < AsyncDrainCap
       /\ \/ AsyncRead({"ready"}) /\ success
          \/ /\ AsyncRead(AsyncReplies \ {"ready"})
             /\ aop' = [aop EXCEPT !.n = @ + 1]
             /\ UNCHANGED <<adesynchronized, apendingCancel, awriteBuf,
                            awriteInFlight>>
          \/ AsyncReadFails /\ e
    \/ aop.n = AsyncDrainCap /\ UNCHANGED asyncWire /\ e

AsyncGiveUp ==
    /\ aop' = AsyncFree
    /\ adesynchronized' = TRUE
    /\ UNCHANGED <<apendingCancel, awriteBuf, awriteInFlight>>

\* drain_pending_copy_cancel after its flush; the request then goes on.
DrainPending ==
    /\ aop.phase = "drainPending"
    /\ BoundedDrain(/\ apendingCancel' = FALSE
                    /\ UNCHANGED adesynchronized
                    /\ WriteRequest(aop),
                    AsyncGiveUp)
    /\ UNCHANGED <<aissued, awriters, asrv, acancelSent, asyncHistory>>

\* consume_error
ConsumeError ==
    /\ aop.phase \in {"errDrain", "streamErrDrain"}
    /\ BoundedDrain(/\ aop' = AsyncFree
                    /\ UNCHANGED <<adesynchronized, apendingCancel, awriteBuf,
                                   awriteInFlight>>,
                    AsyncGiveUp)
    /\ UNCHANGED <<aissued, awriters, asrv, acancelSent, asyncHistory>>

\* The read loops of the requests and of finish_copy and cancel_copy: a failed
\* read just returns.
ReadUntil(last, skipped, drain) ==
    /\ \/ AsyncRead(last) /\ AsyncAnswer /\ aop' = AsyncFree
       \/ AsyncRead({"error"} \ skipped) /\ AsyncAnswer /\ aop' = AsyncEnter(drain)
       \/ AsyncRead(skipped) /\ UNCHANGED <<aop, amisanswered>>
       \/ AsyncReadFails /\ aop' = AsyncFree /\ UNCHANGED amisanswered

\* The loops of simple_query, query_binary, copy_out, prepare,
\* execute_prepared, execute_prepared_no_result and close_statement
AsyncReadReply ==
    /\ aop.phase = "await"
    /\ aop.kind = "simple"
    /\ ReadUntil({"ready"}, AsyncReplies \ {"ready", "error"}, "errDrain")
    /\ UNCHANGED <<aissued, awriters, awriteBuf, awriteInFlight, apendingCancel,
                   adesynchronized, asrv, acancelSent, atainted>>

\* start_copy_in_with_format waits for CopyInResponse; copy_in_with_format
\* then releases the lock and returns the writer.
AsyncReadCopyInResponse ==
    /\ aop.phase = "await"
    /\ aop.kind = "copyIn"
    /\ ReadUntil({"copyInResponse"}, AsyncReplies \ {"copyInResponse", "error"},
                 "errDrain")
    /\ awriters' = IF atoClient # <<>> /\ Head(atoClient).k = "copyInResponse"
                  THEN awriters \cup {aop.id} ELSE awriters
    /\ UNCHANGED <<aissued, awriteBuf, awriteInFlight, apendingCancel,
                   adesynchronized, asrv, acancelSent, atainted>>

\* The unbounded loops of finish_copy and cancel_copy; only the former stops
\* at an ErrorResponse.
AsyncReadCopyEnd ==
    /\ aop.phase = "ending"
    /\ ReadUntil({"ready"},
                 AsyncReplies \ (IF aop.kind = "copyIn" THEN {"ready", "error"}
                            ELSE {"ready"}), "errDrain")
    /\ UNCHANGED <<aissued, awriters, awriteBuf, awriteInFlight, apendingCancel,
                   adesynchronized, asrv, acancelSent, atainted>>

\* What a read that is still pending may have received: nothing, or the first
\* part of the message the server is sending.
PartlyRead ==
    {<<Zeros>>} \cup
    (IF alink /\ asrv.mode \in {"run", "tail"}
     THEN {<<[k |-> k, id |-> asrv.id], Zeros>> : k \in {"row", "ready"}}
     ELSE {})

\* The future of a request is dropped while it waits for the server.  The
\* lock is released and no flag is set; read_buf keeps the zeros it was
\* grown by.
DropRead ==
    /\ aop.phase \in {"drainPending", "await", "errDrain", "ending"}
    /\ atoClient = <<>>
    /\ atoClient' \in PartlyRead
    /\ aop' = AsyncFree
    /\ atainted' = atainted \cup {"read"}
    /\ UNCHANGED <<aissued, awriters, awriteBuf, awriteInFlight, apendingCancel,
                   adesynchronized, alink, atoServer, asrv, acancelSent,
                   amisanswered>>

-----------------------------------------------------------------------------
(* AsyncQueryStream and AsyncPreparedQueryStream                           *)

\* next_chunk, drain_to_ready
CallStream ==
    /\ aop.phase = "stream"
    /\ \E p \in {"chunk", "drainReady"} : aop' = AsyncEnter(p)
    /\ UNCHANGED <<aissued, awriters, awriteBuf, awriteInFlight, apendingCancel,
                   adesynchronized, asyncWire, asrv, acancelSent, asyncHistory>>

\* Their loops.  `finished` is set before consume_error is awaited; a failed
\* read returns with the stream unfinished.
AsyncReadStream ==
    /\ aop.phase \in {"chunk", "drainReady"}
    /\ \/ AsyncRead({"ready"}) /\ AsyncAnswer /\ aop' = AsyncFree
       \/ AsyncRead({"error"}) /\ AsyncAnswer /\ aop' = AsyncEnter("streamErrDrain")
       \/ /\ AsyncRead({"row"})
          /\ aop' = IF aop.phase = "drainReady" THEN aop
                   ELSE IF aop.n + 1 >= AsyncChunkSize THEN AsyncEnter("stream")
                   ELSE [aop EXCEPT !.n = @ + 1]
          /\ UNCHANGED amisanswered
       \/ AsyncRead(AsyncReplies \ {"ready", "error", "row"})
            /\ UNCHANGED <<aop, amisanswered>>
       \/ AsyncReadFails /\ aop' = AsyncEnter("stream") /\ UNCHANGED amisanswered
    /\ UNCHANGED <<aissued, awriters, awriteBuf, awriteInFlight, apendingCancel,
                   adesynchronized, asrv, acancelSent, atainted>>

\* The future of next_chunk or drain_to_ready is dropped, and the stream
\* lives on; but not if an ErrorResponse was read.  Then the stream counts as
\* finished, and its own Drop only releases the lock.
DropStreamFuture ==
    /\ aop.phase \in {"chunk", "drainReady", "streamErrDrain"}
    /\ atoClient = <<>>
    /\ atoClient' \in PartlyRead
    /\ aop' = IF aop.phase = "streamErrDrain" THEN AsyncFree ELSE AsyncEnter("stream")
    /\ atainted' = atainted \cup {"read"}
    /\ UNCHANGED <<aissued, awriters, awriteBuf, awriteInFlight, apendingCancel,
                   adesynchronized, alink, atoServer, asrv, acancelSent,
                   amisanswered>>

\* Mutant: the stream is cancelled and the connection is taken to be clean.
DropStreamCancelsOnly ==
    /\ aop.phase = "stream"
    /\ acancelSent' = (acancelSent \/ alink)
    /\ aop' = AsyncFree
    /\ UNCHANGED <<aissued, awriters, awriteBuf, awriteInFlight, apendingCancel,
                   adesynchronized, asyncWire, asrv, asyncHistory>>

\* Drop of a stream that is not finished: a best-effort cancel on a
\* connection of its own, and the flag.
AsyncDropStream ==
    /\ aop.phase = "stream"
    /\ acancelSent' \in {acancelSent, acancelSent \/ alink}
    /\ aop' = AsyncFree
    /\ adesynchronized' = TRUE
    /\ UNCHANGED <<aissued, awriters, awriteBuf, awriteInFlight, apendingCancel,
                   asyncWire, asrv, asyncHistory>>

\* AsyncClient::cancel, from any task and without the lock.
AsyncCancel ==
    /\ alink /\ ~acancelSent
    /\ acancelSent' = TRUE
    /\ UNCHANGED <<asyncClient, asyncWire, asrv, asyncHistory>>

-----------------------------------------------------------------------------
(* AsyncCopyInWriter and AsyncCopyInWriterOwned                            *)

WriterCall(w) == aop.phase = "free" /\ w \in awriters

WriterHolds(phase, kind, w) == [phase |-> phase, kind |-> kind, id |-> w, n |-> 0]

\* send: buffered, with no look at the health of the connection.
AsyncSend(w) ==
    /\ WriterCall(w)
    /\ Len(awriteBuf) + Len(atoServer) < MaxAsyncFrames
    /\ awriteBuf' = Append(awriteBuf, [k |-> "copyDatum", id |-> w])
    /\ UNCHANGED <<aop, aissued, awriters, awriteInFlight, apendingCancel,
                   adesynchronized, asyncWire, asrv, acancelSent, asyncHistory>>

\* flush, and send_direct with a frame of its own
WriterFlush(w) ==
    /\ WriterCall(w)
    /\ \/ /\ awriteBuf # <<>>
          /\ Len(awriteBuf) + Len(atoServer) <= MaxAsyncFrames
          /\ StartWrite(awriteBuf)
          /\ aop' = WriterHolds("writerFlush", "copyIn", w)
       \/ /\ Len(awriteBuf) + Len(atoServer) < MaxAsyncFrames
          /\ StartWrite(Append(awriteBuf, [k |-> "copyDatum", id |-> w]))
          /\ aop' = WriterHolds("direct", "copyIn", w)
    /\ UNCHANGED <<aissued, awriters, apendingCancel, adesynchronized, asyncWire, asrv,
                   acancelSent, asyncHistory>>

\* finish and cancel consume the writer; finish_copy and cancel_copy refuse a
\* connection that is not healthy.
AsyncEndCopy(w) ==
    /\ WriterCall(w)
    /\ awriters' = awriters \ {w}
    /\ \E frame \in {"copyDone", "copyFail"} :
          IF IsHealthy
          THEN /\ StartWrite(Append(awriteBuf, [k |-> frame, id |-> w]))
               /\ aop' = WriterHolds("endFlush",
                              IF frame = "copyDone" THEN "copyIn" ELSE "simple", w)
          ELSE UNCHANGED <<aop, awriteBuf, awriteInFlight>>
    /\ UNCHANGED <<aissued, apendingCancel, adesynchronized, asyncWire, asrv, acancelSent,
                   asyncHistory>>

\* Drop of a writer that was not finished: try_lock succeeds.
DropWriter(w) ==
    /\ WriterCall(w)
    /\ awriters' = awriters \ {w}
    /\ QueueCopyFail(w)
    /\ UNCHANGED <<aop, aissued, awriteInFlight, asyncWire, asrv, acancelSent, asyncHistory>>

\* The writer goes without a CopyFail: its Drop finds the mutex locked, or the
\* future of finish or cancel, which had already set `finished`, is dropped
\* while it waits for the lock.
LoseWriter(w) ==
    /\ w \in awriters
    /\ aop.phase # "free"
    /\ awriters' = awriters \ {w}
    /\ atainted' = atainted \cup {"lost"}
    /\ UNCHANGED <<aop, aissued, awriteBuf, awriteInFlight, apendingCancel,
                   adesynchronized, asyncWire, asrv, acancelSent, amisanswered>>

\* Drop of an AsyncPreparedStatement outside a runtime; inside one it spawns a
\* task whose close_statement is the CloseStatement of this model.
DropStatementNoRuntime ==
    /\ aissued > 0
    /\ aop.phase = "free"
    /\ adesynchronized' = TRUE
    /\ UNCHANGED <<aop, aissued, awriters, awriteBuf, awriteInFlight, apendingCancel,
                   asyncWire, asrv, acancelSent, asyncHistory>>

-----------------------------------------------------------------------------
(* The server and the transport (external)                                 *)

AsyncEmit(k) ==
    /\ Len(atoClient) < AsyncCapacity
    /\ atoClient' = Append(atoClient, [k |-> k, id |-> asrv.id])

AsyncNextFrame(ks) ==
    /\ alink
    /\ atoServer # <<>>
    /\ Head(atoServer).k \in ks
    /\ atoServer' = Tail(atoServer)

AsyncServerTakesRequest ==
    /\ asrv.mode = "idle"
    /\ AsyncNextFrame(AsyncKinds)
    /\ \E rows \in 0 .. MaxAsyncRows :
          asrv' = [mode |-> "run", kind |-> Head(atoServer).k,
                  id |-> Head(atoServer).id, left |-> rows]
    /\ UNCHANGED atoClient

ServerSends(k, mode) ==
    /\ alink
    /\ AsyncEmit(k)
    /\ asrv' = [asrv EXCEPT !.mode = mode,
                          !.left = IF k = "row" THEN @ - 1 ELSE @]
    /\ UNCHANGED atoServer

ServerRuns ==
    /\ asrv.mode = "run"
    /\ \/ ServerSends("error", "tail")
       \/ ServerSends("notice", "run")
       \/ asrv.kind = "copyIn" /\ ServerSends("copyInResponse", "copyIn")
       \/ asrv.kind # "copyIn" /\ asrv.left > 0 /\ ServerSends("row", "run")
       \/ asrv.kind # "copyIn" /\ asrv.left = 0 /\ ServerSends("complete", "tail")

ServerEnds ==
    /\ asrv.mode = "tail"
    /\ \/ ServerSends("ready", "idle")
       \/ ServerSends("notice", "tail")

AsyncServerTakesCopyFrame ==
    /\ asrv.mode = "copyIn"
    /\ \/ AsyncNextFrame({"copyDatum"}) /\ UNCHANGED <<asrv, atoClient>>
       \/ /\ AsyncNextFrame({"copyDone"} \cup {"copyFail"} \cup AsyncKinds)
          /\ \E reply \in {"error"} \cup (IF Head(atoServer).k = "copyDone"
                                          THEN {"complete"} ELSE {}) : AsyncEmit(reply)
          /\ asrv' = [asrv EXCEPT !.mode = "tail"]

AsyncServerIgnoresCopyFrame ==
    /\ asrv.mode = "idle"
    /\ AsyncNextFrame({"copyDatum", "copyDone", "copyFail"})
    /\ UNCHANGED <<asrv, atoClient>>

\* A cancel fails the query that runs, whichever that is by now.
AsyncServerCancels ==
    /\ acancelSent /\ alink
    /\ acancelSent' = FALSE
    /\ IF asrv.mode \in {"run", "copyIn"}
       THEN AsyncEmit("error") /\ asrv' = [asrv EXCEPT !.mode = "tail"]
       ELSE UNCHANGED <<atoClient, asrv>>
    /\ UNCHANGED <<asyncClient, alink, atoServer, asyncHistory>>

AsyncServer ==
    /\ \/ AsyncServerTakesRequest
       \/ ServerRuns
       \/ ServerEnds
       \/ AsyncServerTakesCopyFrame
       \/ AsyncServerIgnoresCopyFrame
    /\ UNCHANGED <<asyncClient, alink, acancelSent, asyncHistory>>

AsyncLinkLost ==
    /\ alink
    /\ alink' = FALSE
    /\ \E n \in 0 .. Len(atoClient) : atoClient' = SubSeq(atoClient, 1, n)
    /\ atoServer' = <<>>
    /\ acancelSent' = FALSE
    /\ UNCHANGED <<asyncClient, asrv, asyncHistory>>
-----------------------------------------------------------------------------
\* A call in progress that waits for nobody but the wire.
ClientSteps ==
    \/ WriteCompletes
    \/ WriteFails
    \/ DrainPending
    \/ ConsumeError
    \/ AsyncReadReply
    \/ AsyncReadCopyInResponse
    \/ AsyncReadCopyEnd
    \/ AsyncReadStream

\* Nothing was done to the connection that its flags do not record.
Untainted == atainted \subseteq {"torn"}

AsyncRequests ==
    \/ AsyncSimpleQuery \/ AsyncQueryBinary \/ AsyncCopyOut
    \/ AsyncPrepare \/ ExecutePrepared \/ ExecutePreparedNoResult \/ CloseStatement
    \/ StartQueryBinary \/ StartSimpleQuery \/ BindExecuteSync
    \/ AsyncStartCopyIn

AsyncStep ==
    \/ AsyncRequests
    \/ ClientSteps
    \/ DropWrite
    \/ DropRead
    \/ CallStream
    \/ DropStreamFuture
    \/ AsyncDropStream
    \/ AsyncCancel
    \/ \E w \in awriters : AsyncSend(w) \/ WriterFlush(w) \/ AsyncEndCopy(w)
                            \/ DropWriter(w) \/ LoseWriter(w)
    \/ DropStatementNoRuntime
    \/ AsyncServer
    \/ AsyncServerCancels
    \/ AsyncLinkLost

\* The connection may rest for ever with no call in progress.  A behaviour is
\* followed until the connection is tainted.
AsyncNext ==
    \/ Untainted /\ AsyncStep
    \/ (aop.phase = "free" \/ ~Untainted) /\ UNCHANGED asyncVars

AsyncSpec == AsyncInit /\ [][AsyncNext]_asyncVars

\* The executor polls a task that can go on, and the server keeps sending.
AsyncFairSpec ==
    AsyncSpec /\ WF_asyncVars(Untainted /\ ClientSteps) /\ WF_asyncVars(Untainted /\ AsyncServer)
-----------------------------------------------------------------------------
(* Properties                                                              *)

\* The state stays well formed; a bounded drain never counts past its budget.
AsyncTypeOK ==
    /\ aop \in [phase : Writing \cup Reading \cup {"free", "stream"},
               kind : AsyncKinds, id : 0 .. MaxAsyncRequests,
               n : 0 .. (IF AsyncChunkSize > AsyncDrainCap THEN AsyncChunkSize ELSE AsyncDrainCap)]
    /\ aissued \in 0 .. MaxAsyncRequests
    /\ awriters \subseteq AsyncIds
    /\ \A i \in 1 .. Len(awriteBuf) : awriteBuf[i].k \in AsyncFrames
    /\ \A i \in 1 .. Len(atoClient) : atoClient[i].k \in AsyncReplies \cup {"zeros"}
    /\ {awriteInFlight, apendingCancel, adesynchronized, alink, acancelSent}
         \subseteq BOOLEAN
    /\ amisanswered \subseteq AsyncIds
    /\ atainted \subseteq {"torn", "read", "rewrite", "overlap", "lost"}

\* The number of closing frames the server has still to see for the COPY it
\* is in, or has still to be sent one for.
CopyIsAccountedFor ==
    \/ asrv.id \in awriters
    \/ apendingCancel
    \/ \E i \in 1 .. Len(atoServer) : atoServer[i].k \in {"copyDone", "copyFail"}

\* A connection whose mutex is free and that counts as healthy is in step with
\* its server: nothing unread is left for the next request, no request is
\* outstanding, and a COPY that is open on the server has a writer or a queued
\* CopyFail that will end it.  Every end of a call has to establish this or
\* leave a flag set: a reply, an error and its drain, a future dropped in a
\* write, a stream or a writer dropped at any point, a link that dies.  The
\* ways that do neither (a future dropped in a read, a write repeated after a
\* torn one, a request inside a COPY, a writer lost to a busy lock) are set
\* apart by `atainted`.
AsyncCleanWhenFree ==
    aop.phase = "free" /\ IsHealthy /\ Untainted =>
        /\ apendingCancel \/ awriters # {} \/ atoClient = <<>>
        /\ alink => /\ asrv.mode \in {"run", "tail"} => apendingCancel \/ awriters # {}
                    /\ asrv.mode = "copyIn" => CopyIsAccountedFor
                    /\ \A i \in 1 .. Len(atoServer) : atoServer[i].k \notin AsyncKinds

\* A request is answered by its own reply: neither what an abandoned stream
\* or COPY left on the wire nor the ErrorResponse to a queued CopyFail is
\* taken for it ("the read loop would then misattribute the COPY error to this
\* query", start_query_binary).
AsyncRepliesAreOwn == Untainted => amisanswered = {}

\* A bounded drain ends even when the server sends notices for ever: the
\* abandoned COPY and an error path never hang the next operation.
\* (A torn frame or a lost writer leaves a server that never answers.)
AsyncDrainsEnd ==
    (aop.phase \in {"drainPending", "errDrain"} /\ Untainted) ~>
        (aop.phase \notin {"drainPending", "errDrain"} \/ ~Untainted)

\* After an interrupted write "a partial frame may be on the wire and nothing
\* appended after it can be parsed as a message boundary, so the connection is
\* unusable" (write_in_flight): it is not healthy again.
TornWriteIsTerminal == AsyncTorn => ~IsHealthy

\* "Returns `true` if this connection is still in a known-good state and safe
\* to use for new requests" (is_healthy): whatever its callers did, a healthy
\* connection has nothing unreadable in its read buffer.
HealthyIsReadable ==
    aop.phase = "free" /\ IsHealthy =>
        \A i \in 1 .. Len(atoClient) : atoClient[i] # Zeros

\* The async connection stays in step: within its budgets, clean when it is free,
\* and no request answered by what another one left.
AsyncInStep == AsyncTypeOK /\ AsyncCleanWhenFree /\ AsyncRepliesAreOwn
=============================================================================
