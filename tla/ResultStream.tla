---------------------------- MODULE ResultStream ----------------------------
(***************************************************************************)
(* A result on its way from the transport to the caller: the chunks of a   *)
(* TCP query or of an Arrow IPC stream (ArrowRowset, with its decoder), the *)
(* Rowset on top of them, and the ways to consume it: rows() and the       *)
(* collectors built on it, the typed iterator of stream_as, next_chunk in  *)
(* a loop (the asynchronous collectors), first_row.                        *)
(*                                                                         *)
(* An Arrow message is <<"schema">>, <<"batch", rows>> or <<"eos">>; a      *)
(* transport chunk is a sequence of whole messages. The server sends a     *)
(* batch without rows only in an empty result.                             *)
(***************************************************************************)
EXTENDS Integers, Sequences, SequencesExt

CONSTANTS Results       \* the results tried, each a sequence of batches of rows
VARIABLES feed,         \* what the transport has still to give: chunks, or <<"failed">>
          set,          \* the ArrowRowset or TCP stream, and the Rowset's schema cache
          use           \* the consumer: kind, current_iter, indices, rows given, outcome

rvars == <<feed, set, use>>

Schema == <<"schema">>
Eos == <<"eos">>
Batch(rows) == <<"batch", rows>>
Failed == <<<<"failed">>>>
AllRows(batches) == FlattenSeq(batches)

(* How hyperd cuts a result into chunks: one IPC stream per chunk, one      *)
(* stream over all chunks, a schema repeated in every chunk without a       *)
(* marker between them, or later streams that rely on the first schema.     *)
Layout(shape, batches) ==
  LET n == Len(batches)
  IN CASE shape = "independent" -> [i \in 1..n |-> <<Schema, Batch(batches[i]), Eos>>]
       [] shape = "continuous" ->
            [i \in 1..n |-> (IF i = 1 THEN <<Schema>> ELSE <<>>) \o <<Batch(batches[i])>>
                            \o (IF i = n THEN <<Eos>> ELSE <<>>)]
       [] shape = "repeated" -> [i \in 1..n |-> <<Schema, Batch(batches[i])>>]
       [] shape = "continuation" ->
            [i \in 1..n |-> (IF i = 1 THEN <<Schema>> ELSE <<>>) \o <<Batch(batches[i]), Eos>>]
Shapes == {"independent", "continuous", "repeated", "continuation"}

-----------------------------------------------------------------------------
(* drive_streaming_decoder: d is the decoder (whether it has a schema) and  *)
(* the batches pending; messages are taken from the head of buf.            *)
FreshDecoder == [schema |-> FALSE, pending |-> <<>>, error |-> FALSE]
DecodeMessage(d, message) ==
  CASE message[1] = "schema" -> [d EXCEPT !.schema = TRUE]
    [] message[1] = "batch" /\ d.schema -> [d EXCEPT !.pending = Append(@, message[2])]
    [] OTHER -> [d EXCEPT !.error = TRUE]
EosAtHead(d, more) == IF more THEN [d EXCEPT !.schema = FALSE] ELSE d
\* Mutant: a repeated schema starts a new stream, and the decoder forgets the one it had.
ResetOnSchema(d) == [d EXCEPT !.schema = FALSE]
SkipRepeatedSchema(d) == d
DriveStreamingDecoder(d, buf) ==
  LET step(acc, i) ==
        IF acc.error THEN acc
        ELSE IF buf[i] = Eos THEN EosAtHead(acc, i < Len(buf))
        ELSE IF acc.schema /\ buf[i] = Schema THEN SkipRepeatedSchema(acc)
        ELSE DecodeMessage(acc, buf[i])
  IN FoldLeftDomain(step, d, buf)
DecodePossiblyConcatenatedStreams(buf) == DriveStreamingDecoder(FreshDecoder, buf)

-----------------------------------------------------------------------------
Empty == [kind |-> "closed"]
Idle == [kind |-> "none", iter |-> <<>>, indices |-> FALSE, out |-> <<>>, end |-> ""]
RowsetOf(kind, d, result) ==
  [kind |-> kind, dec |-> d, exhausted |-> FALSE, cached |-> FALSE, result |-> result]

ResultInit == feed = <<>> /\ set = Empty /\ use = Idle

(* A TCP query: QueryStream's chunks have at least one row; the server may  *)
(* fail the query after any of them.                                        *)
OpenTcp(batches, fails) ==
  /\ set = Empty
  /\ feed' = [i \in 1..Len(batches) |-> <<Batch(batches[i])>>] \o (IF fails THEN Failed ELSE <<>>)
  /\ set' = RowsetOf("tcp", [FreshDecoder EXCEPT !.schema = TRUE], batches)
  /\ UNCHANGED use

(* ArrowRowset::from_stream: the source is read lazily, but the schema at   *)
(* once (prime_stream), over chunks that are empty.                         *)
StartStream(shape, batches, gap, fails) ==
  /\ set = Empty
  /\ feed' = (IF gap THEN <<<<>>>> ELSE <<>>) \o Layout(shape, batches) \o (IF fails THEN Failed ELSE <<>>)
  /\ set' = RowsetOf("priming", FreshDecoder, batches)
  /\ UNCHANGED use
\* Mutant: an empty chunk ends the priming, without a schema.
PrimeStopsAtGap ==
  /\ set.kind = "priming"
  /\ IF set.dec.schema \/ set.exhausted
     THEN set' = [set EXCEPT !.kind = "stream"] /\ UNCHANGED feed
     ELSE IF feed = <<>> THEN set' = [set EXCEPT !.exhausted = TRUE] /\ UNCHANGED feed
     ELSE /\ feed' = Tail(feed)
          /\ set' = IF Head(feed) = <<>> THEN [set EXCEPT !.kind = "stream"]
                    ELSE IF Head(feed) = <<"failed">> THEN [set EXCEPT !.kind = "refused"]
                    ELSE [set EXCEPT !.dec = DriveStreamingDecoder(@, Head(feed))]
  /\ UNCHANGED use
PrimeStream ==
  /\ set.kind = "priming"
  /\ IF set.dec.schema \/ set.exhausted
     THEN set' = [set EXCEPT !.kind = "stream"] /\ UNCHANGED feed
     ELSE IF feed = <<>> THEN set' = [set EXCEPT !.exhausted = TRUE] /\ UNCHANGED feed
     ELSE /\ feed' = Tail(feed)
          /\ set' = IF Head(feed) = <<"failed">> THEN [set EXCEPT !.kind = "refused"]
                    ELSE [set EXCEPT !.dec = DriveStreamingDecoder(@, Head(feed))]
  /\ UNCHANGED use

(* from_bytes (the asynchronous gRPC transport): all chunks glued together  *)
(* and decoded at once. from_chunks: each decoded by a decoder of its own.  *)
FromBytes(shape, batches) ==
  /\ set = Empty
  /\ LET d == DecodePossiblyConcatenatedStreams(FlattenSeq(Layout(shape, batches)))
     IN set' = IF d.error THEN [RowsetOf("refused", d, batches) EXCEPT !.dec.pending = <<>>]
               ELSE RowsetOf("buffered", d, batches)
  /\ UNCHANGED <<feed, use>>
FromChunks(shape, batches) ==
  /\ set = Empty
  /\ LET decode(acc, chunk) ==
           IF acc.error \/ chunk = <<>> THEN acc
           ELSE LET d == DecodePossiblyConcatenatedStreams(chunk)
                IN [schema |-> acc.schema \/ d.schema, pending |-> acc.pending \o d.pending, error |-> d.error]
         d == FoldLeft(decode, FreshDecoder, Layout(shape, batches))
     IN set' = IF d.error THEN [RowsetOf("refused", d, batches) EXCEPT !.dec.pending = <<>>]
               ELSE RowsetOf("buffered", d, batches)
  /\ UNCHANGED <<feed, use>>

-----------------------------------------------------------------------------
(* ArrowRowset::next_chunk, on one pass of its loop: the batch pending, or  *)
(* one more chunk from the source, decoded.                                 *)
CanPull == set.kind \in {"tcp", "stream"} /\ set.dec.pending = <<>> /\ ~set.exhausted /\ ~set.dec.error
Opened == set.kind \in {"tcp", "stream", "buffered"}
Consuming == Opened /\ use.kind # "none" /\ use.end = "" /\ use.iter = <<>>
Pull ==
  /\ Consuming /\ CanPull
  /\ IF feed = <<>>
     THEN set' = [set EXCEPT !.exhausted = TRUE] /\ UNCHANGED <<feed, use>>
     ELSE /\ feed' = Tail(feed)
          /\ IF Head(feed) = <<"failed">>
             THEN use' = [use EXCEPT !.end = "error"] /\ UNCHANGED set
             ELSE set' = [set EXCEPT !.dec = DriveStreamingDecoder(@, Head(feed))] /\ UNCHANGED use

NextChunk == IF set.dec.pending = <<>> THEN <<"none">> ELSE <<"chunk", Head(set.dec.pending)>>
ChunkReady == set.dec.pending # <<>> \/ ~CanPull
CachedSchema == set.cached \/ set.dec.schema
WithSchema(rows) == [i \in 1..Len(rows) |-> <<rows[i], CachedSchema>>]
TakeChunk == set' = [set EXCEPT !.dec.pending = Tail(@), !.cached = CachedSchema]
DecodeFails ==
  /\ Consuming /\ set.dec.error /\ set.dec.pending = <<>>
  /\ use' = [use EXCEPT !.end = "error"]
  /\ UNCHANGED <<feed, set>>

(* rows(): RowIterator::next, and the collectors on it. After a fresh chunk *)
(* it answers with whatever the chunk's iterator gives.                     *)
IterateRows ==
  /\ Consuming /\ ChunkReady /\ ~set.dec.error
  /\ use.kind = "rows"
  /\ IF NextChunk[1] = "none" THEN use' = [use EXCEPT !.end = "done"] /\ UNCHANGED set
     ELSE /\ use' = IF NextChunk[2] = <<>> THEN [use EXCEPT !.end = "done"]
                    ELSE [use EXCEPT !.iter = WithSchema(NextChunk[2])]
          /\ TakeChunk
  /\ UNCHANGED feed
(* stream_as: TypedRowIterator::next builds the name index from the schema  *)
(* at the first chunk, and loops over empty ones.                           *)
IterateTyped ==
  /\ Consuming /\ ChunkReady /\ ~set.dec.error
  /\ use.kind = "typed"
  /\ IF NextChunk[1] = "none" THEN use' = [use EXCEPT !.end = "done"] /\ UNCHANGED set
     ELSE /\ use' = [use EXCEPT !.iter = WithSchema(NextChunk[2]), !.indices = use.indices \/ CachedSchema]
          /\ TakeChunk
  /\ UNCHANGED feed
\* Mutant: the rest of the chunk is dropped when the next one is fetched.
YieldHeadOnly ==
  /\ use.iter # <<>> /\ use.end = ""
  /\ use' = [use EXCEPT !.iter = <<>>, !.out = Append(@, Head(use.iter))]
  /\ UNCHANGED <<feed, set>>
YieldRow ==
  /\ use.iter # <<>> /\ use.end = ""
  /\ use' = [use EXCEPT !.iter = Tail(@), !.out = Append(@, Head(use.iter))]
  /\ UNCHANGED <<feed, set>>
(* next_chunk until None: AsyncRowset::collect_rows and collect_column.     *)
CollectChunk ==
  /\ Consuming /\ ChunkReady /\ ~set.dec.error
  /\ use.kind = "collect"
  /\ IF NextChunk[1] = "none" THEN use' = [use EXCEPT !.end = "done"] /\ UNCHANGED set
     ELSE use' = [use EXCEPT !.out = @ \o WithSchema(NextChunk[2])] /\ TakeChunk
  /\ UNCHANGED feed
(* first_row, require_first_row, scalar, require_scalar: the first row of   *)
(* the first chunk; the rest of the stream is drained.                      *)
FirstOf(rows) == IF rows = <<>> THEN <<>> ELSE <<rows[1]>>
DrainRemaining ==
  /\ feed' = <<>>
  /\ set' = [set EXCEPT !.dec.pending = <<>>, !.exhausted = TRUE, !.cached = CachedSchema]
FirstRow ==
  /\ Consuming /\ ChunkReady /\ ~set.dec.error
  /\ use.kind = "first"
  /\ use' = [use EXCEPT !.end = "done",
                        !.out = IF NextChunk[1] = "none" THEN <<>> ELSE FirstOf(WithSchema(NextChunk[2]))]
  /\ DrainRemaining

Consume(kind) ==
  /\ Opened /\ use.kind = "none"
  /\ use' = [use EXCEPT !.kind = kind]
  /\ UNCHANGED <<feed, set>>

ResultNext ==
  \/ \E batches \in Results, fails \in BOOLEAN :
       \/ (\A i \in 1..Len(batches) : batches[i] # <<>>) /\ OpenTcp(batches, fails)
       \/ \E shape \in Shapes, gap \in BOOLEAN : StartStream(shape, batches, gap, fails)
  \/ \E batches \in Results, shape \in Shapes : FromBytes(shape, batches) \/ FromChunks(shape, batches)
  \/ PrimeStream \/ Pull \/ DecodeFails
  \/ IterateRows \/ IterateTyped \/ YieldRow \/ CollectChunk \/ FirstRow
  \/ \E kind \in {"rows", "typed", "collect", "first"} : Consume(kind)
ResultSpec == ResultInit /\ [][ResultNext]_rvars

-----------------------------------------------------------------------------
RowIds(rows) == [i \in 1..Len(rows) |-> rows[i][1]]

(* A consumer that ends without an error has been given every row of the   *)
(* result once and in order, whatever shape the chunks had and wherever    *)
(* the decoder was restarted; one that ends with an error, a prefix; and   *)
(* first_row finds no row only in an empty result.                         *)
EveryRowOnce ==
  use.end # "" =>
    LET rows == AllRows(set.result)
    IN IF use.kind = "first" /\ use.end = "done"
       THEN RowIds(use.out) = FirstOf(rows)
       ELSE /\ IsPrefix(RowIds(use.out), rows)
            /\ use.end = "done" => RowIds(use.out) = rows

(* The schema is known from the moment a streamed result is handed out,    *)
(* before any row is asked for; every row carries it, and the typed        *)
(* iterator has its column index before the first row: a lookup by name    *)
(* never fails because the schema came later than the rows.                *)
RowsCarrySchema ==
  /\ set.kind = "stream" /\ set.result # <<>> => CachedSchema
  /\ \A i \in 1..Len(use.out) : use.out[i][2]
  /\ use.kind = "typed" /\ use.out # <<>> => use.indices

(* A result that the transport delivered whole is not refused while it is  *)
(* streamed: each of the four shapes decodes, the repeated schemas and the *)
(* trailing end-of-stream markers included.                                *)
StreamedShapesDecode ==
  set.kind \in {"priming", "stream"} => ~set.dec.error

\* Every consumer gets every row of the result once, under its schema, however the
\* transport cuts it.
ResultIsComplete == EveryRowOnce /\ RowsCarrySchema /\ StreamedShapesDecode
=============================================================================
