------------------------------ MODULE WireCodec ------------------------------
(***************************************************************************)
(* The wire message codec: Message::parse over a buffer that fills in      *)
(* pieces (backend.rs), the body accessors it hands out (row values, field *)
(* descriptions, error fields, parameter OIDs), the request writers        *)
(* (frontend.rs) with the format codes of a Bind (statement.rs), and the   *)
(* three row types that read one DataRow body in three ways (row.rs).      *)
(* Bytes are numbers; the server's own encoder and decoder are the         *)
(* reference.                                                              *)
(***************************************************************************)
EXTENDS Integers, Sequences, SequencesExt

CONSTANTS Meanings,     \* what the server may send: <<tag, meaning>>
          Malformed,    \* and what it should not: bytes
          Requests,     \* what the client may write: <<writer, arguments>>
          Rows,         \* data rows: values
          Cuts          \* how many bytes one read may bring

VARIABLES codec         \* the direction in use and the bytes, messages and rows in it

Null == <<>>              \* a value is Null or <<bytes>>
Word(n) == IF n < 0 THEN <<255, 255, 255, 256 + n>> ELSE <<0, 0, n \div 256, n % 256>>
Half(n) == <<n \div 256, n % 256>>
Cstr(text) == Append(text, 0)
I32(b) == LET v == b[3] * 256 + b[4] IN IF b[1] >= 128 THEN v - 65536 ELSE v
U16(b) == b[1] * 256 + b[2]
From(b, i) == SubSeq(b, i, Len(b))
Ok(val, rest) == [ok |-> TRUE, val |-> val, rest |-> rest]
Bad == [ok |-> FALSE, val |-> <<>>, rest |-> <<>>]

-----------------------------------------------------------------------------
(* Buffer: each reader takes from the front of what is left.                *)
ReadWord(b) == IF Len(b) < 4 THEN Bad ELSE Ok(I32(b), From(b, 5))
ReadHalf(b) == IF Len(b) < 2 THEN Bad ELSE Ok(U16(b), From(b, 3))
ReadByte(b) == IF b = <<>> THEN Bad ELSE Ok(b[1], Tail(b))
Memchr0(b) == SelectInSeq(b, LAMBDA x : x = 0)
ReadCstr(b) == IF Memchr0(b) = 0 THEN Bad ELSE Ok(SubSeq(b, 1, Memchr0(b) - 1), From(b, Memchr0(b) + 1))
ReadAll(b) == Ok(b, <<>>)

(* One reader after the other, until one fails.                             *)
ReadEach(readers, b) ==
  FoldLeft(LAMBDA acc, read :
             IF ~acc.ok THEN acc
             ELSE LET got == CASE read = "word" -> ReadWord(acc.rest) [] read = "half" -> ReadHalf(acc.rest)
                               [] read = "byte" -> ReadByte(acc.rest) [] read = "cstr" -> ReadCstr(acc.rest)
                               [] read = "all" -> ReadAll(acc.rest)
                  IN IF got.ok THEN Ok(Append(acc.val, got.val), got.rest) ELSE Bad,
           Ok(<<>>, b), readers)

(* The tags of backend.rs and the layout of each body.                      *)
BodyReaders(tag) ==
  CASE tag \in {49, 50, 51, 99, 73, 110, 115} -> <<>>     \* 1 2 3 c I n s
    [] tag = 65 -> <<"word", "cstr", "cstr">>             \* A
    [] tag = 67 -> <<"cstr">>                             \* C
    [] tag \in {100, 69, 78} -> <<"all">>                 \* d E N
    [] tag \in {68, 116, 84} -> <<"half", "all">>         \* D t T
    [] tag \in {71, 72} -> <<"byte", "half", "all">>      \* G H
    [] tag = 75 -> <<"word", "word">>                     \* K
    [] tag = 83 -> <<"cstr", "cstr">>                     \* S
    [] tag = 90 -> <<"byte">>                             \* Z
    [] tag = 82 -> <<"word", "all">>                      \* R
    [] OTHER -> <<"unknown">>
AuthBody(parts) ==
  CASE parts[1] \in {0, 3} -> parts[2] = <<>>
    [] parts[1] = 5 -> Len(parts[2]) = 4
    [] parts[1] \in {10, 11, 12} -> TRUE
    [] OTHER -> FALSE

More == [step |-> "more"]
Refuse == [step |-> "error"]
Took(tag, parts, rest) == [step |-> "message", tag |-> tag, parts |-> parts, rest |-> rest]
\* Mutant: the length is taken to count the tag.
LengthCountsTag(len) == len
TotalLen(len) == len + 1
MessageParse(buf) ==
  IF Len(buf) < 5 THEN More
  ELSE LET len == I32(From(buf, 2))
       IN CASE len >= 0 /\ len < 4 -> Refuse
            [] len < 0 \/ Len(buf) < TotalLen(len) -> More
            [] OTHER ->
                 LET body == SubSeq(buf, 6, TotalLen(len))
                     readers == BodyReaders(buf[1])
                     got == IF readers = <<"unknown">> THEN Bad ELSE ReadEach(readers, body)
                 IN IF ~got.ok \/ got.rest # <<>> \/ (buf[1] = 82 /\ got.ok /\ ~AuthBody(got.val)) THEN Refuse
                    ELSE Took(buf[1], got.val, From(buf, TotalLen(len) + 1))

-----------------------------------------------------------------------------
(* The iterators over a body. DataRowRanges and Row::new: every value, or    *)
(* an error for a row that is short or has bytes to spare.                   *)
RowNew(count, b) ==
  LET step(acc, i) ==
        IF ~acc.ok THEN acc
        ELSE IF Len(acc.rest) < 4 THEN Bad
        ELSE LET len == I32(acc.rest) rest == From(acc.rest, 5)
             IN IF len < 0 THEN Ok(Append(acc.val, Null), rest)
                ELSE IF Len(rest) < len THEN Bad
                ELSE Ok(Append(acc.val, <<SubSeq(rest, 1, len)>>), From(rest, len + 1))
      all == FoldLeft(step, Ok(<<>>, b), [i \in 1..count |-> i])
  IN IF all.ok /\ all.rest # <<>> THEN Bad ELSE all

(* compute_all_offsets and BatchRow: the offsets of the values, as far as    *)
(* the row goes.                                                             *)
ComputeAllOffsets(count, b) ==
  LET step(acc, i) ==
        IF acc.broken THEN acc
        ELSE IF acc.pos + 4 > Len(b) THEN [acc EXCEPT !.broken = TRUE]
        ELSE LET len == I32(From(b, acc.pos + 1)) start == acc.pos + 4
             IN IF len < 0 THEN [acc EXCEPT !.pos = start, !.out = Append(@, <<>>)]
                ELSE IF start + len > Len(b) THEN [acc EXCEPT !.broken = TRUE]
                ELSE [acc EXCEPT !.pos = start + len, !.out = Append(@, <<start, start + len>>)]
  IN FoldLeft(step, [pos |-> 0, broken |-> FALSE, out |-> <<>>], [i \in 1..count |-> i]).out
BatchGet(count, b, i) ==
  LET offsets == ComputeAllOffsets(count, b)
  IN IF i > Len(offsets) \/ offsets[i] = <<>> THEN Null
     ELSE <<SubSeq(b, offsets[i][1] + 1, offsets[i][2])>>
BatchIsNull(count, b, i) == LET offsets == ComputeAllOffsets(count, b) IN i > Len(offsets) \/ offsets[i] = <<>>

(* get_column_bytes and is_column_null of StreamRow: a walk to the column.   *)
\* Mutant: a NULL on the way is skipped with the length that it does not have.
SkipsNullBody(b) == IF Len(b) < 4 \/ Len(b) - 4 < I32(b) THEN <<>> ELSE From(b, 5 + (I32(b) % 256))
SkipColumn(b) ==
  IF Len(b) < 4 \/ (I32(b) >= 0 /\ Len(b) - 4 < I32(b)) THEN <<>>
  ELSE From(b, 5 + (IF I32(b) < 0 THEN 0 ELSE I32(b)))
WalkTo(b, i) == FoldLeft(LAMBDA rest, k : SkipColumn(rest), b, [k \in 1..i - 1 |-> k])
GetColumnBytes(count, b, i) ==
  LET rest == WalkTo(b, i)
  IN IF i > count \/ Len(rest) < 4 \/ I32(rest) < 0 \/ Len(rest) - 4 < I32(rest) THEN Null
     ELSE <<SubSeq(rest, 5, 4 + I32(rest))>>
IsColumnNull(count, b, i) ==
  LET rest == WalkTo(b, i) IN i > count \/ Len(rest) < 4 \/ I32(rest) < 0

(* Fields of a RowDescription, Parameters, ErrorFields.                      *)
DescribeFields(count, b) ==
  LET step(acc, i) ==
        IF ~acc.ok THEN acc
        ELSE LET f == ReadEach(<<"cstr", "word", "half", "word", "half", "word", "half">>, acc.rest)
             IN IF f.ok THEN Ok(Append(acc.val, f.val), f.rest) ELSE Bad
  IN FoldLeft(step, Ok(<<>>, b), [i \in 1..count |-> i])
ParameterOids(count, b) == ReadEach([i \in 1..count |-> "word"], b)
ErrorFields(b) ==
  LET step(acc, i) ==
        IF acc.rest = <<>> \/ ~acc.ok THEN acc
        ELSE IF acc.rest[1] = 0 THEN Ok(acc.val, <<>>)
        ELSE LET v == ReadCstr(Tail(acc.rest))
             IN IF v.ok THEN Ok(Append(acc.val, <<acc.rest[1], v.val>>), v.rest) ELSE Bad
  IN FoldLeft(step, Ok(<<>>, b), [i \in 1..Len(b) |-> i])
(* Notice::from_response_body: S names the severity, V only if S has not yet; *)
(* a field that does not parse ends the list.                                 *)
NoticeSeverity(fields) ==
  FoldLeft(LAMBDA acc, f : IF f[1] = 83 \/ (f[1] = 86 /\ acc = <<>>) THEN f[2] ELSE acc, <<>>, fields)

(* What the client makes of a message, through its accessors.                 *)
Meaning(tag, parts) ==
  CASE tag = 68 -> RowNew(parts[1], parts[2]).val
    [] tag = 84 -> DescribeFields(parts[1], parts[2]).val
    [] tag = 116 -> ParameterOids(parts[1], parts[2]).val
    [] tag = 69 -> ErrorFields(parts[1]).val
    [] tag = 78 -> <<NoticeSeverity(ErrorFields(parts[1]).val)>>
    [] OTHER -> parts

-----------------------------------------------------------------------------
(* The server's encoder: a message is a tag and what it means.                *)
Frame(tag, body) == <<tag>> \o Word(4 + Len(body)) \o body
EncodeValue(v) == IF v = Null THEN Word(-1) ELSE Word(Len(v[1])) \o v[1]
Parts(what) == FlattenSeq(what)
ServerBody(tag, what) ==
  CASE tag = 68 -> Half(Len(what)) \o Parts([i \in 1..Len(what) |-> EncodeValue(what[i])])
    [] tag = 84 -> Half(Len(what)) \o Parts([i \in 1..Len(what) |->
                     Cstr(what[i][1]) \o Word(what[i][2]) \o Half(what[i][3]) \o Word(what[i][4])
                     \o Half(what[i][5]) \o Word(what[i][6]) \o Half(what[i][7])])
    [] tag = 116 -> Half(Len(what)) \o Parts([i \in 1..Len(what) |-> Word(what[i])])
    [] tag = 69 -> Parts([i \in 1..Len(what) |-> <<what[i][1]>> \o Cstr(what[i][2])]) \o <<0>>
    [] tag = 78 -> <<86>> \o Cstr(<<68>>) \o <<83>> \o Cstr(what[1]) \o <<86>> \o Cstr(<<68>>) \o <<0>>
    [] tag = 65 -> Word(what[1]) \o Cstr(what[2]) \o Cstr(what[3])
    [] tag = 67 -> Cstr(what[1])
    [] tag = 83 -> Cstr(what[1]) \o Cstr(what[2])
    [] tag = 75 -> Word(what[1]) \o Word(what[2])
    [] tag = 82 -> Word(what[1]) \o what[2]
    [] tag \in {71, 72} -> <<what[1]>> \o Half(what[2]) \o what[3]
    [] tag = 90 -> what
    [] tag = 100 -> what[1]
    [] OTHER -> <<>>

(* The request writers.                                                       *)
MsgCount(n) == Half(n)
StartupMessage(names) == LET body == <<0, 3, 0, 0>> \o Parts([i \in 1..Len(names) |-> Cstr(names[i])]) \o <<0>>
                         IN Word(4 + Len(body)) \o body
PasswordMessage(text) == Frame(112, Cstr(text))
SaslInitialResponse(mechanism, data) == Frame(112, Cstr(mechanism) \o Word(Len(data)) \o data)
SaslResponse(data) == Frame(112, data)
QueryMessage(text) == Frame(81, Cstr(text))
ParseMessage(name, text, oids) ==
  Frame(80, Cstr(name) \o Cstr(text) \o MsgCount(Len(oids)) \o Parts([i \in 1..Len(oids) |-> Word(oids[i])]))
\* Mutant: no codes at all when every parameter is binary, which the server reads as text.
EmptyForBinary(formats, n) == IF \A i \in 1..Len(formats) : formats[i] = 1 THEN <<>> ELSE formats
BindFormatCodes(formats, n) ==
  IF n = 0 THEN <<>>
  ELSE IF \A i \in 1..Len(formats) : formats[i] = 1 THEN <<1>>
  ELSE formats
BindMessage(portal, statement, formats, params, results) ==
  LET codes == BindFormatCodes(formats, Len(params))
  IN Frame(66, Cstr(portal) \o Cstr(statement)
               \o MsgCount(Len(codes)) \o Parts([i \in 1..Len(codes) |-> Half(codes[i])])
               \o MsgCount(Len(params)) \o Parts([i \in 1..Len(params) |-> EncodeValue(params[i])])
               \o MsgCount(Len(results)) \o Parts([i \in 1..Len(results) |-> Half(results[i])]))
DescribeMessage(kind, name) == Frame(68, <<kind>> \o Cstr(name))
ExecuteMessage(portal, rows) == Frame(69, Cstr(portal) \o Word(rows))
CloseMessage(kind, name) == Frame(67, <<kind>> \o Cstr(name))
SyncMessage == Frame(83, <<>>)
FlushMessage == Frame(72, <<>>)
TerminateMessage == Frame(88, <<>>)
CopyDataMessage(data) == Frame(100, data)
CopyDoneMessage == Frame(99, <<>>)
CopyFailMessage(text) == Frame(102, Cstr(text))
CancelRequest(pid, key) == Word(16) \o <<4, 210, 22, 46>> \o Word(pid) \o Word(key)
SslRequest == Word(8) \o <<4, 210, 22, 47>>

Written(request) ==
  LET a == request[2]
  IN CASE request[1] = "startup" -> StartupMessage(a)
       [] request[1] = "password" -> PasswordMessage(a[1])
       [] request[1] = "sasl" -> SaslInitialResponse(a[1], a[2])
       [] request[1] = "sasl_response" -> SaslResponse(a[1])
       [] request[1] = "query" -> QueryMessage(a[1])
       [] request[1] = "parse" -> ParseMessage(a[1], a[2], a[3])
       [] request[1] = "bind" -> BindMessage(a[1], a[2], a[3], a[4], a[5])
       [] request[1] = "describe" -> DescribeMessage(a[1], a[2])
       [] request[1] = "execute" -> ExecuteMessage(a[1], a[2])
       [] request[1] = "close" -> CloseMessage(a[1], a[2])
       [] request[1] = "sync" -> SyncMessage \o FlushMessage \o TerminateMessage
       [] request[1] = "copy" -> CopyDataMessage(a[1]) \o CopyDoneMessage
       [] request[1] = "copy_fail" -> CopyFailMessage(a[1])
       [] request[1] = "cancel" -> CancelRequest(a[1], a[2])
       [] request[1] = "ssl" -> SslRequest

(* The server's decoder of those requests; a Bind with one format code means  *)
(* it for every parameter, and without any means text.                        *)
CountedReaders(b, read) == LET n == ReadHalf(b) IN IF ~n.ok THEN Bad ELSE ReadEach([i \in 1..n.val |-> read], n.rest)
ReadBind(b) ==
  LET names == ReadEach(<<"cstr", "cstr">>, b)
      codes == CountedReaders(names.rest, "half")
      count == ReadHalf(codes.rest)
      step(acc, i) == IF I32(acc.rest) < 0 THEN Ok(Append(acc.val, Null), From(acc.rest, 5))
                      ELSE Ok(Append(acc.val, <<SubSeq(acc.rest, 5, 4 + I32(acc.rest))>>), From(acc.rest, 5 + I32(acc.rest)))
      values == FoldLeft(step, Ok(<<>>, count.rest), [i \in 1..count.val |-> i])
      results == CountedReaders(values.rest, "half")
  IN <<names.val[1], names.val[2],
       [i \in 1..count.val |-> IF codes.val = <<>> THEN 0 ELSE codes.val[IF Len(codes.val) = 1 THEN 1 ELSE i]],
       values.val, results.val, results.rest>>
(* The length field of a message has to end the message exactly.              *)
Framed(b, untagged) ==
  LET at == IF untagged THEN 0 ELSE 1 IN Len(b) >= at + 4 /\ I32(From(b, at + 1)) = Len(b) - at
ServerReads(request, b) ==
  LET a == request[2] body == From(b, 6)
  IN CASE request[1] = "bind" ->
            LET formats == IF a[3] = <<>> THEN [i \in 1..Len(a[4]) |-> 1] ELSE a[3]
            IN Framed(b, FALSE) /\ ReadBind(body) = <<a[1], a[2], formats, a[4], a[5], <<>>>>
       [] request[1] = "parse" ->
            LET texts == ReadEach(<<"cstr", "cstr">>, body) oids == CountedReaders(texts.rest, "word")
            IN Framed(b, FALSE) /\ texts.val = <<a[1], a[2]>> /\ oids = Ok(a[3], <<>>)
       [] request[1] \in {"startup", "ssl"} -> Framed(b, TRUE)
       [] request[1] = "cancel" -> Framed(b, TRUE) /\ ReadEach(<<"word", "word">>, From(b, 9)) = Ok(a, <<>>)
       [] request[1] \in {"query", "password", "copy_fail"} -> Framed(b, FALSE) /\ ReadCstr(body) = Ok(a[1], <<>>)
       [] request[1] \in {"describe", "close"} -> Framed(b, FALSE) /\ ReadEach(<<"byte", "cstr">>, body) = Ok(a, <<>>)
       [] request[1] = "execute" -> Framed(b, FALSE) /\ ReadEach(<<"cstr", "word">>, body) = Ok(a, <<>>)
       [] request[1] = "sasl" ->
            Framed(b, FALSE) /\ ReadEach(<<"cstr", "word", "all">>, body) = Ok(<<a[1], Len(a[2]), a[2]>>, <<>>)
       [] request[1] = "sasl_response" -> Framed(b, FALSE) /\ body = a[1]
       [] request[1] = "sync" -> Len(b) = 15 /\ \A k \in {1, 6, 11} : Framed(SubSeq(b, k, k + 4), FALSE)
       [] request[1] = "copy" -> Framed(SubSeq(b, 1, Len(b) - 5), FALSE) /\ SubSeq(b, 6, Len(b) - 5) = a[1]

-----------------------------------------------------------------------------
\* <<tag, meaning, bytes, well formed>>
Replies == {<<m[1], m[2], Frame(m[1], ServerBody(m[1], m[2])), TRUE>> : m \in Meanings}
           \cup {<<b[1], <<>>, b, FALSE>> : b \in Malformed}

\* <<column count, bytes>>: each row whole, cut off anywhere, or not of that count
Bodies ==
  UNION {LET b == Parts([i \in 1..Len(r) |-> EncodeValue(r[i])])
         IN {<<Len(r), SubSeq(b, 1, k)>> : k \in 0..Len(b)} \cup {<<Len(r), Append(b, 0)>>, <<Len(r) + 1, b>>} : r \in Rows}

CodecInit == codec = [dir |-> "none"]
(* The server sends one or two messages; the second may be malformed.         *)
ServerSends(first, second) ==
  /\ codec.dir = "none"
  /\ codec' = [dir |-> "in", wire |-> first[3] \o second[3], buf |-> <<>>, refused |-> FALSE,
               want |-> <<first, second>>, out |-> <<>>]
Deliver(n) ==
  /\ codec.dir = "in" /\ codec.wire # <<>> /\ ~codec.refused /\ MessageParse(codec.buf) = More
  /\ LET k == IF n > Len(codec.wire) THEN Len(codec.wire) ELSE n
     IN codec' = [codec EXCEPT !.buf = @ \o SubSeq(codec.wire, 1, k), !.wire = From(@, k + 1)]
ParseOne ==
  /\ codec.dir = "in" /\ ~codec.refused
  /\ LET got == MessageParse(codec.buf)
     IN \/ got.step = "message"
           /\ codec' = [codec EXCEPT !.buf = got.rest, !.out = Append(@, <<got.tag, Meaning(got.tag, got.parts)>>)]
        \/ got.step = "error" /\ codec' = [codec EXCEPT !.refused = TRUE]
ClientWrites(request) ==
  /\ codec.dir = "none"
  /\ codec' = [dir |-> "out", request |-> request, bytes |-> Written(request)]
ReadRow(count, b) ==
  /\ codec.dir = "none"
  /\ codec' = [dir |-> "row", count |-> count, body |-> b]

CodecNext ==
  \/ \E first \in Replies, second \in Replies : first[4] /\ ServerSends(first, second)
  \/ \E n \in Cuts : Deliver(n)
  \/ ParseOne
  \/ \E request \in Requests : ClientWrites(request)
  \/ \E body \in Bodies : ReadRow(body[1], body[2])
CodecSpec == CodecInit /\ [][CodecNext]_codec

-----------------------------------------------------------------------------
(* However the bytes were cut, the messages parsed are the ones sent, with   *)
(* the meaning the server gave them; a malformed one is refused, never       *)
(* skipped, misread or waited for.                                           *)
ParsedIsSent ==
  codec.dir = "in" =>
    LET good == SelectSeq(codec.want, LAMBDA w : w[4])
        meant == [i \in 1..Len(good) |-> <<good[i][1], good[i][2]>>]
    IN /\ IsPrefix(codec.out, meant)
       /\ codec.refused => Len(good) = 1 /\ codec.out = meant
       /\ codec.wire = <<>> /\ ~codec.refused /\ MessageParse(codec.buf) = More
            => codec.out = meant /\ codec.buf = <<>> /\ Len(good) = 2

(* What the server reads from a request is what the caller asked for: every  *)
(* length ends its message, NULL and empty parameters differ, and each       *)
(* parameter has the format the caller gave it.                              *)
RequestIsRead ==
  codec.dir = "out" => ServerReads(codec.request, codec.bytes)

(* The walk of StreamRow, the offsets of BatchRow and the ranges of Row give *)
(* the same value for every column of any row, short, overlong or with NULLs; *)
(* they agree on NULL in every row that Row accepts.                         *)
RowViewsAgree ==
  codec.dir = "row" =>
    LET row == RowNew(codec.count, codec.body)
    IN \A i \in 1..codec.count + 1 :
         /\ GetColumnBytes(codec.count, codec.body, i) = BatchGet(codec.count, codec.body, i)
         /\ row.ok => /\ BatchIsNull(codec.count, codec.body, i) = IsColumnNull(codec.count, codec.body, i)
                      /\ BatchIsNull(codec.count, codec.body, i) = (i > Len(row.val) \/ row.val[i] = Null)
                      /\ i <= Len(row.val) => GetColumnBytes(codec.count, codec.body, i) = row.val[i]

\* Client and server mean the same by every byte: in replies that arrive in
\* pieces, in requests, and in a row that is read in three ways.
CodecIsExact == ParsedIsSent /\ RequestIsRead /\ RowViewsAgree
=============================================================================
