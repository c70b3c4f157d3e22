----------------------------- MODULE SqlValues -----------------------------
(***************************************************************************)
(* One value on its way through the client: a Rust value is added to an    *)
(* inserter (HyperBinary), stored by the server, sent back over TCP        *)
(* (HyperBinary in DataRow) or as an Arrow array (gRPC), and read through  *)
(* Row::get, Row::try_get, RowAccessor or the getters of the core rows.    *)
(*                                                                         *)
(* A fixed-width value is the record [len, bits]: its width in bytes and   *)
(* its little-endian bit pattern, an unsigned number below 2^Bits[len].    *)
(* The widths are scaled (a 4-byte word has 24 bits, an 8-byte word 28, a  *)
(* day has 16 time units) so that Julian days and timestamps keep their    *)
(* true epochs; every wrap and every range check is at the scaled width.   *)
(***************************************************************************)
EXTENDS Integers, Sequences, FiniteSets, TLC

VARIABLE trip        \* the value, where it is, and what the reader got

Bits == (1 :> 3) @@ (2 :> 4) @@ (4 :> 24) @@ (8 :> 28) @@ (16 :> 30)
Modulus(len) == 2 ^ Bits[len]
MaxInt(len) == Modulus(len) \div 2 - 1
Fits(n, len) == -MaxInt(len) - 1 <= n /\ n <= MaxInt(len)
Put(len, n) == [len |-> len, bits |-> n % Modulus(len)]
SignedOf(word) ==
  IF word.bits > MaxInt(word.len) THEN word.bits - Modulus(word.len) ELSE word.bits
None == <<>>
Some(v) == <<v>>
OrElse(first, second) == IF first # None THEN first ELSE second

-----------------------------------------------------------------------------
(* The calendar of Date, in days since 2000-01-01.                          *)
JulianDayEpoch == 2451545
MinJulianDay == 1721060
MaxJulianDay == 5373484

YmdToDays(y, m, d) ==
  LET yy == IF m > 2 THEN y + 4800 ELSE y + 4799
      mm == IF m > 2 THEN m + 1 ELSE m + 13
      century == yy \div 100
  IN yy * 365 - 32167 + yy \div 4 - century + century \div 4 + (7834 * mm) \div 256 + d
       - JulianDayEpoch

\* Mutant: the century correction of the Gregorian calendar is forgotten.
YmdWithoutCenturies(days) ==
  LET a == days + JulianDayEpoch + 32044
      d == (4 * a + 3) \div 1461
      e == a - (1461 * d) \div 4
      m == (5 * e + 2) \div 153
  IN <<d - 4800 + m \div 10, m + 3 - 12 * (m \div 10), e - (153 * m + 2) \div 5 + 1>>
DaysToYmd(days) ==
  LET a == days + JulianDayEpoch + 32044
      b == (4 * a + 3) \div 146097
      c == a - (b * 146097) \div 4
      d == (4 * c + 3) \div 1461
      e == c - (1461 * d) \div 4
      m == (5 * e + 2) \div 153
  IN <<b * 100 + d - 4800 + m \div 10, m + 3 - 12 * (m \div 10), e - (153 * m + 2) \div 5 + 1>>

ToJulianDay(days) == days + JulianDayEpoch
TryDecodeDate(julian) ==
  IF MinJulianDay <= julian /\ julian <= MaxJulianDay THEN Some(julian - JulianDayEpoch) ELSE None

(* Times and timestamps count scaled time units; a day has TimeOfDay + 1.   *)
UnitsPerSecond == 2
UnitsPerMinute == 2 * UnitsPerSecond
UnitsPerHour == 2 * UnitsPerMinute
UnitsPerDay == 2 * UnitsPerHour
MaxTime == UnitsPerDay - 1
TryTime(units) == IF units > MaxTime THEN None ELSE Some(units)
TimeOfParts(h, m, s, u) == h * UnitsPerHour + m * UnitsPerMinute + s * UnitsPerSecond + u
ToHms(t) == <<t \div UnitsPerHour, (t % UnitsPerHour) \div UnitsPerMinute,
              (t % UnitsPerMinute) \div UnitsPerSecond, t % UnitsPerSecond>>
EpochOffset == JulianDayEpoch * UnitsPerDay
TimestampOf(days, time) == days * UnitsPerDay + time
ToDateTime(ts) == <<ts \div UnitsPerDay, ts % UnitsPerDay>>
EncodeTimestamp(ts) == Put(8, ts + EpochOffset)
DecodeTimestamp(word) == SignedOf(Put(8, SignedOf(word) - EpochOffset))

(* Interval is three words: microseconds, days, months, in this order.      *)
EncodeInterval(i) ==
  [len |-> 16, bits |-> <<Put(8, i.micros), Put(4, i.days), Put(4, i.months)>>]
DecodeInterval(word) ==
  [micros |-> SignedOf(word.bits[1]), days |-> SignedOf(word.bits[2]),
   months |-> SignedOf(word.bits[3])]

-----------------------------------------------------------------------------
(* Numeric: an unscaled integer and the number of its decimal digits.       *)
SmallNumericMaxPrecision == 18
MaxPrecision == 38
Power(n) == 10 ^ n
CheckedPow(n) == IF n <= 8 /\ Power(n) <= MaxInt(16) THEN Some(Power(n)) ELSE None
CheckedMul(a, b) ==
  IF a = 0 \/ (IF a < 0 THEN -a ELSE a) <= MaxInt(16) \div b THEN Some(a * b) ELSE None

\* Mutant: a value with too many decimal digits is truncated.
RescaleTruncates(n, target) ==
  IF n.scale <= target THEN CheckedMul(n.value, Power(target - n.scale))
  ELSE Some(n.value \div Power(n.scale - target))
RescaleNumeric(n, target) ==
  IF n.scale = target THEN Some(n.value)
  ELSE LET factor == CheckedPow(IF n.scale < target THEN target - n.scale ELSE n.scale - target)
       IN IF factor = None THEN None
          ELSE IF n.scale < target THEN CheckedMul(n.value, factor[1])
          ELSE IF n.value % factor[1] = 0 THEN Some(n.value \div factor[1]) ELSE None

EncodeInt64(unscaled) == IF Fits(unscaled, 8) THEN Some(Put(8, unscaled)) ELSE None
AddNumeric(n, precision, scale) ==
  LET unscaled == RescaleNumeric(n, scale)
  IN IF unscaled = None THEN None
     ELSE IF precision <= SmallNumericMaxPrecision THEN EncodeInt64(unscaled[1])
     ELSE Some(Put(16, unscaled[1]))
FromBinaryWithScale(word, scale) ==
  IF word.len \in {8, 16} THEN Some([value |-> SignedOf(word), scale |-> scale]) ELSE None

Digits[n \in Nat] == IF n < 10 THEN <<n>> ELSE Append(Digits[n \div 10], n % 10)
Zeros(n) == [i \in 1..n |-> 0]
DisplayNumeric(n) ==
  LET magnitude == IF n.value < 0 THEN -n.value ELSE n.value
      digits == Digits[magnitude]
      point == Len(digits) - n.scale
  IN [neg |-> n.value < 0,
      int |-> IF point > 0 THEN SubSeq(digits, 1, point) ELSE <<0>>,
      frac |-> IF point > 0 THEN SubSeq(digits, point + 1, Len(digits)) ELSE Zeros(-point) \o digits]

-----------------------------------------------------------------------------
(* Column types: a SqlType with its parameters, and its catalog form        *)
(* (type OID and modifier) in a RowDescription.                             *)
Plain == {"bool", "smallint", "int", "bigint", "real", "double", "text", "bytea", "date",
          "time", "timestamp", "timestamptz", "interval", "json", "oid", "geography"}
TryNumeric(p, s) == IF 1 <= p /\ p <= MaxPrecision /\ s <= p THEN Some(<<"numeric", p, s>>) ELSE None
InternalOid(t) ==
  IF t[1] = "char" THEN IF t[2] = 1 THEN "char1" ELSE "char" ELSE t[1]
FromOid(oid) ==
  CASE oid \in Plain -> <<oid>>
    [] oid = "numeric" -> <<"numeric", 0, 0>>
    [] oid = "varchar" -> <<"varchar", -1>>
    [] oid \in {"char", "char1"} -> <<"char", 1>>
    [] OTHER -> <<"unsupported">>
\* Mutant: the four bytes of header are not subtracted from the modifier.
FromModifierWithHeader(oid, modifier) ==
  CASE oid = "numeric" -> <<"numeric", modifier \div 65536, modifier % 65536>>
    [] oid \in {"varchar", "char"} -> <<oid, modifier>>
    [] OTHER -> FromOid(oid)
FromOidAndModifier(oid, modifier) ==
  CASE oid = "numeric" ->
         LET p == (modifier - 4) \div 65536
             s == (modifier - 4) % 65536
         IN IF modifier < 4 \/ p > MaxPrecision \/ s > p THEN FromOid(oid) ELSE <<oid, p, s>>
    [] oid = "varchar" /\ modifier >= 4 -> <<oid, modifier - 4>>
    [] oid = "char" /\ modifier >= 4 -> <<oid, modifier - 4>>
    [] OTHER -> FromOid(oid)
(* The modifier the server reports (PostgreSQL's typmod).                   *)
TypeModifier(t) ==
  CASE t[1] = "numeric" -> t[2] * 65536 + t[3] + 4
    [] t[1] \in {"varchar", "char"} /\ t[2] >= 0 -> t[2] + 4
    [] OTHER -> -1

-----------------------------------------------------------------------------
(* Writing: InsertChunk::add_*, with the null indicator of a nullable       *)
(* column in front. The stream has no other boundary.                       *)
NotNull == [len |-> 1, bits |-> 0]
IsNull == [len |-> 1, bits |-> 1]
AddBool(v) == Put(1, IF v THEN 1 ELSE 0)
AddDate(days) == Put(4, ToJulianDay(days))
AddTime(units) == Put(8, units)
AddOffsetTimestamp(v) == EncodeTimestamp(v.ts)
AddBytes(v) == <<Put(4, v.len), v>>

Words(t, v) ==
  CASE t[1] = "bool" -> Some(<<AddBool(v)>>)
    [] t[1] = "smallint" -> Some(<<Put(2, v)>>)
    [] t[1] \in {"int", "real"} -> Some(<<Put(4, v)>>)
    [] t[1] \in {"bigint", "double"} -> Some(<<Put(8, v)>>)
    [] t[1] \in {"text", "varchar", "char", "bytea"} -> Some(AddBytes(v))
    [] t[1] = "date" -> Some(<<AddDate(v)>>)
    [] t[1] = "time" -> Some(<<AddTime(v)>>)
    [] t[1] = "timestamp" -> Some(<<EncodeTimestamp(v)>>)
    [] t[1] = "timestamptz" -> Some(<<AddOffsetTimestamp(v)>>)
    [] t[1] = "interval" -> Some(<<EncodeInterval(v)>>)
    [] t[1] = "numeric" -> LET word == AddNumeric(v, t[2], t[3])
                           IN IF word = None THEN None ELSE Some(<<word[1]>>)

AddToInserter(t, nullable, value) ==
  IF value = None THEN IF nullable THEN Some(<<IsNull>>) ELSE None
  ELSE LET words == Words(t, value[1])
       IN IF words = None THEN None
          ELSE Some(IF nullable THEN <<NotNull>> \o words[1] ELSE words[1])

(* What the server reads from the stream for a column: nothing for NULL,    *)
(* otherwise the word, or the bytes after their length.                     *)
ServerStores(t, nullable, stream) ==
  IF nullable /\ stream[1].bits = 1 THEN None
  ELSE LET rest == IF nullable THEN Tail(stream) ELSE stream
       IN Some(IF t[1] \in {"text", "varchar", "char", "bytea"} THEN rest[2] ELSE rest[1])

-----------------------------------------------------------------------------
(* Binding: ToSqlParam encodes for Bind in PostgreSQL's formats, not in     *)
(* HyperBinary: big-endian words, days and timestamps since 2000, NUMERIC   *)
(* in groups of four decimal digits, or as text when it has a scale.        *)
BigEndian(len, n) == [order |-> "be", word |-> Put(len, n)]
ParamInt(len, v) == BigEndian(len, v)
ParamFloat(len, v) == BigEndian(len, v)
ParamBool(v) == BigEndian(1, IF v THEN 1 ELSE 0)
\* Mutant: the date is sent as its Julian day, as in HyperBinary.
ParamJulianDate(days) == BigEndian(4, ToJulianDay(days))
ParamDate(days) == BigEndian(4, days)
ParamTime(units) == BigEndian(8, units)
ParamTimestamp(ts) == BigEndian(8, ts)
ParamOffsetTimestamp(v) == BigEndian(8, v.ts)
ParamInterval(i) == <<BigEndian(8, i.micros), BigEndian(4, i.days), BigEndian(4, i.months)>>
Groups[n \in Nat] == IF n = 0 THEN <<>> ELSE Append(Groups[n \div 10000], n % 10000)
PgNumeric(unscaled) ==
  LET groups == Groups[IF unscaled < 0 THEN -unscaled ELSE unscaled]
  IN [neg |-> unscaled < 0, weight |-> IF groups = <<>> THEN 0 ELSE Len(groups) - 1, groups |-> groups]
ParamNumeric(n) ==
  IF n.scale = 0 THEN [format |-> "binary", oid |-> "numeric", body |-> PgNumeric(n.value)]
  ELSE [format |-> "text", oid |-> "unknown", body |-> DisplayNumeric(n)]
EncodeParam(t, v) ==
  CASE t[1] = "bool" -> ParamBool(v)
    [] t[1] = "smallint" -> ParamInt(2, v)
    [] t[1] = "int" -> ParamInt(4, v)
    [] t[1] = "bigint" -> ParamInt(8, v)
    [] t[1] = "real" -> ParamFloat(4, v)
    [] t[1] = "double" -> ParamFloat(8, v)
    [] t[1] \in {"text", "varchar", "char", "bytea"} -> v
    [] t[1] = "date" -> ParamDate(v)
    [] t[1] = "time" -> ParamTime(v)
    [] t[1] = "timestamp" -> ParamTimestamp(v)
    [] t[1] = "timestamptz" -> ParamOffsetTimestamp(v)
    [] t[1] = "interval" -> ParamInterval(v)
    [] t[1] = "numeric" -> ParamNumeric(v)

(* The server's side of Bind: PostgreSQL's binary formats by type, decimal  *)
(* text for a parameter of unknown type.                                    *)
FromBigEndian(w) == IF w.order = "be" THEN SignedOf(w.word) ELSE 0
NumberOf[digits \in Seq(Nat)] ==
  IF digits = <<>> THEN 0
  ELSE 10 * NumberOf[SubSeq(digits, 1, Len(digits) - 1)] + digits[Len(digits)]
GroupSum[groups \in Seq(Nat)] ==
  IF groups = <<>> THEN 0
  ELSE 10000 * GroupSum[SubSeq(groups, 1, Len(groups) - 1)] + groups[Len(groups)]
Negated(neg, n) == IF neg THEN -n ELSE n
BoundNumber(param) ==
  IF param.format = "binary"
  THEN [value |-> Negated(param.body.neg, GroupSum[param.body.groups] *
                            10000 ^ (param.body.weight - (IF param.body.groups = <<>> THEN 0 ELSE Len(param.body.groups) - 1))),
        scale |-> 0]
  ELSE [value |-> Negated(param.body.neg, NumberOf[param.body.int \o param.body.frac]),
        scale |-> Len(param.body.frac)]
ServerBinds(t, param) ==
  CASE t[1] = "bool" -> Put(1, FromBigEndian(param))
    [] t[1] = "smallint" -> Put(2, FromBigEndian(param))
    [] t[1] \in {"int", "real"} -> Put(4, FromBigEndian(param))
    [] t[1] \in {"bigint", "double", "time"} -> Put(8, FromBigEndian(param))
    [] t[1] \in {"text", "varchar", "char", "bytea"} -> param
    [] t[1] = "date" -> Put(4, FromBigEndian(param) + JulianDayEpoch)
    [] t[1] \in {"timestamp", "timestamptz"} -> Put(8, FromBigEndian(param) + EpochOffset)
    [] t[1] = "interval" ->
         [len |-> 16, bits |-> <<param[1].word, param[2].word, param[3].word>>]
    [] t[1] = "numeric" ->
         LET n == BoundNumber(param)
         IN Put(IF t[2] <= SmallNumericMaxPrecision THEN 8 ELSE 16, n.value * Power(t[3] - n.scale))

-----------------------------------------------------------------------------
(* Reading over TCP: StreamRow (and BatchRow), by the exact length.         *)
StreamInt(cell, len) == IF cell # None /\ cell[1].len = len THEN Some(SignedOf(cell[1])) ELSE None
StreamFloat(cell, len) == IF cell # None /\ cell[1].len = len THEN Some(SignedOf(cell[1])) ELSE None
StreamBool(cell) ==
  IF cell # None /\ cell[1].len = 1 /\ cell[1].bits \in {0, 1} THEN Some(cell[1].bits = 1) ELSE None
StreamString(cell) == cell
StreamBytes(cell) == cell
DateFromBinary(word) == IF word.len # 4 THEN None ELSE TryDecodeDate(SignedOf(word))
TimeFromBinary(word) == IF word.len # 8 THEN None ELSE TryTime(word.bits)
TimestampFromBinary(word) == IF word.len # 8 THEN None ELSE Some(DecodeTimestamp(word))
OffsetTimestampFromBinary(word) ==
  LET ts == TimestampFromBinary(word) IN IF ts = None THEN None ELSE Some([ts |-> ts[1], offset |-> 0])
IntervalFromBinary(word) == IF word.len # 16 THEN None ELSE Some(DecodeInterval(word))
StreamGet(kind, cell) ==
  IF cell = None THEN None
  ELSE CASE kind = "Date" -> DateFromBinary(cell[1])
         [] kind = "Time" -> TimeFromBinary(cell[1])
         [] kind = "Timestamp" -> TimestampFromBinary(cell[1])
         [] kind = "OffsetTimestamp" -> OffsetTimestampFromBinary(cell[1])
         [] kind = "Interval" -> IntervalFromBinary(cell[1])

TcpGet(kind, cell, sqlType) ==
  CASE kind = "i16" -> StreamInt(cell, 2)
    [] kind = "i32" -> StreamInt(cell, 4)
    [] kind = "i64" -> StreamInt(cell, 8)
    [] kind = "f32" -> StreamFloat(cell, 4)
    [] kind = "f64" -> StreamFloat(cell, 8)
    [] kind = "bool" -> StreamBool(cell)
    [] kind = "String" -> StreamString(cell)
    [] kind = "bytes" -> StreamBytes(cell)
    [] kind = "Numeric" -> IF cell = None \/ sqlType[1] # "numeric" THEN None
                           ELSE FromBinaryWithScale(cell[1], sqlType[3])
    [] OTHER -> StreamGet(kind, cell)

(* Arrow: the server sends each type in an array of its own kind, dates and *)
(* timestamps since 1970.                                                   *)
DaysTo2000 == 10957
NanosPerMicro == 1000
ArrowArray(t, v) ==
  CASE t[1] = "bool" -> [array |-> "Boolean", value |-> v]
    [] t[1] = "smallint" -> [array |-> "Int16", value |-> v]
    [] t[1] = "int" -> [array |-> "Int32", value |-> v]
    [] t[1] = "bigint" -> [array |-> "Int64", value |-> v]
    [] t[1] = "real" -> [array |-> "Float32", value |-> v]
    [] t[1] = "double" -> [array |-> "Float64", value |-> v]
    [] t[1] \in {"text", "varchar", "char"} -> [array |-> "Utf8", value |-> v]
    [] t[1] = "bytea" -> [array |-> "Binary", value |-> v]
    [] t[1] = "date" -> [array |-> "Date32", value |-> v + DaysTo2000]
    [] t[1] = "time" -> [array |-> "Time64", value |-> v]
    [] t[1] = "timestamp" -> [array |-> "Timestamp", value |-> v + DaysTo2000 * UnitsPerDay]
    [] t[1] = "timestamptz" -> [array |-> "TimestampTz", value |-> v.ts + DaysTo2000 * UnitsPerDay]
    [] t[1] = "interval" -> [array |-> "MonthDayNano",
                             value |-> [v EXCEPT !.micros = @ * NanosPerMicro]]
    [] t[1] = "numeric" -> [array |-> IF t[2] <= SmallNumericMaxPrecision THEN "Decimal128" ELSE "Decimal256",
                            value |-> v.value, scale |-> t[3]]

ArrowInt(a, len) ==
  IF a.array \in {"Int16", "Int32", "Int64"} /\ Fits(a.value, len) THEN Some(a.value)
  ELSE IF len = 8 /\ a.array \in {"Date32", "Timestamp", "TimestampTz"} THEN Some(a.value)
  ELSE None
ArrowFloat(a) == IF a.array \in {"Float32", "Float64"} THEN Some(a.value) ELSE None
ArrowOf(a, arrays) == IF a.array \in arrays THEN Some(a.value) ELSE None
ArrowDate(a) == IF a.array = "Date32" THEN Some(a.value - DaysTo2000) ELSE None
ArrowTimestamp(a) ==
  IF a.array \in {"Timestamp", "TimestampTz"} THEN Some(a.value - DaysTo2000 * UnitsPerDay) ELSE None
ArrowInterval(a) ==
  IF a.array = "MonthDayNano" THEN Some([a.value EXCEPT !.micros = @ \div NanosPerMicro]) ELSE None
ArrowNumeric(a) ==
  IF a.array \in {"Decimal128", "Decimal256"} /\ a.scale >= 0 /\ Fits(a.value, 16)
  THEN Some([value |-> a.value, scale |-> a.scale]) ELSE None

ArrowGet(kind, cell) ==
  IF cell = None THEN None
  ELSE LET a == cell[1]
       IN CASE kind = "i16" -> ArrowInt(a, 2)
            [] kind = "i32" -> ArrowInt(a, 4)
            [] kind = "i64" -> ArrowInt(a, 8)
            [] kind \in {"f32", "f64"} -> ArrowFloat(a)
            [] kind = "bool" -> ArrowOf(a, {"Boolean"})
            [] kind = "String" -> ArrowOf(a, {"Utf8", "LargeUtf8"})
            [] kind = "bytes" -> ArrowOf(a, {"Binary", "LargeBinary"})
            [] kind = "Date" -> ArrowDate(a)
            [] kind = "Time" -> ArrowOf(a, {"Time64"})
            [] kind = "Timestamp" -> ArrowTimestamp(a)
            [] kind = "OffsetTimestamp" ->
                 LET ts == ArrowTimestamp(a)
                 IN IF ts = None THEN None ELSE Some([ts |-> ts[1], offset |-> 0])
            [] kind = "Interval" -> ArrowInterval(a)
            [] kind = "Numeric" -> ArrowNumeric(a)

-----------------------------------------------------------------------------
(* Row and RowValue: the widening chains of i32, i64 and f64.               *)
RawGet(kind) ==
  IF trip.transport = "tcp" THEN TcpGet(kind, trip.cell, trip.schema) ELSE ArrowGet(kind, trip.cell)
RowGet(kind) ==
  CASE kind = "i32" -> OrElse(RawGet("i32"), RawGet("i16"))
    [] kind = "i64" -> OrElse(RawGet("i64"), OrElse(RawGet("i32"), RawGet("i16")))
    [] kind = "f64" -> OrElse(RawGet("f64"), RawGet("f32"))
    [] OTHER -> RawGet(kind)
CellIsNull == trip.cell = None

(* RowAccessor: the four accessors over a row of one column named "c".      *)
ColumnIndex(name) == IF name = "c" THEN Some(0) ELSE None
\* Mutant: what cannot be read is reported as NULL.
AccessorNullWhenUnread(kind, name) ==
  IF ColumnIndex(name) = None THEN <<"missing">>
  ELSE IF RowGet(kind) # None THEN <<"ok", RowGet(kind)>> ELSE <<"null">>
AccessorGet(kind, name) ==
  IF ColumnIndex(name) = None THEN <<"missing">>
  ELSE IF RowGet(kind) # None THEN <<"ok", RowGet(kind)>>
  ELSE IF CellIsNull THEN <<"null">> ELSE <<"mismatch">>
AccessorGetOpt(kind, name) ==
  IF ColumnIndex(name) = None THEN <<"missing">>
  ELSE IF CellIsNull THEN <<"ok", None>>
  ELSE IF RowGet(kind) # None THEN <<"ok", RowGet(kind)>> ELSE <<"mismatch">>
AccessorPosition(kind, idx) ==
  IF idx >= 1 THEN <<"out_of_bounds">>
  ELSE IF RowGet(kind) # None THEN <<"ok", RowGet(kind)>>
  ELSE IF CellIsNull THEN <<"null">> ELSE <<"mismatch">>
AccessorPositionOpt(kind, idx) ==
  IF idx >= 1 THEN <<"out_of_bounds">>
  ELSE IF CellIsNull THEN <<"ok", None>>
  ELSE IF RowGet(kind) # None THEN <<"ok", RowGet(kind)>> ELSE <<"mismatch">>
TryGet(kind, idx) ==
  IF idx >= 1 THEN <<"out_of_bounds">>
  ELSE IF RowGet(kind) # None THEN <<"ok", RowGet(kind)>> ELSE <<"null_or_mismatch">>

-----------------------------------------------------------------------------
(* The values tried: both ends of every width, dates around leap days,      *)
(* centuries and the epochs, numerics that do and do not fit the column.    *)
SampleDates ==
  {YmdToDays(y, m, d) : y \in {1, 4, 100, 1582, 1899, 1900, 1970, 1999, 2000, 2001, 2100, 2400, 9999},
                        m \in {1, 2, 3, 12}, d \in {1, 28}}
  \cup {YmdToDays(2000, 2, 29), YmdToDays(1904, 2, 29), YmdToDays(9999, 12, 31)}
Ends(len) == {-MaxInt(len) - 1, -1, 0, 1, MaxInt(len)}
SampleNumerics == {[value |-> n, scale |-> s] : n \in {-1205, -5, 0, 5, 120, 99999, MaxInt(8)}, s \in 0..3}
SampleTypes ==
  {<<p>> : p \in Plain \ {"json", "oid", "geography"}}
  \cup {<<"numeric", p, s>> : p \in {3, 18, 19, 38}, s \in 0..3}
  \cup {<<"varchar", -1>>, <<"varchar", 8>>, <<"char", 1>>, <<"char", 5>>}
SampleValues(t) ==
  CASE t[1] = "bool" -> BOOLEAN
    [] t[1] = "smallint" -> Ends(2)
    [] t[1] \in {"int", "real"} -> Ends(4)
    [] t[1] \in {"bigint", "double"} -> Ends(8)
    [] t[1] \in {"text", "varchar", "char", "bytea"} -> {[len |-> n, bits |-> 1] : n \in {0, 1, 4, 8}}
    [] t[1] = "date" -> SampleDates
    [] t[1] = "time" -> 0..MaxTime
    [] t[1] = "timestamp" -> {TimestampOf(d, u) : d \in {-730119, -1, 0, 2921939}, u \in {0, MaxTime}}
    [] t[1] = "timestamptz" -> {[ts |-> TimestampOf(d, 3), offset |-> o] : d \in {-1, 0}, o \in {-30, 0, 60}}
    [] t[1] = "interval" -> {[micros |-> u, days |-> d, months |-> m] : u \in {-3, 0, 7}, d \in {-1, 2}, m \in {-13, 5}}
    [] t[1] = "numeric" -> SampleNumerics
Kinds == {"i16", "i32", "i64", "f32", "f64", "bool", "String", "bytes", "Date", "Time", "Timestamp",
          "OffsetTimestamp", "Interval", "Numeric"}

(* The column has an unscaled integer equal to the value.                   *)
Representable(v, precision, scale) ==
  LET width == IF precision <= SmallNumericMaxPrecision THEN 8 ELSE 16
      magnitude == IF v.value < 0 THEN -v.value ELSE v.value
  IN IF v.scale > scale THEN v.value % Power(v.scale - scale) = 0
     ELSE magnitude <= MaxInt(width) \div Power(scale - v.scale)

ValuesInit == trip = [at |-> "rust"]
Write(t, nullable, value) ==
  /\ trip.at = "rust"
  /\ LET stream == AddToInserter(t, nullable, value)
     IN trip' = [at |-> IF stream = None THEN "refused" ELSE "stream", type |-> t, nullable |-> nullable,
                 value |-> value, stream |-> stream]
Store ==
  /\ trip.at = "stream"
  /\ trip' = [at |-> "server", type |-> trip.type, value |-> trip.value,
              stored |-> ServerStores(trip.type, trip.nullable, trip.stream[1]),
              nullable |-> trip.nullable]
Bind(t, value) ==
  /\ trip.at = "rust"
  /\ t[1] = "numeric" /\ value # None =>
       value[1].scale <= t[3] /\ Representable(value[1], t[2], t[3])
  /\ trip' = [at |-> "server", type |-> t, value |-> value, nullable |-> TRUE,
              stored |-> IF value = None THEN None ELSE Some(ServerBinds(t, EncodeParam(t, value[1])))]
(* The stored word as the Rust-side value the server would put in Arrow.    *)
StoredValue(t, word) ==
  CASE t[1] = "bool" -> word.bits = 1
    [] t[1] = "date" -> SignedOf(word) - JulianDayEpoch
    [] t[1] = "timestamp" -> DecodeTimestamp(word)
    [] t[1] = "timestamptz" -> [ts |-> DecodeTimestamp(word)]
    [] t[1] = "interval" -> DecodeInterval(word)
    [] t[1] = "numeric" -> [value |-> SignedOf(word)]
    [] t[1] \in {"text", "varchar", "char", "bytea"} -> word
    [] OTHER -> SignedOf(word)
Fetch(transport) ==
  /\ trip.at = "server"
  /\ trip' = [at |-> "row", type |-> trip.type, value |-> trip.value, transport |-> transport,
              schema |-> IF transport = "tcp"
                         THEN FromOidAndModifier(InternalOid(trip.type), TypeModifier(trip.type))
                         ELSE IF trip.type[1] = "numeric"
                              THEN TryNumeric(trip.type[2], trip.type[3])[1]
                              ELSE IF trip.type[1] \in {"varchar", "char"} THEN <<"text">> ELSE trip.type,
              cell |-> IF trip.stored = None THEN None
                       ELSE IF transport = "tcp" THEN trip.stored
                       ELSE Some(ArrowArray(trip.type, StoredValue(trip.type, trip.stored[1])))]
ValuesNext ==
  \/ \E t \in SampleTypes, nullable \in BOOLEAN :
       \E value \in {None} \cup {Some(v) : v \in SampleValues(t)} : Write(t, nullable, value)
  \/ Store
  \/ \E t \in SampleTypes : \E value \in {None} \cup {Some(v) : v \in SampleValues(t)} : Bind(t, value)
  \/ \E transport \in {"tcp", "arrow"} : Fetch(transport)
ValuesSpec == ValuesInit /\ [][ValuesNext]_trip

-----------------------------------------------------------------------------
(* The Rust types a column of this type is documented to be read as.        *)
NaturalKinds(t) ==
  CASE t[1] = "smallint" -> {"i16", "i32", "i64"}
    [] t[1] = "int" -> {"i32", "i64"}
    [] t[1] = "bigint" -> {"i64"}
    [] t[1] = "real" -> {"f32", "f64"}
    [] t[1] = "double" -> {"f64"}
    [] t[1] = "bool" -> {"bool"}
    [] t[1] \in {"text", "varchar", "char"} -> {"String"}
    [] t[1] = "bytea" -> {"bytes"}
    [] t[1] = "date" -> {"Date"}
    [] t[1] = "time" -> {"Time"}
    [] t[1] = "timestamp" -> {"Timestamp"}
    [] t[1] = "timestamptz" -> {"OffsetTimestamp"}
    [] t[1] = "interval" -> {"Interval"}
    [] t[1] = "numeric" -> {"Numeric"}
SameNumber(a, b) ==
  \/ a.scale >= b.scale /\ a.value % Power(a.scale - b.scale) = 0
                        /\ a.value \div Power(a.scale - b.scale) = b.value
  \/ b.scale >= a.scale /\ b.value % Power(b.scale - a.scale) = 0
                        /\ b.value \div Power(b.scale - a.scale) = a.value
SameValue(t, got, v) ==
  CASE t[1] = "timestamptz" -> got = [ts |-> v.ts, offset |-> 0]
    [] t[1] = "numeric" -> SameNumber(got, v)
    [] OTHER -> got = v

(* What the inserter accepts, or a parameter carries, is what every         *)
(* transport gives back: the value that add_* wrote (to_julian_day,         *)
(* rescale_numeric) or encode_param sent (PostgreSQL's formats) is the      *)
(* value Row::get reads over TCP and from Arrow, in the column's own    *)
(* Rust type and in every wider one; a NULL is read as nothing.             *)
StoredValueIsRead ==
  trip.at = "row" =>
    \A kind \in NaturalKinds(trip.type) :
      IF trip.value = None THEN RowGet(kind) = None
      ELSE RowGet(kind) # None /\ SameValue(trip.type, RowGet(kind)[1], trip.value[1])

(* add_numeric refuses a value exactly when no unscaled integer of the      *)
(* column's width and scale equals it, and add_null exactly when the column *)
(* is not nullable: nothing is rounded or cut off silently.                 *)
RefusalIsExact ==
  trip.at \in {"refused", "stream"} =>
    ((trip.at = "stream") =
     IF trip.value = None THEN trip.nullable
     ELSE trip.type[1] = "numeric" => Representable(trip.value[1], trip.type[2], trip.type[3]))

(* RowAccessor tells the three failures apart: "missing" for a name that is *)
(* not a column, "null" only for a NULL, and a value it cannot read is a    *)
(* type mismatch; get and get_opt, by name and by position, agree. (A       *)
(* 16-byte NUMERIC read as an Interval is a reinterpretation of its bytes,  *)
(* which the scaled widths do not express: it is left out.)                 *)
AccessorsAgree ==
  trip.at = "row" =>
    \A kind \in IF trip.type[1] = "interval" THEN Kinds ELSE Kinds \ {"Interval"} :
      /\ AccessorGet(kind, "d") = <<"missing">> /\ AccessorGetOpt(kind, "d") = <<"missing">>
      /\ AccessorPosition(kind, 1) = <<"out_of_bounds">>
      /\ (AccessorGet(kind, "c") = <<"null">>) = (trip.value = None)
      /\ AccessorPosition(kind, 0) = AccessorGet(kind, "c")
      /\ AccessorPositionOpt(kind, 0) = AccessorGetOpt(kind, "c")
      /\ IF trip.value = None THEN AccessorGetOpt(kind, "c") = <<"ok", None>>
         ELSE AccessorGetOpt(kind, "c") = AccessorGet(kind, "c")
      /\ (TryGet(kind, 0)[1] = "ok") = (AccessorGet(kind, "c")[1] = "ok")

(* The reference calendar: days counted month by month and year by year.    *)
Leap(y) == y % 4 = 0 /\ (y % 100 # 0 \/ y % 400 = 0)
MonthLength(y, m) ==
  IF m = 2 THEN IF Leap(y) THEN 29 ELSE 28 ELSE IF m \in {4, 6, 9, 11} THEN 30 ELSE 31
DaysBeforeMonth[y \in Nat, m \in 1..12] ==
  IF m = 1 THEN 0 ELSE DaysBeforeMonth[y, m - 1] + MonthLength(y, m - 1)
DaysBeforeYear(y) ==
  365 * (y - 1) + Cardinality({n \in 1..(y - 1) : Leap(n)})

(* The calendar and the decimal text, against their definitions: a date is  *)
(* the number of days counted year by year from 1 January of year 1, its    *)
(* parts are the ones it was made from, so are those of a time and of a     *)
(* timestamp before 2000 too, and the digits of a Numeric denote its value, *)
(* sign included.                                                           *)
TextsAreExact ==
  trip.at = "server" /\ trip.value # None =>
    /\ trip.type[1] = "date" =>
         LET ymd == DaysToYmd(trip.value[1])
         IN trip.value[1] = DaysBeforeYear(ymd[1]) + DaysBeforeMonth[ymd[1], ymd[2]] + ymd[3] - 1
                            - DaysBeforeYear(2000)
    /\ trip.type[1] = "numeric" =>
         LET text == DisplayNumeric(trip.value[1])
             magnitude == NumberOf[text.int \o text.frac]
         IN /\ Len(text.frac) = trip.value[1].scale
            /\ trip.value[1].value = IF text.neg THEN -magnitude ELSE magnitude
    /\ trip.type[1] = "time" =>
         LET hms == ToHms(trip.value[1]) IN TimeOfParts(hms[1], hms[2], hms[3], hms[4]) = trip.value[1]
    /\ trip.type[1] = "timestamp" =>
         LET parts == ToDateTime(trip.value[1])
         IN TryTime(parts[2]) # None /\ TimestampOf(parts[1], parts[2]) = trip.value[1]

(* The schema that Rowset builds from the OIDs and modifiers of a           *)
(* RowDescription names the type the column was declared with, its          *)
(* precision, scale and length included.                                    *)
SchemaIsDeclared ==
  trip.at = "row" /\ trip.transport = "tcp" => trip.schema = trip.type

\* A value is read back as it was written, over every transport and accessor, or
\* refused where it cannot be.
ValuesAreExact ==
    StoredValueIsRead /\ RefusalIsExact /\ AccessorsAgree /\ TextsAreExact /\ SchemaIsDeclared
=============================================================================
