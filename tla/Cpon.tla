-------------------------------- MODULE Cpon --------------------------------
(***************************************************************************)
(* The items of the text format: libshvchainpack/c/ccpon.c.  Values are    *)
(* those of module ChainPack.                                              *)
(*                                                                         *)
(* IntMax stands for INT64_MAX.  DoubleDigits gives of a double, known by  *)
(* its 8 bytes, what printing it works with: [neg, digits, exp], its first *)
(* seven significant digits as a number (0 or 1000000..9999999) and the    *)
(* power of ten of the first one.                                          *)
(***************************************************************************)
EXTENDS ChainPack
CONSTANTS IntMax, DoubleDigits

ASSUME IntMaxAssumption == IntMax \in Nat /\ IntMax > 9

(***************************************************************************)
(* Numbers and times as text.                                              *)
(***************************************************************************)
QUOTE == 34
SLASH == 92

hexify(b) == IF b <= 9 THEN b + 48 ELSE b - 10 + 97
unhex(b) == CASE b \in 48..57  -> b - 48
              [] b \in 97..102 -> b - 97 + 10
              [] b \in 65..70  -> b - 65 + 10
              [] OTHER         -> -1

\* n with pad characters on the left, in a buffer that held old: where more
\* than half of the width is missing, the middle is not written.
uint_to_str_lpad(n, width, old) ==
  LET s == Digits(n)
      missing == width - Len(s)
  IN IF missing <= 0 THEN s
     ELSE [i \in 1..width |-> IF i > missing THEN s[i - missing]
                              ELSE IF i <= Len(s) THEN 48 ELSE old[i]]
Lpad2(n) == uint_to_str_lpad(n, 2, <<48, 48>>)

RECURSIVE NoTrailingZeros(_)
NoTrailingZeros(s) ==
  IF s # <<>> /\ Last(s) = 48 THEN NoTrailingZeros(Front(s)) ELSE s
uint_dot_uint_to_str(n1, n2) ==
  Append(Digits(n1), 46) \o (IF n2 > 0 THEN NoTrailingZeros(Digits(n2)) ELSE <<>>)

NoTrailingDot(s) == IF Last(s) = 46 THEN Front(s) ELSE s
double_to_str(f) ==
  LET p == 10^(6 - f.exp)
  IN (IF f.neg /\ f.digits # 0 THEN <<45>> ELSE <<>>) \o
     (IF f.digits = 0 THEN <<48, 46>>
      ELSE IF f.exp = -1 THEN uint_dot_uint_to_str(0, f.digits \div 10)
      ELSE IF f.exp \in 0..6 THEN uint_dot_uint_to_str(f.digits \div p, f.digits % p)
      ELSE NoTrailingDot(uint_dot_uint_to_str(f.digits \div 1000000, f.digits % 1000000))
             \o <<101>> \o int_to_str(f.exp))

is_leap(y) == y % 4 = 0 /\ (y % 100 # 0 \/ y % 400 = 0)
days_from_0(year) ==
  365 * (year - 1) + ((year - 1) \div 400) - ((year - 1) \div 100) + ((year - 1) \div 4)
DaysBefore == <<0, 31, 59, 90, 120, 151, 181, 212, 243, 273, 304, 334>>
days_from_1jan(year, month, mday) ==
  DaysBefore[month + 1] + (IF is_leap(year) /\ month > 1 THEN 1 ELSE 0) + mday - 1
ccpon_timegm(tm) ==
  60 * (60 * (24 * (days_from_0(tm.year) - days_from_0(1970)
                      + days_from_1jan(tm.year, tm.mon, tm.mday)) + tm.hour) + tm.min) + tm.sec

civil_from_days(z) ==
  LET d0 == z + 719468
      era == d0 \div 146097
      doe == d0 % 146097
      yoe == (doe - (doe \div 1460) + (doe \div 36524) - (doe \div 146096)) \div 365
      doy == doe - (365 * yoe + (yoe \div 4) - (yoe \div 100))
      mp == (5 * doy + 2) \div 153
      m == IF mp < 10 THEN mp + 3 ELSE mp - 9
  IN [year |-> yoe + 400 * era + (IF m <= 2 THEN 1 ELSE 0), mon |-> m - 1,
      mday |-> doy - ((153 * mp + 2) \div 5) + 1]
ccpon_gmtime(sec) ==
  LET hms == sec % 86400
  IN civil_from_days(sec \div 86400)
       @@ [hour |-> hms \div 3600, min |-> (hms % 3600) \div 60, sec |-> hms % 60]

\* A time is seconds rounded down and 0..999 milliseconds; C divides towards
\* zero and then finds no milliseconds above 0 before 1970.
WholeSeconds(d) == IF d[1] < 0 /\ d[2] > 0 THEN d[1] + 1 ELSE d[1]
PrintedMs(d) == IF d[1] < 0 THEN 0 ELSE d[2]
DateText(tm) ==
  uint_to_str_lpad(tm.year, 2, <<48, 48>>) \o <<45>> \o Lpad2(tm.mon + 1) \o <<45>> \o
  Lpad2(tm.mday) \o <<84>> \o Lpad2(tm.hour) \o <<58>> \o Lpad2(tm.min) \o <<58>> \o Lpad2(tm.sec)
MsecText(ms, text) == IF ms > 0 THEN <<46>> \o uint_to_str_lpad(ms, 3, text) ELSE <<>>
ZoneText(min) ==
  IF min = 0 THEN <<90>>
  ELSE <<IF min < 0 THEN 45 ELSE 43>> \o Lpad2(Abs(min) \div 60)
         \o (IF Abs(min) % 60 # 0 THEN Lpad2(Abs(min) % 60) ELSE <<>>)
ccpon_pack_date_time_str(c, d) ==
  LET text == DateText(ccpon_gmtime(WholeSeconds(d) + 60 * d[3]))
  IN ccpcp_pack_copy_bytes(ccpcp_pack_copy_bytes(ccpcp_pack_copy_bytes(c, text),
       MsecText(PrintedMs(d), text)), ZoneText(d[3]))

(***************************************************************************)
(* Packing.                                                                *)
(***************************************************************************)
NullText == <<110, 117, 108, 108>>
TrueText == <<116, 114, 117, 101>>
FalseText == <<102, 97, 108, 115, 101>>

Copy(c, text) == IF c.err # "OK" THEN c ELSE ccpcp_pack_copy_bytes(c, text)
CopyByte(c, b) == ccpcp_pack_copy_byte(c, b)

ccpon_pack_uint(c, n) == IF c.err # "OK" THEN c ELSE CopyByte(Copy(c, Digits(n)), 117)
ccpon_pack_int(c, n) == Copy(c, int_to_str(n))
ccpon_pack_decimal(c, mantissa, exponent) ==
  ccpcp_pack_copy_bytes(c, ccpcp_decimal_to_string(mantissa, exponent))
ccpon_pack_double(c, bytes) == Copy(c, double_to_str(DoubleDigits[bytes]))
ccpon_pack_date_time(c, d) ==
  ccpcp_pack_copy_bytes(
    ccpon_pack_date_time_str(ccpcp_pack_copy_bytes(c, <<100, QUOTE>>), d), <<QUOTE>>)

\* With indentation every element of a longer container has its own line.
RECURSIVE Tabs(_, _)
Tabs(c, n) == IF n <= 0 THEN c ELSE Tabs(ccpcp_pack_copy_bytes(c, <<9>>), n - 1)
indent_element(c, oneliner, first) ==
  IF ~c.indent THEN c
  ELSE IF oneliner THEN (IF first THEN c ELSE CopyByte(c, 32))
  ELSE Tabs(ccpcp_pack_copy_bytes(c, <<10>>), c.nest_count)
start_block(c) == [c EXCEPT !.nest_count = @ + 1]
end_block(c, oneliner) == indent_element([c EXCEPT !.nest_count = @ - 1], oneliner, TRUE)

OpenText(type) == CASE type = "LIST" -> <<91>> [] type = "MAP" -> <<123>>
                    [] type = "IMAP" -> <<105, 123>> [] type = "META" -> <<60>>
CloseByte(type) == CASE type = "LIST" -> 93 [] type \in {"MAP", "IMAP"} -> 125 [] type = "META" -> 62
\* A block is entered only when its bracket was written.
Opened(c) == IF c.err = "OK" THEN start_block(c) ELSE c
ccpon_pack_begin(c, type) ==
  IF c.err # "OK" THEN c ELSE Opened(ccpcp_pack_copy_bytes(c, OpenText(type)))
ccpon_pack_end(c, type, oneliner) ==
  IF c.err # "OK" THEN c ELSE CopyByte(end_block(c, oneliner), CloseByte(type))

Escapes == (0 :> 48) @@ (92 :> 92) @@ (9 :> 116) @@ (8 :> 98) @@ (13 :> 114) @@ (10 :> 110)
             @@ (34 :> 34)
\* The slip of leaving the quotes of a string as they are.
QuotesUnescaped(c, bytes) ==
  FoldLeft(LAMBDA k, b : IF k.err # "OK" THEN k
                         ELSE IF b \in DOMAIN Escapes \ {QUOTE}
                              THEN CopyByte(CopyByte(k, SLASH), Escapes[b])
                              ELSE CopyByte(k, b), c, bytes)
copy_data_escaped(c, bytes) ==
  FoldLeft(LAMBDA k, b : IF k.err # "OK" THEN k
                         ELSE IF b \in DOMAIN Escapes
                              THEN CopyByte(CopyByte(k, SLASH), Escapes[b])
                              ELSE CopyByte(k, b), c, bytes)
copy_blob_escaped(c, bytes) ==
  FoldLeft(LAMBDA k, b : IF k.err # "OK" THEN k
                         ELSE IF b \in DOMAIN Escapes \ {0, 8}
                              THEN CopyByte(CopyByte(k, SLASH), Escapes[b])
                         ELSE IF b < 32 \/ b >= 127
                              THEN CopyByte(CopyByte(CopyByte(k, SLASH), hexify(b \div 16)),
                                            hexify(b % 16))
                              ELSE CopyByte(k, b), c, bytes)

ccpon_pack_blob_start(c, bytes) ==
  copy_blob_escaped(CopyByte(CopyByte(c, 98), QUOTE), bytes)
ccpon_pack_string_start(c, bytes) == copy_data_escaped(CopyByte(c, QUOTE), bytes)
ccpon_pack_blob(c, bytes) == CopyByte(ccpon_pack_blob_start(c, bytes), QUOTE)
ccpon_pack_string(c, bytes) == CopyByte(ccpon_pack_string_start(c, bytes), QUOTE)

ccpon_pack_field_delim(c, first, oneliner) ==
  indent_element(IF first THEN c ELSE ccpcp_pack_copy_bytes(c, <<44>>), oneliner, first)
ccpon_pack_key_val_delim(c) == ccpcp_pack_copy_bytes(c, <<58>>)

(***************************************************************************)
(* Unpacking.                                                              *)
(***************************************************************************)
Unget(c) == [c EXCEPT !.pos = @ - 1]
Take(c) == ccpcp_unpack_take_byte(c)

\* p is the first byte that is not a blank, a delimiter, a comment or a byte
\* above 127.  An end of input behind the star of a comment is dereferenced;
\* a slash that begins no comment ends the search without an error.
RECURSIVE ccpon_unpack_skip_insignificant(_), LineComment(_), BlockComment(_)
LineComment(c) ==
  IF c.p = -1 THEN c
  ELSE IF c.p = 10 THEN ccpon_unpack_skip_insignificant(c)
  ELSE LineComment(Take(c))
BlockComment(c) ==
  IF c.p = -1 THEN c
  ELSE IF c.p # 42 THEN BlockComment(Take(c))
  ELSE LET k == Take(c)
       IN IF k.p = -1 THEN Fail(k, "CRASH")
          ELSE IF k.p = 47 THEN ccpon_unpack_skip_insignificant(k)
          ELSE BlockComment(Take(k))
Comment(c) ==
  CASE c.p = -1 -> [c EXCEPT !.err = "MALFORMED"]
    [] c.p = 42 -> BlockComment(Take(c))
    [] c.p = 47 -> LineComment(Take(c))
    [] OTHER    -> [c EXCEPT !.p = -1]
Significant(c) ==
  IF c.p = -1 THEN c
  ELSE IF c.p <= 32 \/ c.p >= 128 \/ c.p \in {44, 58} THEN ccpon_unpack_skip_insignificant(c)
  ELSE IF c.p = 47 THEN Comment(Take(c))
  ELSE c
ccpon_unpack_skip_insignificant(c) == Significant(Take(c))

\* unpack_int_to_result(): a sign only at the start, a base after a leading
\* zero; a digit that would overflow is left out.
WithDigit(r, digit) ==
  IF r.value > IntMax \div r.base \/ r.value * r.base > IntMax - digit
  THEN [r EXCEPT !.is_overflow = TRUE]
  ELSE [r EXCEPT !.value = @ * r.base + digit, !.digit_cnt = @ + 1]
RECURSIVE IntLoop(_, _)
IntByte(c, r) ==
  LET b == c.p
      next == [r EXCEPT !.n = @ + 1]
      over == [c |-> Unget(c), r |-> r]
  IN CASE b = -1 -> [c |-> c, r |-> r]
       [] b \in {43, 45} ->
            IF r.n # 0 THEN over
            ELSE IntLoop(c, [next EXCEPT !.signed = 1, !.signum = IF b = 45 THEN -1 ELSE 1])
       [] b = 120 -> IF r.n = 1 + r.signed /\ r.value = 0
                     THEN IntLoop(c, [next EXCEPT !.base = 16, !.digit_cnt = 0]) ELSE over
       [] b \in 48..57 -> IntLoop(c, WithDigit(next, b - 48))
       [] b \in (97..102) \cup (65..70) ->
            IF r.base # 16 THEN over ELSE IntLoop(c, WithDigit(next, unhex(b)))
       [] OTHER -> over
IntLoop(c, r) == IntByte(Take(c), r)
unpack_int_to_result(c, init_value) ==
  IntLoop(c, [value |-> init_value, digit_cnt |-> 0, signum |-> 1, is_overflow |-> FALSE,
              n |-> 0, base |-> 10, signed |-> 0])

\* ccpon_unpack_date_time(): five numbers, each with the bytes that may
\* follow it; the two colons are not looked at.
DateParts == <<[f |-> "year", sep |-> {45}], [f |-> "mon", sep |-> {45}],
               [f |-> "mday", sep |-> {84, 32}], [f |-> "hour", sep |-> 0..255],
               [f |-> "min", sep |-> 0..255], [f |-> "sec", sep |-> {}]>>
RECURSIVE DatePart(_, _, _)
AfterPart(x, tm, i) ==
  IF x.r.n = 0 THEN [c |-> [x.c EXCEPT !.err = "MALFORMED"], tm |-> tm]
  ELSE LET t == [tm EXCEPT ![DateParts[i].f] =
                    x.r.value * x.r.signum - (IF DateParts[i].f = "mon" THEN 1 ELSE 0)]
           k == Take(x.c)
       IN IF i = 6 THEN [c |-> x.c, tm |-> t]
          ELSE IF k.p = -1 THEN [c |-> k, tm |-> t]
          ELSE IF k.p \notin DateParts[i].sep THEN [c |-> [k EXCEPT !.err = "MALFORMED"], tm |-> t]
          ELSE DatePart(k, t, i + 1)
DatePart(c, tm, i) == AfterPart(unpack_int_to_result(c, 0), tm, i)

\* The time zone and the end; ms is what stood behind the seconds.
DateDone(c, tm, ms, offset) ==
  [Item(c, "DATE_TIME", <<ccpon_timegm(tm) - 60 * offset, ms, offset>>) EXCEPT !.err = "OK"]
ZoneOffset(val, n, sign) ==
  sign * (IF n = 2 THEN 60 * val ELSE 60 * (val \div 100) + (val % 100))
DateZone(c, tm, ms) ==
  IF c.p = -1 \/ c.p = 90 THEN DateDone(c, tm, ms, 0)
  ELSE IF c.p \in {43, 45}
       THEN LET x == unpack_int_to_result(c, 0)
            IN IF x.r.n \in {2, 4}
               THEN DateDone(x.c, tm, ms, ZoneOffset(x.r.value, x.r.n, IF c.p = 45 THEN -1 ELSE 1))
               ELSE Fail(x.c, "MALFORMED")
       ELSE DateDone(Unget(c), tm, ms, 0)
DateMsec(c, tm) ==
  IF c.p # 46 THEN DateZone(c, tm, 0)
  ELSE LET x == unpack_int_to_result(c, 0)
       IN IF x.r.n = 0 THEN x.c ELSE DateZone(Take(x.c), tm, x.r.value)
AfterDate(y) == IF y.c.err # "OK" THEN y.c ELSE DateMsec(Take(y.c), y.tm)
ccpon_unpack_date_time(c) ==
  AfterDate(DatePart(c, [year |-> 1900, mon |-> 0, mday |-> 1, hour |-> 0, min |-> 0, sec |-> 0], 1))

\* One byte of a string or a blob, as Piece(c, b); c.p = -1 ends the loop.
Piece(c, b) == [c EXCEPT !.item.chunk = Append(@, b)]
StringEscapes == (98 :> 8) @@ (102 :> 12) @@ (110 :> 10) @@ (114 :> 13) @@ (116 :> 9) @@ (48 :> 0)
BlobEscapes == (116 :> 9) @@ (114 :> 13) @@ (110 :> 10) @@ (34 :> 34) @@ (92 :> 92)
Unescaped(c) ==
  IF c.p = -1 THEN c ELSE Piece(c, IF c.p \in DOMAIN StringEscapes THEN StringEscapes[c.p] ELSE c.p)
HexLow(c, hi) == IF c.p = -1 THEN c
                 ELSE IF unhex(c.p) < 0 THEN [Fail(c, "MALFORMED") EXCEPT !.p = -1]
                 ELSE Piece(c, 16 * hi + unhex(c.p))
HexPair(c) == IF c.p = -1 THEN c
              ELSE IF unhex(c.p) < 0 THEN [Fail(c, "MALFORMED") EXCEPT !.p = -1]
              ELSE HexLow(Take(c), unhex(c.p))
BlobUnescaped(c) ==
  IF c.p = -1 THEN c
  ELSE IF c.p \in DOMAIN BlobEscapes THEN Piece(c, BlobEscapes[c.p])
  ELSE HexPair(c)
RECURSIVE NoBlank(_)
NoBlank(c) == IF c.p = -1 \/ (c.p > 32 /\ c.p < 128) THEN c ELSE NoBlank(Take(c))
\* The byte taken last, decoded.
Decoded(c) ==
  IF c.item.type = "BLOB" /\ c.item.blob_hex THEN HexPair(c)
  ELSE IF c.p = SLASH
       THEN IF c.item.type = "BLOB" THEN BlobUnescaped(Take(c)) ELSE Unescaped(Take(c))
  ELSE IF c.item.type = "BLOB" /\ c.p >= 128 THEN [Fail(c, "MALFORMED") EXCEPT !.p = -1]
  ELSE Piece(c, c.p)
RECURSIVE ChunkLoop(_)
ChunkByte(c) ==
  IF c.p = -1 THEN c
  ELSE IF c.p = QUOTE THEN [c EXCEPT !.item.last_chunk = TRUE, !.item.chunk_cnt = @ + 1]
  ELSE ChunkLoop(Decoded(c))
ChunkLoop(c) ==
  IF c.p = -1 THEN c
  ELSE IF Len(c.item.chunk) >= c.chunk_len THEN [c EXCEPT !.item.chunk_cnt = @ + 1]
  ELSE ChunkByte(IF c.item.blob_hex THEN NoBlank(Take(c)) ELSE Take(c))

\* The next chunk of a string or a blob, the first after the opening quote.
ccpon_unpack_chunk(c) == ChunkLoop([c EXCEPT !.item.chunk = <<>>, !.p = 0])
StartText(c, type, hex) ==
  ccpon_unpack_chunk([ccpcp_string_init(c, type) EXCEPT !.item.blob_hex = hex])
Quoted(c, type, hex) ==
  IF c.p = -1 THEN c ELSE IF c.p # QUOTE THEN Fail(c, "MALFORMED") ELSE StartText(c, type, hex)

RECURSIVE Literal(_, _, _, _)
Literal(c, rest, type, d) ==
  IF rest = <<>> THEN Item(c, type, d)
  ELSE LET k == Take(c)
       IN IF k.p = -1 THEN k
          ELSE IF k.p # Head(rest) THEN Fail(k, "MALFORMED")
          ELSE Literal(k, Tail(rest), type, d)
Bracket(c, b, type) ==
  IF c.p = -1 THEN c ELSE IF c.p # b THEN Fail(c, "MALFORMED") ELSE Item(c, type, <<>>)

\* Numbers: f collects mantissa, dec_cnt, exponent and the flags.
NumberItem(c, f) ==
  LET sat == IF f.neg THEN -IntMax - 1 ELSE IntMax
      signed == IF f.neg THEN -f.mantissa ELSE f.mantissa
      lost == f.overflow /\ f.dec_cnt = 0
      k == CASE f.kind = "decimal" ->
                  Item(c, "DECIMAL", <<IF lost THEN 0 ELSE f.exponent - f.dec_cnt>>
                                       \o Signed(IF lost THEN sat ELSE signed))
             [] f.kind = "uint" -> Item(c, "UINT", FromInt(IF f.overflow THEN IntMax ELSE f.mantissa))
             [] OTHER -> Item(c, "INT", Signed(IF f.overflow THEN sat ELSE signed))
  IN [k EXCEPT !.err = "OK"]
Exponent(x, f) ==
  IF x.r.digit_cnt = 0 THEN Fail(x.c, "MALFORMED")
  ELSE NumberItem(x.c, [f EXCEPT !.exponent = x.r.value * x.r.signum,
                                 !.overflow = @ \/ x.r.is_overflow])
AfterDot(c, f) ==
  IF c.p = -1 THEN NumberItem(c, f)
  ELSE IF c.p \in {69, 101} THEN Exponent(unpack_int_to_result(c, 0), [f EXCEPT !.kind = "decimal"])
  ELSE NumberItem(IF c.p # 46 THEN Unget(c) ELSE c, f)
Fraction(x, f) ==
  AfterDot(Take(x.c), [f EXCEPT !.kind = "decimal", !.mantissa = x.r.value,
                                !.overflow = @ \/ x.r.is_overflow, !.dec_cnt = x.r.digit_cnt])
AfterInt(c, f) ==
  IF c.p = -1 THEN NumberItem(c, f)
  ELSE IF c.p = 117 THEN NumberItem(c, [f EXCEPT !.kind = "uint"])
  ELSE IF c.p = 46 THEN Fraction(unpack_int_to_result(c, f.mantissa), f)
  ELSE AfterDot(c, f)
StartNumber(x) ==
  IF x.r.digit_cnt = 0 THEN Fail(x.c, "MALFORMED")
  ELSE AfterInt(Take(x.c), [kind |-> "int", mantissa |-> x.r.value, neg |-> x.r.signum = -1,
                            overflow |-> x.r.is_overflow, dec_cnt |-> 0, exponent |-> 0])

DateEnd(c) == IF c.p = -1 THEN c ELSE IF c.p # QUOTE THEN Fail(c, "MALFORMED") ELSE c
QuotedDate(c) == IF c.p = -1 THEN c ELSE IF c.p # QUOTE THEN Fail(c, "MALFORMED")
                 ELSE DateEnd(Take(ccpon_unpack_date_time(c)))

CponItem(c, b) ==
  CASE b \in {93, 125, 62} -> IF c.capacity > 0 /\ c.stack = <<>> THEN Fail(c, "STACK_UNDERFLOW")
                              ELSE Item(c, "CONTAINER_END", <<>>)
    [] b = 60  -> Item(c, "META", <<>>)
    [] b = 123 -> Item(c, "MAP", <<>>)
    [] b = 91  -> Item(c, "LIST", <<>>)
    [] b = 105 -> Bracket(Take(c), 123, "IMAP")
    [] b = 97  -> Bracket(Take(c), 91, "LIST")
    [] b = 100 -> QuotedDate(Take(c))
    [] b = 110 -> Literal(c, Tail(NullText), "NULL", <<>>)
    [] b = 102 -> Literal(c, Tail(FalseText), "BOOLEAN", <<0>>)
    [] b = 116 -> Literal(c, Tail(TrueText), "BOOLEAN", <<1>>)
    [] b = 120 -> Quoted(Take(c), "BLOB", TRUE)
    [] b = 98  -> Quoted(Take(c), "BLOB", FALSE)
    [] b = QUOTE -> StartText(c, "STRING", FALSE)
    [] b \in (48..57) \cup {43, 45} -> StartNumber(unpack_int_to_result(Unget(c), 0))
    [] OTHER   -> Fail(c, "MALFORMED")

\* Where the switch is left by return, the container state is not updated.
Updated(c) ==
  IF c.err # "OK" THEN c ELSE ccpcp_unpack_context_update_container_state(c)
CponNext(c) == IF c.p = -1 THEN c ELSE Updated(CponItem(c, c.p))
ccpon_unpack_next(c) ==
  IF c.err # "OK" THEN c
  ELSE IF InString(c) THEN ccpon_unpack_chunk(c)
  ELSE CponNext(ccpon_unpack_skip_insignificant([c EXCEPT !.item = NoItem]))
=============================================================================
