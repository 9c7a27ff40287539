---------------------------- MODULE FormatsInD ----------------------------
(***************************************************************************)
(* Both formats in the language D (libshvchainpack/d/shv), and the tool    *)
(* that converts between them (dcp2cp.d).                                  *)
(*                                                                         *)
(* The binary format (chainpack.d) encodes numbers as in C, line by line,  *)
(* which is why the operators of module ChainPack serve for them here;     *)
(* everything else is code of its own.  In the text format (cpon.d), where *)
(* the library of D formats or parses a number or a time, the comment says *)
(* so.                                                                     *)
(*                                                                         *)
(* Writers append to a range without limits: they return bytes.  A reader  *)
(* at position i of the bytes b returns what it read and the position      *)
(* behind it, or position 0 when it throws.  The end of the input is an    *)
(* Error for D, which ends the tool as well.                               *)
(***************************************************************************)
EXTENDS RpcValueStreams

NO_BYTE == -1
peek_byte(b, i) == IF i >= 1 /\ i <= Len(b) THEN b[i] ELSE NO_BYTE

DGot(v, i) == [v |-> v, i |-> i]
Thrown == DGot(Invalid, 0)
Threw(r) == r.i = 0

(***************************************************************************)
(* Keys and associative arrays.                                            *)
(***************************************************************************)
\* The key a container makes of a key value; Null if it throws.  A meta key
\* that is an empty string is the number 0, as only its length tells the two
\* kinds of keys apart.
MetaKey(k) ==
  IF k.t = "string" THEN (IF k.d = <<>> THEN IntKey(0) ELSE StringKey(k.d))
  ELSE IF k.t \in {"int", "uint"} THEN IntKey(toInt(k)) ELSE Null
MapKey(k) == IF k.t = "string" THEN StringKey(k.d) ELSE Null
IMapKey(k) == IF k.t \in {"int", "uint"} THEN IntKey(toInt(k)) ELSE Null
DKey(type, k) == CASE type = "META" -> MetaKey(k) [] type = "MAP" -> MapKey(k)
                   [] type = "IMAP" -> IMapKey(k) [] OTHER -> Null

\* An entry is stored, over one with the same key.
Store(type, es, k, v) ==
  IF type = "LIST" THEN Append(es, <<Null, v>>) ELSE insert_or_assign(es, DKey(type, k), v)

\* Without sortKeys the keys come in the order of their hashes, which is any
\* order: here that of the keys, or the reverse.
byKey(es, reversed) == IF reversed THEN Reverse(es) ELSE es

(***************************************************************************)
(* ChainPack: writing.                                                     *)
(***************************************************************************)
DUIntData(num) ==
  LET bits == significant_bits_part_length(num) IN Encoded(num, bits, bytes_needed(bits))
DIntData(d) ==
  LET num == Tail(d)
  IN Encoded(IF d[1] = 1 THEN WithBit(num, expand_bit_len(IntBits(num))) ELSE num,
             IntBits(num), bytes_needed(IntBits(num)))
DPackUInt(num) == IF Tiny(num) THEN <<ToInt(num)>> ELSE <<CP_UInt>> \o DUIntData(num)
DPackInt(d) ==
  IF d[1] = 0 /\ Tiny(Tail(d)) THEN <<64 + ToInt(Tail(d))>> ELSE <<CP_Int>> \o DIntData(d)
DString(s) == <<CP_String>> \o DUIntData(FromInt(Len(s))) \o s
DDateTime(d) ==
  <<CP_DateTime>> \o DIntData(Signed(DateTimeNumber((d[1] - SHV_EPOCH_SEC) * 1000 + d[2],
                                                    TruncDiv(d[3], 15) % 128)))
DScalar(v) ==
  CASE v.t \in {"null", "invalid"} -> <<CP_Null>>
    [] v.t = "bool"     -> <<IF v.d[1] = 1 THEN CP_TRUE ELSE CP_FALSE>>
    [] v.t = "uint"     -> DPackUInt(v.d)
    [] v.t = "int"      -> DPackInt(v.d)
    [] v.t = "double"   -> <<CP_Double>> \o v.d
    [] v.t = "decimal"  -> <<CP_Decimal>> \o DIntData(Tail(v.d)) \o DIntData(Signed(v.d[1]))
    [] v.t = "datetime" -> DDateTime(v.d)
    [] v.t = "string"   -> DString(v.d)

Concat(ss) == FoldLeft(LAMBDA a, s : a \o s, <<>>, ss)
RECURSIVE DWrite(_, _)
DKeyBytes(k) == IF k.t = "null" THEN <<>> ELSE DScalar(k)
DBlock(schema, es, reversed) ==
  <<schema>> \o Concat([i \in DOMAIN es |->
      DKeyBytes(byKey(es, reversed)[i][1]) \o DWrite(byKey(es, reversed)[i][2], reversed)])
    \o <<CP_TERM>>
DWrite(v, reversed) ==
  (IF v.m = <<>> THEN <<>> ELSE DBlock(CP_MetaMap, v.m, reversed)) \o
  CASE v.t = "list" -> DBlock(CP_List, v.e, FALSE)
    [] v.t = "map"  -> DBlock(CP_Map, v.e, reversed)
    [] v.t = "imap" -> DBlock(CP_IMap, v.e, reversed)
    [] OTHER        -> DScalar(v)

(***************************************************************************)
(* ChainPack: reading.                                                     *)
(***************************************************************************)
\* unpack_uint_data_helper(): r.v is the number, not a value.  Numbers of more
\* than 64 bits are left out.
DUInt(b, i) ==
  IF peek_byte(b, i) = NO_BYTE \/ i + RestBytes(b[i]) > Len(b) THEN Thrown
  ELSE DGot(Normal(<<HeadBits(b[i])>> \o SubSeq(b, i + 1, i + RestBytes(b[i]))),
            i + 1 + RestBytes(b[i]))
DInt(b, i) ==
  IF Threw(DUInt(b, i)) THEN Thrown
  ELSE DGot(SignOf(DUInt(b, i).v, BitLen(b[i])), DUInt(b, i).i)

\* A scalar of type t made of r.
As(t, r) == IF Threw(r) THEN Thrown ELSE DGot(Val(t, r.v), r.i)
DText(b, r) ==
  IF Threw(r) \/ r.i + ToInt(r.v) - 1 > Len(b) THEN Thrown
  ELSE DGot(Val("string", SubSeq(b, r.i, r.i + ToInt(r.v) - 1)), r.i + ToInt(r.v))
RECURSIVE DCString(_, _, _)
DCString(b, i, acc) ==
  LET c == peek_byte(b, i)
      e == peek_byte(b, i + 1)
  IN CASE c = NO_BYTE -> Thrown
       [] c = 0 -> DGot(Val("string", acc), i + 1)
       [] c = 92 -> IF e = NO_BYTE THEN Thrown
                    ELSE DCString(b, i + 2, Append(acc, IF e = 48 THEN 0 ELSE e))
       [] OTHER -> DCString(b, i + 1, Append(acc, c))
DDecimalRest(mant, exp) ==
  IF Threw(exp) THEN Thrown ELSE DGot(Val("decimal", <<ToSigned(exp.v)>> \o mant.v), exp.i)
DDecimal(b, mant) == IF Threw(mant) THEN Thrown ELSE DDecimalRest(mant, DInt(b, mant.i))
DDate(r) == IF Threw(r) THEN Thrown ELSE DGot(Val("datetime", DateTimeOf(ToSigned(r.v))), r.i)
DDoubleAt(b, i) ==
  IF i + 7 > Len(b) THEN Thrown ELSE DGot(Val("double", SubSeq(b, i, i + 7)), i + 8)

\* Behind the schema byte s.  There is no blob in D.
DBySchema(b, i, s) ==
  CASE s = CP_Null     -> DGot(Null, i)
    [] s = CP_TRUE     -> DGot(Val("bool", <<1>>), i)
    [] s = CP_FALSE    -> DGot(Val("bool", <<0>>), i)
    [] s = CP_UInt     -> As("uint", DUInt(b, i))
    [] s = CP_Int      -> As("int", DInt(b, i))
    [] s = CP_Double   -> DDoubleAt(b, i)
    [] s = CP_Decimal  -> DDecimal(b, DInt(b, i))
    [] s = CP_DateTime -> DDate(DInt(b, i))
    [] s = CP_String   -> DText(b, DUInt(b, i))
    [] s = CP_CString  -> DCString(b, i, <<>>)
    [] OTHER           -> Thrown

DContainers == (CP_List :> "list") @@ (CP_Map :> "map") @@ (CP_IMap :> "imap")
DEntriesDone(t, r) == IF Threw(r) THEN Thrown ELSE DGot([Val(t, <<>>) EXCEPT !.e = r.v], r.i)
WithMeta(m, r) == IF Threw(r) THEN Thrown ELSE DGot([r.v EXCEPT !.m = m], r.i)

RECURSIVE DRead(_, _), DEntries(_, _, _, _)
DStored(b, type, k, v, es) ==
  IF Threw(v) \/ (type # "LIST" /\ DKey(type, k) = Null) THEN Thrown
  ELSE DEntries(b, v.i, type, Store(type, es, k, v.v))
DWithKey(b, type, k, es) ==
  IF Threw(k) THEN Thrown ELSE DStored(b, type, k.v, DRead(b, k.i), es)
DEntries(b, i, type, es) ==
  IF peek_byte(b, i) = CP_TERM THEN DGot(es, i + 1)
  ELSE IF type = "LIST" THEN DStored(b, type, Null, DRead(b, i), es)
  ELSE DWithKey(b, type, DRead(b, i), es)
DBody(b, i) ==
  LET s == peek_byte(b, i)
  IN CASE s = NO_BYTE -> Thrown
       [] s \in 0..63 -> DGot(Val("uint", FromInt(s)), i + 1)
       [] s \in 64..127 -> DGot(Val("int", Signed(s - 64)), i + 1)
       [] s \in DOMAIN DContainers ->
            DEntriesDone(DContainers[s], DEntries(b, i + 1, ItemType(DContainers[s]), <<>>))
       [] OTHER -> DBySchema(b, i + 1, s)
DBehindMeta(b, m) == IF Threw(m) THEN Thrown ELSE WithMeta(m.v, DBody(b, m.i))
DRead(b, i) ==
  IF peek_byte(b, i) = CP_MetaMap THEN DBehindMeta(b, DEntries(b, i + 1, "META", <<>>))
  ELSE DBody(b, i)

(***************************************************************************)
(* The text format (cpon.d), and the numbers and times of rpcvalue.d as    *)
(* text.                                                                   *)
(***************************************************************************)

(***************************************************************************)
(* Writing.                                                                *)
(***************************************************************************)
Padded(n, width) == Zeros(width - Len(Digits(n))) \o Digits(n)

\* "%.18g" of std.format; a double has seven digits here.
PointAt(s, n) == IF n >= Len(s) THEN s \o Zeros(n - Len(s)) ELSE SubSeq(s, 1, n) \o <<46>> \o SubSeq(s, n + 1, Len(s))
DFloatText(f) ==
  LET s == NoTrailingZeros(Digits(f.digits))
  IN (IF f.neg THEN <<45>> ELSE <<>>) \o
     (IF f.digits = 0 THEN <<48>>
      ELSE IF f.exp \in 0..17 THEN PointAt(s, f.exp + 1)
      ELSE IF f.exp \in -4..-1 THEN <<48, 46>> \o Zeros(-f.exp - 1) \o s
      ELSE PointAt(s, 1) \o <<101, IF f.exp < 0 THEN 45 ELSE 43>> \o Padded(Abs(f.exp), 2))

\* DateTime.toISOExtString(): the local time, milliseconds if there are any,
\* the zone as hours and, if needed, minutes.
ISODate(tm) ==
  Padded(tm.year, 4) \o <<45>> \o Padded(tm.mon + 1, 2) \o <<45>> \o Padded(tm.mday, 2) \o <<84>>
    \o Padded(tm.hour, 2) \o <<58>> \o Padded(tm.min, 2) \o <<58>> \o Padded(tm.sec, 2)
DZoneText(tz) ==
  IF tz = 0 THEN <<90>>
  ELSE <<IF tz < 0 THEN 45 ELSE 43>> \o Padded(Abs(tz) \div 60, 2)
         \o (IF Abs(tz) % 60 > 0 THEN Padded(Abs(tz) % 60, 2) ELSE <<>>)
toISOExtString(d) ==
  ISODate(ccpon_gmtime(d[1] + 60 * d[3]))
    \o (IF d[2] > 0 THEN <<46>> \o Padded(d[2], 3) ELSE <<>>) \o DZoneText(d[3])

\* decodeFront() of std.utf throws at what is no UTF-8 (forms that are longer
\* than they need to be are left out).
Follow(c) == CASE c < 128 -> 0 [] c \in 194..223 -> 1 [] c \in 224..239 -> 2 [] c \in 240..244 -> 3
               [] OTHER -> 9
RECURSIVE IsUtf8(_)
IsUtf8(s) ==
  s = <<>> \/ /\ Follow(Head(s)) < Len(s)
              /\ \A k \in 1..Follow(Head(s)) : s[k + 1] \in 128..191
              /\ IsUtf8(SubSeq(s, Follow(Head(s)) + 2, Len(s)))
DEscapes == (34 :> 34) @@ (92 :> 92) @@ (8 :> 98) @@ (12 :> 102) @@ (10 :> 110) @@ (13 :> 114)
              @@ (9 :> 116)
Escaped(s) == Concat([i \in DOMAIN s |-> IF s[i] \in DOMAIN DEscapes
                                         THEN <<SLASH, DEscapes[s[i]]>> ELSE <<s[i]>>])
DCponString(s) == <<QUOTE>> \o Escaped(s) \o <<QUOTE>>

\* A writer that throws returns Refused, which is no text.
Refused == <<-1>>
Joined(ss) == IF \E i \in DOMAIN ss : ss[i] = Refused THEN Refused ELSE Concat(ss)

DCponScalar(v) ==
  CASE v.t \in {"null", "invalid"} -> NullText
    [] v.t = "bool"     -> IF v.d[1] = 1 THEN TrueText ELSE FalseText
    [] v.t = "int"      -> int_to_str(ToSigned(v.d))
    [] v.t = "uint"     -> Digits(ToInt(v.d)) \o <<117>>
    [] v.t = "double"   -> DFloatText(DoubleDigits[v.d])
    [] v.t = "decimal"  -> ccpcp_decimal_to_string(ToSigned(Tail(v.d)), v.d[1])
    [] v.t = "datetime" -> <<100, QUOTE>> \o toISOExtString(v.d) \o <<QUOTE>>
    [] v.t = "string"   -> IF IsUtf8(v.d) THEN DCponString(v.d) ELSE Refused

\* A key is put between quotes as it is; the keys are sorted.
DCponKey(k) == CASE k.t = "null" -> <<>>
                 [] k.t = "string" -> <<QUOTE>> \o k.d \o <<QUOTE, 58>>
                 [] OTHER -> int_to_str(ToSigned(k.d)) \o <<58>>
RECURSIVE DCponWrite(_)
DCponBlock(open, es, close) ==
  Joined(<<open>> \o [i \in DOMAIN es |->
           Joined(<<IF i > 1 THEN <<44>> ELSE <<>>, DCponKey(es[i][1]), DCponWrite(es[i][2])>>)]
         \o <<close>>)
DCponWrite(v) ==
  Joined(<<IF v.m = <<>> THEN <<>> ELSE DCponBlock(<<60>>, v.m, <<62>>),
           CASE v.t = "list" -> DCponBlock(<<91>>, v.e, <<93>>)
             [] v.t = "map"  -> DCponBlock(<<123>>, v.e, <<125>>)
             [] v.t = "imap" -> DCponBlock(<<105, 123>>, v.e, <<125>>)
             [] OTHER        -> DCponScalar(v)>>)

(***************************************************************************)
(* Reading.  Between tokens there may be blanks, delimiters and comments.  *)
(***************************************************************************)
\* The position of the next byte that means something, 0 for an exception.  A
\* star in a comment swallows the byte behind it.
RECURSIVE skip_white(_, _), DBlockComment(_, _), DLineComment(_, _)
DBlockComment(b, i) ==
  CASE peek_byte(b, i) = NO_BYTE -> 0
    [] peek_byte(b, i) # 42 -> DBlockComment(b, i + 1)
    [] peek_byte(b, i + 1) = 47 -> skip_white(b, i + 2)
    [] OTHER -> DBlockComment(b, i + 2)
DLineComment(b, i) ==
  CASE peek_byte(b, i) = NO_BYTE -> 0
    [] peek_byte(b, i) = 10 -> skip_white(b, i + 1)
    [] OTHER -> DLineComment(b, i + 1)
skip_white(b, i) ==
  LET c == peek_byte(b, i)
  IN IF c = NO_BYTE THEN i
     ELSE IF c <= 32 \/ c \in {44, 58} THEN skip_white(b, i + 1)
     ELSE IF c # 47 THEN i
     ELSE CASE peek_byte(b, i + 1) = 42 -> DBlockComment(b, i + 2)
            [] peek_byte(b, i + 1) = 47 -> DLineComment(b, i + 2)
            [] OTHER -> 0

\* read_int(): r collects the number; digit_cnt begins at zero in every call.
RECURSIVE DIntLoop(_, _)
DDigit(b, r, digit) ==
  DIntLoop(b, [r EXCEPT !.i = @ + 1, !.val = @ * r.base + digit, !.digits = @ + 1, !.n = @ + 1])
DIntLoop(b, r) ==
  LET c == peek_byte(b, r.i)
      next == [r EXCEPT !.i = @ + 1, !.n = @ + 1]
  IN CASE c \in {43, 45} /\ r.n = 0 -> DIntLoop(b, [next EXCEPT !.neg = @ \/ c = 45])
       [] c = 120 /\ r.n = 1 /\ r.val = 0 -> DIntLoop(b, [next EXCEPT !.base = 16])
       [] c \in 48..57 -> DDigit(b, r, c - 48)
       [] c \in (65..70) \cup (97..102) /\ r.base = 16 -> DDigit(b, r, unhex(c))
       [] OTHER -> [r EXCEPT !.val = IF r.neg THEN -@ ELSE @]
DReadInt(b, i) == DIntLoop(b, [i |-> i, val |-> 0, neg |-> FALSE, n |-> 0, base |-> 10, digits |-> 0])

\* read_number(): whole part, fraction and exponent are three ints.
Negated(neg, n) == IF neg THEN -n ELSE n
DDecimalNumber(neg, whole, frac, exponent, i) ==
  DGot(Val("decimal", <<exponent - frac.digits>>
                        \o Signed(Negated(neg, whole.val * 10^frac.digits + frac.val))), i)
DExponent(b, neg, whole, frac, e) ==
  IF e.digits = 0 THEN Thrown ELSE DDecimalNumber(neg, whole, frac, e.val, e.i)
DBehindFraction(b, neg, whole, frac) ==
  IF peek_byte(b, frac.i) \in {69, 101} THEN DExponent(b, neg, whole, frac, DReadInt(b, frac.i + 1))
  ELSE DDecimalNumber(neg, whole, frac, 0, frac.i)
DBehindWhole(b, neg, whole) ==
  LET c == peek_byte(b, whole.i)
      none == [val |-> 0, digits |-> 0, i |-> whole.i]
  IN CASE c = 117 -> DGot(Val("uint", FromInt(whole.val)), whole.i + 1)
       [] c = 46 -> DBehindFraction(b, neg, whole, DReadInt(b, whole.i + 1))
       [] c \in {69, 101} -> DBehindFraction(b, neg, whole, none)
       [] OTHER -> DGot(Val("int", Signed(Negated(neg, whole.val))), whole.i)
DNumber(b, i) ==
  IF b[i] \in {43, 45} THEN DBehindWhole(b, b[i] = 45, DReadInt(b, i + 1))
  ELSE DBehindWhole(b, FALSE, DReadInt(b, i))

\* read_cstring() behind the quote: put(cast(dchar) b) encodes a byte of 128
\* and more as a character of its own.
AsChar(c) == IF c < 128 THEN <<c>> ELSE <<192 + (c \div 64), 128 + (c % 64)>>
RECURSIVE DQuoted(_, _, _)
DQuoted(b, i, acc) ==
  LET c == peek_byte(b, i)
      e == peek_byte(b, i + 1)
  IN CASE c = NO_BYTE -> Thrown
       [] c = QUOTE -> DGot(Val("string", acc), i + 1)
       [] c = SLASH -> IF e = NO_BYTE THEN Thrown
                       ELSE DQuoted(b, i + 2, acc \o (IF e \in DOMAIN StringEscapes
                                                      THEN <<StringEscapes[e]>> ELSE AsChar(e)))
       [] OTHER -> DQuoted(b, i + 1, acc \o AsChar(c))

\* read_datetime() behind the quote.  DateTime.fromISOExtString() completes
\* the zone and leaves the rest to std.datetime, which wants every field in
\* its place; a time without a zone is a local time, taken for UTC here.
EndQuote(b, i) == IF \E k \in i..Len(b) : b[k] = QUOTE
                  THEN CHOOSE k \in i..Len(b) : b[k] = QUOTE /\ \A l \in i..(k - 1) : b[l] # QUOTE
                  ELSE 0
Number(s) == FoldLeft(LAMBDA a, c : 10 * a + c - 48, 0, s)
IsNumber(s) == s # <<>> /\ \A k \in DOMAIN s : s[k] \in 48..57
ZoneMinutes(s) ==
  IF s \in {<<>>, <<90>>} THEN 0
  ELSE Negated(s[1] = 45, 60 * Number(SubSeq(s, 2, 3)) + Number(SubSeq(s, 4, Len(s))))
IsZone(s) == s \in {<<>>, <<90>>}
               \/ (Len(s) \in {3, 5} /\ s[1] \in {43, 45} /\ IsNumber(Tail(s)))
IsDate(s) == Len(s) = 19 /\ s[5] = 45 /\ s[8] = 45 /\ s[11] = 84 /\ s[14] = 58 /\ s[17] = 58
               /\ IsNumber(SubSeq(s, 1, 4) \o SubSeq(s, 6, 7) \o SubSeq(s, 9, 10)
                             \o SubSeq(s, 12, 13) \o SubSeq(s, 15, 16) \o SubSeq(s, 18, 19))
DateFields(s) ==
  [year |-> Number(SubSeq(s, 1, 4)), mon |-> Number(SubSeq(s, 6, 7)) - 1,
   mday |-> Number(SubSeq(s, 9, 10)), hour |-> Number(SubSeq(s, 12, 13)),
   min |-> Number(SubSeq(s, 15, 16)), sec |-> Number(SubSeq(s, 18, 19))]
\* The date, the fraction behind its dot and the zone.
FromParts(date, frac, zone) ==
  IF ~IsDate(date) \/ ~IsZone(zone) \/ (frac # <<>> /\ ~IsNumber(Tail(frac))) THEN Invalid
  ELSE Val("datetime", <<ccpon_timegm(DateFields(date)) - 60 * ZoneMinutes(zone),
                         Number(SubSeq(Tail(frac \o <<46>>) \o Zeros(3), 1, 3)), ZoneMinutes(zone)>>)
ZoneStart(s) == IF \E k \in 20..Len(s) : s[k] \in {43, 45, 90}
                THEN CHOOSE k \in 20..Len(s) : s[k] \in {43, 45, 90} ELSE Len(s) + 1
fromISOExtString(s) ==
  IF Len(s) < 19 THEN Invalid
  ELSE FromParts(SubSeq(s, 1, 19), SubSeq(s, 20, ZoneStart(s) - 1), SubSeq(s, ZoneStart(s), Len(s)))
DReadDate(b, i, end) ==
  LET v == fromISOExtString(SubSeq(b, i, end - 1))
  IN IF end = 0 \/ v = Invalid THEN Thrown ELSE DGot(v, end + 1)

DLiteral(b, i, text, v) ==
  IF SubSeq(b, i, i + Len(text) - 1) = text THEN DGot(v, i + Len(text)) ELSE Thrown

DClose == ("META" :> 62) @@ ("LIST" :> 93) @@ ("MAP" :> 125) @@ ("IMAP" :> 125)
RECURSIVE DCponRead(_, _), DCponEntries(_, _, _, _)
DCponStored(b, type, k, v, es) ==
  IF Threw(v) \/ (type # "LIST" /\ DKey(type, k) = Null) THEN Thrown
  ELSE DCponEntries(b, skip_white(b, v.i), type, Store(type, es, k, v.v))
DCponWithKey(b, type, k, es) ==
  IF Threw(k) THEN Thrown ELSE DCponStored(b, type, k.v, DCponRead(b, k.i), es)
\* i is behind what is insignificant.
DCponEntries(b, i, type, es) ==
  IF i = 0 THEN Thrown
  ELSE IF peek_byte(b, i) = DClose[type] THEN DGot(es, i + 1)
  ELSE IF type = "LIST" THEN DCponStored(b, type, Null, DCponRead(b, i), es)
  ELSE DCponWithKey(b, type, DCponRead(b, i), es)
DCponContainer(b, i, t) ==
  DEntriesDone(t, DCponEntries(b, skip_white(b, i), ItemType(t), <<>>))
DCponBody(b, i) ==
  LET c == peek_byte(b, i)
      e == peek_byte(b, i + 1)
  IN CASE c \in (48..57) \cup {43, 45} -> DNumber(b, i)
       [] c = QUOTE -> DQuoted(b, i + 1, <<>>)
       [] c = 91  -> DCponContainer(b, i + 1, "list")
       [] c = 123 -> DCponContainer(b, i + 1, "map")
       [] c = 105 /\ e = 123 -> DCponContainer(b, i + 2, "imap")
       [] c = 100 /\ e = QUOTE -> DReadDate(b, i + 2, EndQuote(b, i + 2))
       [] c = 116 -> DLiteral(b, i, TrueText, Val("bool", <<1>>))
       [] c = 102 -> DLiteral(b, i, FalseText, Val("bool", <<0>>))
       [] c = 110 -> DLiteral(b, i, NullText, Null)
       [] OTHER -> Thrown
DCponBehindMeta(b, m) ==
  IF Threw(m) THEN Thrown ELSE WithMeta(m.v, DCponBody(b, skip_white(b, m.i)))
DCponAt(b, i) ==
  IF peek_byte(b, i) = 60
  THEN DCponBehindMeta(b, DCponEntries(b, skip_white(b, i + 1), "META", <<>>))
  ELSE DCponBody(b, i)
DCponRead(b, i) == DCponAt(b, skip_white(b, i))

(***************************************************************************)
(* dcp2cp: one value from the input is written in the other format.  The   *)
(* result is Refused when it cannot be read or written.                    *)
(***************************************************************************)
dcp2cp(from, bytes, to, reversed) ==
  LET r == IF from = "Cpon" THEN DCponRead(bytes, 1) ELSE DRead(bytes, 1)
  IN IF Threw(r) THEN Refused
     ELSE IF to = "Cpon" THEN DCponWrite(r.v) ELSE DWrite(r.v, reversed)
=============================================================================
