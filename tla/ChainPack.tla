------------------------------ MODULE ChainPack ------------------------------
(***************************************************************************)
(* The items of the binary format: libshvchainpack/c/cchainpack.c.         *)
(*                                                                         *)
(* A value is a record [t, d, e, m]: its type, its data, its elements and  *)
(* its meta data.  Numbers of 64 bits are sequences of bytes, the most     *)
(* significant first and without leading zeros, because their encoding     *)
(* depends on their length and not on what they mean:                      *)
(*   uint      d = its bytes             double    d = its 8 bytes         *)
(*   int       d = <<sign>> \o bytes     string    d = its bytes           *)
(*   decimal   d = <<exponent, sign>> \o bytes of the mantissa             *)
(*   datetime  d = <<seconds, milliseconds, minutes from UTC>>             *)
(* Elements and meta data are sequences of <<key, value>>, in the order of *)
(* std::map; the key of a list element is Null.                            *)
(***************************************************************************)
EXTENDS Ccpcp, SequencesExt

Val(t, d) == [t |-> t, d |-> d, e |-> <<>>, m |-> <<>>]
Invalid == Val("invalid", <<>>)
Null == Val("null", <<>>)

\* cchainpack_pack_packing_schema
CP_Null == 128
CP_UInt == 129
CP_Int == 130
CP_Double == 131
CP_Blob == 133
CP_String == 134
CP_List == 136
CP_Map == 137
CP_IMap == 138
CP_MetaMap == 139
CP_Decimal == 140
CP_DateTime == 141
CP_CString == 142
CP_FALSE == 253
CP_TRUE == 254
CP_TERM == 255

\* Seconds of the SHV epoch, 2018-02-02T00:00Z (SHV_EPOCH_MSEC).
SHV_EPOCH_SEC == 1517529600

TruncDiv(a, b) == IF a < 0 THEN -((-a) \div b) ELSE a \div b

(***************************************************************************)
(* Numbers.                                                                *)
(***************************************************************************)
RECURSIVE FromInt(_)
FromInt(n) == IF n = 0 THEN <<>> ELSE FromInt(n \div 256) \o <<n % 256>>
ToInt(bytes) == FoldLeft(LAMBDA a, b : 256 * a + b, 0, bytes)
Signed(n) == <<IF n < 0 THEN 1 ELSE 0>> \o FromInt(Abs(n))
ToSigned(d) == IF d[1] = 1 THEN -ToInt(Tail(d)) ELSE ToInt(Tail(d))

RECURSIVE Normal(_)
Normal(bytes) == IF bytes # <<>> /\ Head(bytes) = 0 THEN Normal(Tail(bytes)) ELSE bytes

significant_bits_part_length(num) ==
  IF num = <<>> THEN 0
  ELSE 8 * (Len(num) - 1) + (CHOOSE k \in 1..8 : num[1] < 2^k /\ num[1] >= 2^(k - 1))

bytes_needed(bit_len) ==
  IF bit_len = 0 THEN 1
  ELSE IF bit_len <= 28 THEN (bit_len - 1) \div 7 + 1
  ELSE (bit_len - 1) \div 8 + 2

\* The largest bit length that is encoded in as many bytes, less one.
expand_bit_len(bit_len) ==
  IF bit_len <= 28 THEN bytes_needed(bit_len) * 7 - 1
  ELSE (bytes_needed(bit_len) - 1) * 8 - 1

\* num, right-aligned in cnt bytes.
Aligned(num, cnt) ==
  [i \in 1..cnt |-> IF i + Len(num) > cnt THEN num[i + Len(num) - cnt] ELSE 0]

HeadByte(cnt, bit_len, b) ==
  IF bit_len > 28 THEN 240 + cnt - 5
  ELSE CASE cnt = 1 -> b % 128
         [] cnt = 2 -> 128 + (b % 64)
         [] cnt = 3 -> 192 + (b % 32)
         [] OTHER   -> 224 + (b % 16)

Encoded(num, bit_len, cnt) ==
  [Aligned(num, cnt) EXCEPT ![1] = HeadByte(cnt, bit_len, @)]

pack_uint_data_helper(c, num, bit_len) ==
  FoldLeft(ccpcp_pack_copy_byte, c, Encoded(num, bit_len, bytes_needed(bit_len)))

cchainpack_pack_uint_data(c, num) ==
  pack_uint_data_helper(c, num, significant_bits_part_length(num))

\* num with the bit at pos set; pos is above its significant bits.
WithBit(num, pos) ==
  [Aligned(num, pos \div 8 + 1) EXCEPT ![1] = @ + 2^(pos % 8)]

\* The sign goes to the top bit of the encoded bytes.
IntBits(num) == significant_bits_part_length(num) + 1
cchainpack_pack_int_data(c, d) ==
  pack_uint_data_helper(c,
    IF d[1] = 1 THEN WithBit(Tail(d), expand_bit_len(IntBits(Tail(d)))) ELSE Tail(d),
    IntBits(Tail(d)))

(***************************************************************************)
(* Packing of one value.  A scalar is not touched after an error.          *)
(***************************************************************************)
Byte(c, b) == IF c.err # "OK" THEN c ELSE ccpcp_pack_copy_byte(c, b)

\* A number below 64 is its own schema byte.
Tiny(num) == num = <<>> \/ (Len(num) = 1 /\ num[1] < 64)
cchainpack_pack_uint(c, num) ==
  IF c.err # "OK" THEN c
  ELSE IF Tiny(num) THEN ccpcp_pack_copy_byte(c, ToInt(num))
  ELSE cchainpack_pack_uint_data(ccpcp_pack_copy_byte(c, CP_UInt), num)
cchainpack_pack_int(c, d) ==
  IF c.err # "OK" THEN c
  ELSE IF d[1] = 0 /\ Tiny(Tail(d)) THEN ccpcp_pack_copy_byte(c, 64 + ToInt(Tail(d)))
  ELSE cchainpack_pack_int_data(ccpcp_pack_copy_byte(c, CP_Int), d)

cchainpack_pack_decimal(c, d) ==
  IF c.err # "OK" THEN c
  ELSE cchainpack_pack_int_data(
         cchainpack_pack_int_data(ccpcp_pack_copy_byte(c, CP_Decimal), Tail(d)), Signed(d[1]))

cchainpack_pack_double(c, d) ==
  IF c.err # "OK" THEN c
  ELSE FoldLeft(ccpcp_pack_copy_byte, ccpcp_pack_copy_byte(c, CP_Double), d)

\* Seconds are enough when there are no milliseconds, and the time zone is
\* left out when it is UTC; the two lowest bits tell.
DateTimeNumber(msecs, offset) ==
  LET noMs == msecs % 1000 = 0
      n == IF noMs THEN TruncDiv(msecs, 1000) ELSE msecs
  IN 4 * (IF offset # 0 THEN 128 * n + offset ELSE n)
       + (IF offset # 0 THEN 1 ELSE 0) + (IF noMs THEN 2 ELSE 0)
cchainpack_pack_date_time(c, d) ==
  IF c.err # "OK" THEN c
  ELSE cchainpack_pack_int_data(ccpcp_pack_copy_byte(c, CP_DateTime),
         Signed(DateTimeNumber((d[1] - SHV_EPOCH_SEC) * 1000 + d[2],
                               TruncDiv(d[3], 15) % 128)))

\* Strings and blobs: the length, then the bytes.  They do not look at err.
cchainpack_pack_string_start(c, schema, string_len, bytes) ==
  ccpcp_pack_copy_bytes(
    cchainpack_pack_uint_data(ccpcp_pack_copy_byte(c, schema), FromInt(string_len)), bytes)
cchainpack_pack_string(c, schema, bytes) ==
  cchainpack_pack_string_start(c, schema, Len(bytes), bytes)

\* A C string is escaped and ends with a zero.
copy_bytes_cstring(c, bytes) ==
  FoldLeft(LAMBDA k, b : IF k.err # "OK" THEN k
                         ELSE IF b \in {0, 92}
                              THEN ccpcp_pack_copy_byte(ccpcp_pack_copy_byte(k, 92), b)
                              ELSE ccpcp_pack_copy_byte(k, b), c, bytes)
cchainpack_pack_cstring(c, bytes) ==
  ccpcp_pack_copy_byte(copy_bytes_cstring(ccpcp_pack_copy_byte(c, CP_CString), bytes), 0)

(***************************************************************************)
(* Unpacking of the next item.                                             *)
(***************************************************************************)
Item(c, type, d) == [c EXCEPT !.item = [NoItem EXCEPT !.type = type, !.d = d]]

\* unpack_uint(): the head byte tells how many bytes follow and how many of
\* its own bits belong to the number.  More than 64 bits are the maximum.
RestBytes(h) == CASE h < 128 -> 0 [] h < 192 -> 1 [] h < 224 -> 2 [] h < 240 -> 3
                  [] OTHER -> (h % 16) + 4
HeadBits(h) == CASE h < 128 -> h [] h < 192 -> h - 128 [] h < 224 -> h - 192
                 [] h < 240 -> h - 224 [] OTHER -> 0
BitLen(h) == CASE h < 128 -> 7 [] h < 192 -> 14 [] h < 224 -> 21 [] h < 240 -> 28
               [] OTHER -> 8 * RestBytes(h)
MAX64 == [i \in 1..8 |-> 255]
UIntItem(c, h) ==
  IF c.p = -1 THEN c
  ELSE [Item(c, "UINT", IF BitLen(h) > 64 THEN MAX64
                        ELSE Normal(<<HeadBits(h)>> \o c.item.chunk))
        EXCEPT !.bitlen = BitLen(h)]
UIntRest(c, h) == IF c.p = -1 THEN c ELSE UIntItem(TakeBytes(c, RestBytes(h)), h)
unpack_uint(c) == UIntRest(ccpcp_unpack_take_byte(c), ccpcp_unpack_peek_byte(c))

\* unpack_int(): the top bit of the encoded number is the sign.
SignOf(num, bitlen) ==
  IF significant_bits_part_length(num) = bitlen
  THEN LET mag == Normal([num EXCEPT ![1] = @ - 2^((bitlen - 1) % 8)])
       IN <<IF mag = <<>> THEN 0 ELSE 1>> \o mag
  ELSE <<0>> \o num
IntItem(c) ==
  IF c.err # "OK" THEN c
  ELSE Item(c, "INT", IF c.bitlen > 64 THEN <<0, 127>> \o [i \in 1..7 |-> 255]
                      ELSE SignOf(c.item.d, c.bitlen))
unpack_int(c) == IntItem(unpack_uint(c))

\* One chunk of a string with a length.
Chunk(c, it, n) ==
  IF c.p = -1 THEN c
  ELSE [c EXCEPT !.item = [it EXCEPT !.chunk = c.item.chunk, !.chunk_cnt = @ + 1,
                                     !.size_to_load = @ - n,
                                     !.last_chunk = it.size_to_load = n]]
MinOf(a, b) == IF a < b THEN a ELSE b
\* The slip of a reader that takes what there is for the whole string.
SizedStringShort(c, it) ==
  Chunk(TakeBytes(c, MinOf(it.size_to_load, Len(c.in) - c.pos + 1)), it, it.size_to_load)
SizedString(c, it) ==
  Chunk(TakeBytes(c, MinOf(it.size_to_load, c.chunk_len)), it,
        MinOf(it.size_to_load, c.chunk_len))

\* One chunk of a C string: it ends at the buffer's end, at the end of the
\* string or after an escape.
Add(c, b) == [c EXCEPT !.item.chunk = Append(@, b)]
RECURSIVE CString(_)
CStringByte(c) ==
  IF c.p = -1 THEN c
  ELSE IF c.p = 92
       THEN LET k == ccpcp_unpack_take_byte(c)
            IN IF k.p = -1 THEN k ELSE Add(k, IF k.p = 48 THEN 0 ELSE k.p)
  ELSE IF c.p = 0 THEN [c EXCEPT !.item.last_chunk = TRUE]
  ELSE CString(Add(c, c.p))
CString(c) ==
  IF Len(c.item.chunk) >= c.chunk_len THEN c ELSE CStringByte(ccpcp_unpack_take_byte(c))
Counted(c) == IF c.err # "OK" THEN c ELSE [c EXCEPT !.item.chunk_cnt = @ + 1]

unpack_string(c) ==
  IF c.item.string_size < 0 THEN Counted(CString([c EXCEPT !.item.chunk = <<>>]))
  ELSE SizedString(c, c.item)

\* A new string: its length (none for a C string) and its first chunk.
StartSized(c, type) ==
  IF c.err # "OK" THEN c
  ELSE unpack_string([c EXCEPT !.item = [NoItem EXCEPT
         !.type = type, !.string_size = ToInt(c.item.d), !.size_to_load = ToInt(c.item.d)]])

DoubleItem(c) == IF c.p = -1 THEN c ELSE Item(c, "DOUBLE", c.item.chunk)

Decimal2(c, mant) == IF c.err # "OK" THEN c
                     ELSE Item(c, "DECIMAL", <<ToSigned(c.item.d)>> \o mant)
Decimal1(c) == IF c.err # "OK" THEN c ELSE Decimal2(unpack_int(c), c.item.d)

\* The reverse of DateTimeNumber; shifts round down.
DateTimeOf(n) ==
  LET hasTz == n % 2 = 1
      noMs == (n \div 2) % 2 = 1
      q == n \div 4
      o == q % 128
      msecs == (IF hasTz THEN q \div 128 ELSE q) * (IF noMs THEN 1000 ELSE 1)
  IN <<SHV_EPOCH_SEC + (msecs \div 1000), msecs % 1000,
       IF ~hasTz THEN 0 ELSE 15 * (IF o >= 64 THEN o - 128 ELSE o)>>
DateTimeItem(c) ==
  IF c.err # "OK" THEN c ELSE Item(c, "DATE_TIME", DateTimeOf(ToSigned(c.item.d)))

\* The items whose schema byte says everything.
Simple == {CP_Null, CP_TRUE, CP_FALSE, CP_MetaMap, CP_Map, CP_IMap, CP_List, CP_TERM}
SimpleItem(c, s) ==
  CASE s = CP_Null    -> Item(c, "NULL", <<>>)
    [] s = CP_TRUE    -> Item(c, "BOOLEAN", <<1>>)
    [] s = CP_FALSE   -> Item(c, "BOOLEAN", <<0>>)
    [] s = CP_MetaMap -> Item(c, "META", <<>>)
    [] s = CP_Map     -> Item(c, "MAP", <<>>)
    [] s = CP_IMap    -> Item(c, "IMAP", <<>>)
    [] s = CP_List    -> Item(c, "LIST", <<>>)
    [] s = CP_TERM    -> Item(c, "CONTAINER_END", <<>>)

BySchema(c, s) ==
  CASE s < 64 -> Item(c, "UINT", FromInt(s))
    [] s >= 64 /\ s < 128 -> Item(c, "INT", Signed(s - 64))
    [] s \in Simple     -> SimpleItem(c, s)
    [] s = CP_Int       -> unpack_int(c)
    [] s = CP_UInt      -> unpack_uint(c)
    [] s = CP_Double    -> DoubleItem(TakeBytes(c, 8))
    [] s = CP_Decimal   -> Decimal1(unpack_int(c))
    [] s = CP_DateTime  -> DateTimeItem(unpack_int(c))
    [] s = CP_Blob      -> StartSized(unpack_uint(c), "BLOB")
    [] s = CP_String    -> StartSized(unpack_uint(c), "STRING")
    [] s = CP_CString   -> unpack_string(ccpcp_string_init(c, "STRING"))
    [] OTHER            -> Fail(c, "MALFORMED")

InString(c) == c.item.type \in {"STRING", "BLOB"} /\ ~c.item.last_chunk

NextItem(c) ==
  IF c.p = -1 THEN c
  ELSE IF c.err # "OK" THEN c
  ELSE ccpcp_unpack_context_update_container_state(BySchema([c EXCEPT !.item = NoItem], c.p))
cchainpack_unpack_next(c) ==
  IF c.err # "OK" THEN c
  ELSE IF InString(c) THEN unpack_string(c)
  ELSE NextItem(ccpcp_unpack_take_byte(c))
=============================================================================
