------------------------------- MODULE Ccpcp -------------------------------
(***************************************************************************)
(* The two contexts every ChainPack and Cpon writer and reader works on    *)
(* (libshvchainpack/c/ccpcp.c) and their C++ stream adaptors               *)
(* (abstractstreamwriter.cpp, abstractstreamreader.cpp).                   *)
(*                                                                         *)
(* Bytes are the numbers 0..255, a text is a sequence of bytes.  A pack    *)
(* context is a record; its kind tells how it was initialised:             *)
(*   dry     no buffer, only bytes_written is counted                      *)
(*   fixed   a buffer of cap bytes and no overflow handler                 *)
(*   stream  a buffer of cap bytes that the overflow handler empties       *)
(* and fmt is the format a reader or writer makes of it.                   *)
(* An unpack context is a record with the input, the current position, the *)
(* last item and the container stack (capacity 0: no stack).               *)
(***************************************************************************)
EXTENDS Integers, Sequences

(***************************************************************************)
(* Packing.                                                                *)
(***************************************************************************)

ccpcp_pack_context_init(fmt, kind, cap) ==
  [fmt |-> fmt, kind |-> kind, cap |-> cap, buf |-> <<>>, out |-> <<>>, err |-> "OK",
   bytes_written |-> 0, nest_count |-> 0, indent |-> FALSE]

\* AbstractStreamWriter's overflow handler, also its flush(): the buffer goes
\* to the stream and is empty again.
pack_overflow_handler(c) == [c EXCEPT !.out = @ \o c.buf, !.buf = <<>>]

FreeSpace(c) == c.cap - Len(c.buf)

\* Makes room for size_hint bytes; less room is good enough for a stream.
ccpcp_pack_make_space(c, size_hint) ==
  IF c.err # "OK" \/ FreeSpace(c) >= size_hint THEN c
  ELSE IF c.kind = "stream" /\ c.cap > 0 THEN pack_overflow_handler(c)
  ELSE [c EXCEPT !.err = "OVERFLOW"]

\* ccpcp_pack_reserve_space() and the assignment that follows it.
Put(c, b) ==
  IF c.err # "OK" THEN c
  ELSE IF FreeSpace(c) < 1 THEN [c EXCEPT !.err = "OVERFLOW"]
  ELSE [c EXCEPT !.buf = Append(@, b)]

Written(c, n) == [c EXCEPT !.bytes_written = @ + n]

ccpcp_pack_copy_byte(c, b) ==
  IF c.kind = "dry" THEN Written(c, 1)
  ELSE Put(ccpcp_pack_make_space(Written(c, 1), 1), b)

\* One round of the loop of ccpcp_pack_copy_bytes(): every round asks for the
\* whole length again.
RECURSIVE CopyRest(_, _, _)
CopySome(c, bs, len) ==
  IF FreeSpace(c) = 0 \/ c.err # "OK" THEN [c EXCEPT !.err = "OVERFLOW"]
  ELSE IF Len(bs) <= FreeSpace(c) THEN [c EXCEPT !.buf = @ \o bs]
  ELSE CopyRest([c EXCEPT !.buf = @ \o SubSeq(bs, 1, FreeSpace(c))],
                SubSeq(bs, FreeSpace(c) + 1, Len(bs)), len)
CopyRest(c, bs, len) ==
  IF c.err # "OK" \/ bs = <<>> THEN c
  ELSE CopySome(ccpcp_pack_make_space(c, len), bs, len)

ccpcp_pack_copy_bytes(c, bs) ==
  IF c.kind = "dry" THEN Written(c, Len(bs))
  ELSE CopyRest(Written(c, Len(bs)), bs, Len(bs))

\* What has been written, on the stream or in the buffer.
Output(c) == c.out \o c.buf

(***************************************************************************)
(* Unpacking.                                                              *)
(***************************************************************************)

\* An item that is not a string keeps its value in d; a string is delivered
\* in chunks of at most chunk_len bytes.
NoItem == [type |-> "INVALID", d |-> <<>>, string_size |-> -1, size_to_load |-> -1,
           chunk |-> <<>>, chunk_cnt |-> 0, last_chunk |-> FALSE, blob_hex |-> FALSE]

ccpcp_unpack_context_init(fmt, bytes, capacity, chunk_len) ==
  [fmt |-> fmt, in |-> bytes, pos |-> 1, err |-> "OK", item |-> NoItem, p |-> -1,
   stack |-> <<>>, capacity |-> capacity, chunk_len |-> chunk_len, bitlen |-> 0]

Fail(c, e) == [c EXCEPT !.err = e, !.item.type = "INVALID"]

\* ccpcp_unpack_take_byte(): p is the byte or -1 at the end of the input.
ccpcp_unpack_take_byte(c) ==
  IF c.pos > Len(c.in) THEN [c EXCEPT !.err = "UNDERFLOW", !.p = -1]
  ELSE [c EXCEPT !.p = c.in[c.pos], !.pos = @ + 1]

\* n bytes taken one after the other into item.chunk; the first that is
\* missing ends the loop.
TakeBytes(c, n) ==
  IF c.pos + n - 1 <= Len(c.in)
  THEN [c EXCEPT !.item.chunk = SubSeq(c.in, c.pos, c.pos + n - 1), !.pos = @ + n, !.p = 0]
  ELSE [c EXCEPT !.err = "UNDERFLOW", !.p = -1, !.pos = Len(c.in) + 1]

ccpcp_unpack_peek_byte(c) == IF c.pos > Len(c.in) THEN -1 ELSE c.in[c.pos]

ccpcp_string_init(c, type) ==
  [c EXCEPT !.item = [NoItem EXCEPT !.type = type]]

Containers == {"LIST", "MAP", "IMAP", "META"}

\* A stack of n states holds n - 1 containers.
ccpcp_unpack_context_push_container_state(c, type) ==
  IF c.capacity = 0 THEN c
  ELSE IF Len(c.stack) < c.capacity - 1
       THEN [c EXCEPT !.stack = Append(@, [type |-> type, count |-> 0])]
       ELSE [c EXCEPT !.err = "STACK_OVERFLOW"]

Top(c) == c.stack[Len(c.stack)]

\* The end of a container pops it; a closed meta does not count as an item of
\* the container it is in.
PopContainer(c) ==
  LET n == Len(c.stack)
  IN IF n = 0 THEN c
     ELSE IF n > 1 /\ Top(c).type = "META"
          THEN [c EXCEPT !.stack = [SubSeq(@, 1, n - 1) EXCEPT ![n - 1].count = @ - 1]]
          ELSE [c EXCEPT !.stack = SubSeq(@, 1, n - 1)]

ccpcp_unpack_context_update_container_state(c) ==
  IF c.item.type = "CONTAINER_END" THEN PopContainer(c)
  ELSE LET counted == IF c.stack = <<>> THEN c
                      ELSE [c EXCEPT !.stack[Len(c.stack)].count = @ + 1]
       IN IF c.item.type \in Containers
          THEN ccpcp_unpack_context_push_container_state(counted, c.item.type)
          ELSE counted

(***************************************************************************)
(* Decimal numbers as text.                                                *)
(***************************************************************************)
RECURSIVE Digits(_)
Digits(n) == IF n < 10 THEN <<48 + n>> ELSE Digits(n \div 10) \o <<48 + (n % 10)>>

Abs(n) == IF n < 0 THEN -n ELSE n
int_to_str(n) == IF n < 0 THEN <<45>> \o Digits(-n) ELSE Digits(n)

Zeros(n) == [i \in 1..n |-> 48]

\* The text of mantissa * 10^exponent: with a dot where that is short, else
\* with an exponent; a whole number ends with a dot to stay a Decimal.
PlaceDot(s, exponent) ==
  LET n == Len(s)
      decPlaces == IF exponent < 0 THEN -exponent ELSE 0
  IN IF decPlaces > 0 /\ decPlaces < n
     THEN SubSeq(s, 1, n - decPlaces) \o <<46>> \o SubSeq(s, n - decPlaces + 1, n)
     ELSE IF decPlaces > 0 /\ decPlaces <= 3 THEN <<48, 46>> \o Zeros(decPlaces - n) \o s
     ELSE IF exponent > 0 /\ n + exponent <= 9 THEN s \o Zeros(exponent) \o <<46>>
     ELSE IF exponent = 0 THEN Append(s, 46)
     ELSE s \o <<101>> \o int_to_str(exponent)

ccpcp_decimal_to_string(mantissa, exponent) ==
  (IF mantissa < 0 THEN <<45>> ELSE <<>>) \o PlaceDot(Digits(Abs(mantissa)), exponent)
=============================================================================
