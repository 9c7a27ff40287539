------------------------------ MODULE RpcValue ------------------------------
(***************************************************************************)
(* RpcValue (libshvchainpack/src/rpcvalue.cpp): what the accessors and the *)
(* operators of a value return, over the value records of module ChainPack.*)
(* A decimal number is worked with as [m, e], a double as the record       *)
(* module Cpon describes.                                                  *)
(***************************************************************************)
EXTENDS Cpon

(***************************************************************************)
(* Constructors and meta data.  m holds the int keys before the strings.   *)
(***************************************************************************)
Zero(t) == CASE t = "bool" -> <<0>> [] t = "int" -> <<0>> [] t = "double" -> [i \in 1..8 |-> 0]
             [] t = "decimal" -> <<0, 0>> [] t = "datetime" -> <<0, 0, 0>> [] OTHER -> <<>>
fromType(t) == Val(t, Zero(t))

\* The order of std::map: numbers by value, strings byte by byte.
RECURSIVE BytesLess(_, _)
BytesLess(a, b) ==
  b # <<>> /\ (a = <<>> \/ Head(a) < Head(b) \/ (Head(a) = Head(b) /\ BytesLess(Tail(a), Tail(b))))
KeyLess(a, b) ==
  IF a.t # b.t THEN a.t = "int"
  ELSE IF a.t = "int" THEN ToSigned(a.d) < ToSigned(b.d) ELSE BytesLess(a.d, b.d)

IndexOfKey(es, k) == IF \E i \in DOMAIN es : es[i][1] = k
                     THEN CHOOSE i \in DOMAIN es : es[i][1] = k ELSE 0
value(es, k, default) == LET i == IndexOfKey(es, k) IN IF i = 0 THEN default ELSE es[i][2]
hasKey(es, k) == IndexOfKey(es, k) # 0

\* map[key] = val, and setValue(), where an invalid value erases the key.
insert_or_assign(es, k, v) ==
  IF hasKey(es, k) THEN [es EXCEPT ![IndexOfKey(es, k)] = <<k, v>>]
  ELSE LET before == SelectSeq(es, LAMBDA kv : KeyLess(kv[1], k))
       IN before \o <<<<k, v>>>> \o SubSeq(es, Len(before) + 1, Len(es))
setValue(es, k, v) ==
  IF v.t # "invalid" THEN insert_or_assign(es, k, v)
  ELSE SelectSeq(es, LAMBDA kv : kv[1] # k)

\* RpcMap::take()
take(es, k, default) == [v |-> value(es, k, default), es |-> setValue(es, k, Invalid)]

metaValue(v, k, default) == value(v.m, k, default)

\* The exception leaves the value as it is.
setMetaValue(v, k, x) == IF v.t = "invalid" THEN v ELSE [v EXCEPT !.m = setValue(@, k, x)]
takeMeta(v) == [v EXCEPT !.m = <<>>]

(***************************************************************************)
(* Numbers.                                                                *)
(***************************************************************************)
Dec(m, e) == [m |-> m, e |-> e]
toDecimal(v) == IF v.t = "decimal" THEN Dec(ToSigned(Tail(v.d)), v.d[1]) ELSE Dec(0, 0)

RECURSIVE normalize(_)
normalize(x) == IF x.m = 0 THEN Dec(0, 0)
                ELSE IF Abs(x.m) % 10 = 0 THEN normalize(Dec(TruncDiv(x.m, 10), x.e + 1))
                ELSE x

RECURSIVE Divided(_, _)
Divided(m, n) == IF n = 0 THEN m ELSE Divided(TruncDiv(m, 10), n - 1)

\* pow10() knows nine powers, safeMul() notices an overflow.
Scalable(m, n) == n <= 8 /\ Abs(m) <= IntMax \div 10^n
setDecPlaces(x, places) ==
  IF x.e > -places
  THEN IF Scalable(x.m, x.e + places) THEN Dec(x.m * 10^(x.e + places), -places) ELSE x
  ELSE Dec(Divided(x.m, -places - x.e), -places)

\* A double keeps seven digits here; those of m * 10^e.
RECURSIVE Seven(_, _)
Seven(n, e) == IF n >= 10000000 THEN Seven(n \div 10, e + 1)
               ELSE IF n < 1000000 THEN Seven(n * 10, e - 1)
               ELSE [digits |-> n, exp |-> e + 6]
toDouble(x) ==
  IF x.m = 0 THEN [neg |-> FALSE, digits |-> 0, exp |-> 0]
  ELSE [neg |-> x.m < 0] @@ Seven(Abs(x.m), x.e)

Sign(n) == IF n < 0 THEN -1 ELSE IF n > 0 THEN 1 ELSE 0
CompareDoubles(f, g) ==
  LET s(x) == IF x.digits = 0 THEN 0 ELSE IF x.neg THEN -1 ELSE 1
  IN IF s(f) # s(g) \/ s(f) = 0 THEN Sign(s(f) - s(g))
     ELSE s(f) * Sign(IF f.exp # g.exp THEN f.exp - g.exp ELSE f.digits - g.digits)

\* operator<=>: -1, 0 or 1.
CompareNormal(a, b) ==
  IF a.e >= b.e
  THEN IF Scalable(a.m, a.e - b.e) THEN Sign(a.m * 10^(a.e - b.e) - b.m)
       ELSE CompareDoubles(toDouble(a), toDouble(b))
  ELSE IF Scalable(b.m, b.e - a.e) THEN Sign(a.m - b.m * 10^(b.e - a.e))
       ELSE CompareDoubles(toDouble(a), toDouble(b))
CompareDecimals(a, b) == CompareNormal(normalize(a), normalize(b))

\* The slip of comparing mantissas whatever the exponents are.
CompareMantissas(a, b) == Sign(a.m - b.m)

Arithmetic == {"bool", "int", "uint", "double"}
AsDecimal(v) ==
  CASE v.t = "bool" -> Dec(v.d[1], 0)
    [] v.t = "int"  -> Dec(ToSigned(v.d), 0)
    [] v.t = "uint" -> Dec(ToInt(v.d), 0)
    [] v.t = "double" -> LET f == DoubleDigits[v.d]
                         IN Dec(IF f.neg THEN -f.digits ELSE f.digits, f.exp - 6)
AsDouble(v) == IF v.t = "double" THEN DoubleDigits[v.d] ELSE toDouble(AsDecimal(v))

\* The whole part of m * 10^e, within the limits of an int.
Whole(x) == IF x.e < 0 THEN Divided(x.m, -x.e)
            ELSE IF Scalable(x.m, x.e) THEN x.m * 10^x.e
            ELSE IF x.m < 0 THEN -IntMax - 1 ELSE IntMax
toInt(v) ==
  CASE v.t \in {"int", "uint", "double"} -> Whole(AsDecimal(v))
    [] v.t = "decimal"  -> Whole(toDecimal(v))
    [] v.t = "datetime" -> v.d[1] * 1000 + v.d[2]
    [] OTHER            -> 0
toBool(v) ==
  CASE v.t = "datetime" -> v.d[1] # 0 \/ v.d[2] # 0
    [] v.t = "decimal"  -> toDecimal(v).m # 0
    [] v.t \in Arithmetic -> AsDecimal(v).m # 0
    [] OTHER            -> FALSE
asString(v) == IF v.t = "string" THEN v.d ELSE <<>>
toString(v) == IF v.t \in {"string", "blob"} THEN v.d ELSE <<>>

isDefaultValue(v) ==
  CASE v.t \in {"invalid", "null"} -> TRUE
    [] v.t \in {"string", "blob"} -> v.d = <<>>
    [] v.t \in {"list", "map", "imap"} -> v.e = <<>>
    [] OTHER -> ~toBool(v)

(***************************************************************************)
(* Containers.                                                             *)
(***************************************************************************)
IntKey(n) == Val("int", Signed(n))
StringKey(s) == Val("string", s)
KeyType(v) == CASE v.t = "map" -> "string" [] v.t = "imap" -> "int" [] OTHER -> "none"

count(v) == IF v.t \in {"list", "map", "imap"} THEN Len(v.e) ELSE 0
at(v, ix, default) ==
  IF v.t = "list"
  THEN LET i == IF ix < 0 THEN Len(v.e) + ix ELSE ix
       IN IF i < 0 \/ i >= Len(v.e) THEN default ELSE v.e[i + 1][2]
  ELSE IF v.t = "imap" THEN value(v.e, IntKey(ix), default)
  ELSE default
atKey(v, key, default) == IF v.t = "map" THEN value(v.e, key, default) ELSE default
has(v, key) == key.t = KeyType(v) /\ hasKey(v.e, key)

\* Not a container of that kind of key: an error is logged, nothing changes.
set(v, key, x) == IF key.t = KeyType(v) THEN [v EXCEPT !.e = setValue(@, key, x)] ELSE v
append(v, x) == IF v.t = "list" THEN [v EXCEPT !.e = Append(@, <<Null, x>>)] ELSE v

\* RpcValueGenList: a value that is no list is a list of one.
toList(v) == IF v.t = "list" THEN v.e ELSE IF v.t = "invalid" THEN <<>> ELSE <<<<Null, v>>>>

(***************************************************************************)
(* operator==.  Meta data are not compared.                                *)
(***************************************************************************)
RECURSIVE Equal(_, _)
SameType(x, y) ==
  CASE x.t \in {"list", "map", "imap"} ->
         /\ Len(x.e) = Len(y.e)
         /\ \A i \in DOMAIN x.e : x.e[i][1] = y.e[i][1] /\ Equal(x.e[i][2], y.e[i][2])
    [] x.t = "decimal"  -> CompareDecimals(toDecimal(x), toDecimal(y)) = 0
    [] x.t = "datetime" -> x.d[1] = y.d[1] /\ x.d[2] = y.d[2]
    [] OTHER            -> x.d = y.d
Equal(x, y) ==
  IF x.t = y.t THEN SameType(x, y)
  ELSE IF x.t \in Arithmetic /\ y.t \in Arithmetic
       THEN IF "double" \in {x.t, y.t} THEN AsDouble(x) = AsDouble(y)
            ELSE IF "bool" \in {x.t, y.t} THEN toBool(x) = toBool(y)
            ELSE AsDecimal(x) = AsDecimal(y)
  ELSE /\ {x.t, y.t} = {"double", "decimal"}
       /\ (IF x.t = "double" THEN AsDouble(x) ELSE toDouble(toDecimal(x)))
            = (IF y.t = "double" THEN AsDouble(y) ELSE toDouble(toDecimal(y)))

(***************************************************************************)
(* RpcDateTime.  The time zone is a signed number of 7 bits, in quarters   *)
(* of an hour.                                                             *)
(***************************************************************************)
Signed7(n) == LET k == n % 128 IN IF k >= 64 THEN k - 128 ELSE k
fromMSecsSinceEpoch(sec, ms, utc_offset_min) ==
  <<sec, ms, 15 * Signed7(TruncDiv(utc_offset_min, 15))>>
fromIsoString(text) ==
  LET c == ccpon_unpack_date_time(ccpcp_unpack_context_init("Cpon", text, 0, 256))
  IN IF text = <<>> \/ c.err # "OK" THEN Zero("datetime")
     ELSE fromMSecsSinceEpoch(c.item.d[1], c.item.d[2], c.item.d[3])
toIsoString(d) ==
  Output(ccpon_pack_date_time_str(ccpcp_pack_context_init("Cpon", "fixed", 32), d))

toParts(d) ==
  LET tm == ccpon_gmtime(WholeSeconds(d) + 60 * d[3])
  IN [tm EXCEPT !.mon = @ + 1] @@ [msec |-> IF d[1] < 0 /\ d[2] > 0 THEN d[2] - 1000 ELSE d[2]]
PartsValid(p) ==
  /\ p.year >= 1970 /\ p.mon \in 1..12 /\ p.mday \in 1..31
  /\ p.hour \in 0..59 /\ p.min \in 0..59 /\ p.sec \in 0..59 /\ p.msec \in 0..999
fromParts(p) ==
  IF PartsValid(p)
  THEN fromMSecsSinceEpoch(ccpon_timegm([p EXCEPT !.mon = @ - 1]), p.msec, 0)
  ELSE Zero("datetime")
=============================================================================
