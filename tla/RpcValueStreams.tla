--------------------------- MODULE RpcValueStreams ---------------------------
(***************************************************************************)
(* Whole values: the C++ writers (chainpackwriter.cpp, cponwriter.cpp) and *)
(* readers (chainpackreader.cpp, cponreader.cpp) and ccpcp_convert(),      *)
(* which copies a value from one format to the other item by item without  *)
(* building it.                                                            *)
(***************************************************************************)
EXTENDS RpcValue

IsCpon(c) == c.fmt = "Cpon"

(***************************************************************************)
(* Items in the format of the context.                                     *)
(***************************************************************************)
packBegin(c, type) ==
  IF IsCpon(c) THEN ccpon_pack_begin(c, type)
  ELSE Byte(c, CASE type = "LIST" -> CP_List [] type = "MAP" -> CP_Map
                 [] type = "IMAP" -> CP_IMap [] type = "META" -> CP_MetaMap)
packEnd(c, type, oneliner) ==
  IF IsCpon(c) THEN ccpon_pack_end(c, type, oneliner) ELSE Byte(c, CP_TERM)

packScalar(c, t, d) ==
  IF IsCpon(c)
  THEN CASE t = "null"     -> Copy(c, NullText)
         [] t = "bool"     -> Copy(c, IF d[1] = 1 THEN TrueText ELSE FalseText)
         [] t = "uint"     -> ccpon_pack_uint(c, ToInt(d))
         [] t = "int"      -> ccpon_pack_int(c, ToSigned(d))
         [] t = "double"   -> ccpon_pack_double(c, d)
         [] t = "decimal"  -> ccpon_pack_decimal(c, ToSigned(Tail(d)), d[1])
         [] t = "datetime" -> ccpon_pack_date_time(c, d)
         [] t = "blob"     -> ccpon_pack_blob(c, d)
         [] t = "string"   -> ccpon_pack_string(c, d)
  ELSE CASE t = "null"     -> Byte(c, CP_Null)
         [] t = "bool"     -> Byte(c, IF d[1] = 1 THEN CP_TRUE ELSE CP_FALSE)
         [] t = "uint"     -> cchainpack_pack_uint(c, d)
         [] t = "int"      -> cchainpack_pack_int(c, d)
         [] t = "double"   -> cchainpack_pack_double(c, d)
         [] t = "decimal"  -> cchainpack_pack_decimal(c, d)
         [] t = "datetime" -> cchainpack_pack_date_time(c, d)
         [] t = "blob"     -> cchainpack_pack_string(c, CP_Blob, d)
         [] t = "string"   -> cchainpack_pack_string(c, CP_String, d)

(***************************************************************************)
(* Writing a value.                                                        *)
(***************************************************************************)
\* A short container of scalars goes on one line (CponWriter).
OneLine(es, max) ==
  Len(es) <= max /\ \A i \in DOMAIN es : es[i][2].t \notin {"map", "imap", "list"}

ItemType(t) == CASE t = "list" -> "LIST" [] t = "map" -> "MAP" [] t = "imap" -> "IMAP"
                 [] t = "meta" -> "META"

RECURSIVE write(_, _)
\* Cpon delimits elements, and a key from its value; ChainPack does not.
delim(c, first, oneliner) == IF IsCpon(c) THEN ccpon_pack_field_delim(c, first, oneliner) ELSE c
keyDelim(c) == IF IsCpon(c) THEN ccpon_pack_key_val_delim(c) ELSE c
writeElement(c, kv, first, oneliner) ==
  IF kv[1].t = "null" THEN write(delim(c, first, oneliner), kv[2])
  ELSE write(keyDelim(packScalar(delim(c, first, oneliner), kv[1].t, kv[1].d)), kv[2])
writeContainer(c, type, es, oneliner) ==
  packEnd(FoldLeft(LAMBDA k, i : writeElement(k, es[i], i = 1, oneliner),
                   packBegin(c, type), [i \in DOMAIN es |-> i]),
          type, oneliner)
writeMeta(c, m) == IF m = <<>> THEN c ELSE writeContainer(c, "META", m, OneLine(m, 5))
writeValue(c, v) ==
  IF v.t \in {"list", "map", "imap"}
  THEN writeContainer(c, ItemType(v.t), v.e, OneLine(v.e, IF v.t = "list" THEN 10 ELSE 5))
  ELSE packScalar(c, IF v.t = "invalid" THEN "null" ELSE v.t, v.d)
write(c, v) == writeValue(writeMeta(c, v.m), v)

(***************************************************************************)
(* Reading a value.  A parse exception is an error of the context.         *)
(***************************************************************************)
unpackNext(c) == IF IsCpon(c) THEN ccpon_unpack_next(c) ELSE cchainpack_unpack_next(c)

Result(c, v) == [c |-> c, v |-> v]

\* The key a container uses for a key value: a string for a map, an int for
\* an imap, both for meta data.
KeyOf(type, k) ==
  IF type = "list" THEN Null
  ELSE IF type = "map" \/ (type = "meta" /\ k.t = "string") THEN StringKey(asString(k))
  ELSE IntKey(toInt(k))
\* A map keeps an invalid value, meta data do not.
SetEntry(type, es, k, v) ==
  IF type = "meta" THEN setValue(es, k, v) ELSE insert_or_assign(es, k, v)

RECURSIVE read(_), parseEntries(_, _, _), readChunks(_, _)
readChunks(c, acc) ==
  IF c.err # "OK" THEN Result(c, Invalid)
  ELSE IF c.item.last_chunk
       THEN Result(c, Val(IF c.item.type = "BLOB" THEN "blob" ELSE "string", acc \o c.item.chunk))
  ELSE readChunks(unpackNext(c), acc \o c.item.chunk)

\* After the end of the container the item is invalid, so that an enclosing
\* container does not take it for its own end.
Closed(c) == [c EXCEPT !.item.type = "INVALID"]
afterValue(type, key, r, es) ==
  IF r.c.err # "OK" THEN Result(r.c, es)
  ELSE parseEntries(type, r.c, SetEntry(type, es, KeyOf(type, key), r.v))
afterKey(type, r, es) ==
  IF r.c.err # "OK" THEN Result(r.c, es)
  ELSE IF r.c.item.type = "CONTAINER_END" THEN Result(Closed(r.c), es)
  ELSE IF type = "list" THEN parseEntries(type, r.c, Append(es, <<Null, r.v>>))
  ELSE afterValue(type, r.v, read(r.c), es)
parseEntries(type, c, es) == afterKey(type, read(c), es)

Container(t, r) == Result(r.c, [Val(t, <<>>) EXCEPT !.e = IF r.c.err = "OK" THEN r.v ELSE <<>>])
readItem(c) ==
  CASE c.err # "OK"              -> Result(c, Invalid)
    [] c.item.type = "LIST"      -> Container("list", parseEntries("list", c, <<>>))
    [] c.item.type = "MAP"       -> Container("map", parseEntries("map", c, <<>>))
    [] c.item.type = "IMAP"      -> Container("imap", parseEntries("imap", c, <<>>))
    [] c.item.type \in {"CONTAINER_END", "INVALID"} -> Result(c, Invalid)
    [] c.item.type = "NULL"      -> Result(c, Null)
    [] c.item.type \in {"STRING", "BLOB"} -> readChunks(c, <<>>)
    [] c.item.type = "BOOLEAN"   -> Result(c, Val("bool", c.item.d))
    [] c.item.type = "INT"       -> Result(c, Val("int", c.item.d))
    [] c.item.type = "UINT"      -> Result(c, Val("uint", c.item.d))
    [] c.item.type = "DECIMAL"   -> Result(c, Val("decimal", c.item.d))
    [] c.item.type = "DOUBLE"    -> Result(c, Val("double", c.item.d))
    [] c.item.type = "DATE_TIME" -> Result(c, Val("datetime", c.item.d))
    [] OTHER                     -> Result([c EXCEPT !.err = "PARSE"], Invalid)

withMeta(r, md) ==
  IF md = <<>> \/ r.c.err # "OK" THEN r
  ELSE IF r.v.t = "invalid" THEN Result([r.c EXCEPT !.err = "PARSE"], Invalid)
  ELSE Result(r.c, [r.v EXCEPT !.m = md])

\* Cpon looks for the bracket behind what is insignificant and steps back
\* whatever it found; an error there is noticed at the next item.
CponMeta(c) ==
  IF c.p = 60 THEN parseEntries("meta", ccpon_unpack_next(Unget(c)), <<>>)
  ELSE Result(Unget(c), <<>>)
readMeta(c) ==
  IF IsCpon(c) THEN CponMeta(ccpon_unpack_skip_insignificant(c))
  ELSE IF ccpcp_unpack_peek_byte(c) = CP_MetaMap
       THEN parseEntries("meta", cchainpack_unpack_next(c), <<>>)
  ELSE Result(c, <<>>)
afterMeta(r) ==
  IF r.c.err # "OK" THEN Result(r.c, Invalid)
  ELSE withMeta(readItem(unpackNext(r.c)), r.v)
read(c) == afterMeta(readMeta(c))

(***************************************************************************)
(* ChainPackReader::readPath(): the value a path of keys leads to; what is *)
(* beside the path is skipped.                                             *)
(***************************************************************************)
NotFound(c) == [c |-> c, found |-> FALSE, v |-> Invalid]
Found(r) == [c |-> r.c, found |-> TRUE, v |-> r.v]
RECURSIVE PathStep(_, _), Search(_, _, _, _)
skipped(r, type, keys, ix) ==
  IF r.c.err # "OK" THEN NotFound(r.c) ELSE Search(r.c, type, keys, ix + 1)
\* Behind the key k, or at the element of a list with that index.
atElement(c, k, type, keys, ix) ==
  IF c.err # "OK" THEN NotFound(c)
  ELSE IF k = Head(keys) THEN PathStep(c, Tail(keys))
  ELSE skipped(read(c), type, keys, ix)
behindKey(r, type, keys, ix) ==
  atElement(r.c, IF type = "MAP" THEN StringKey(asString(r.v)) ELSE IntKey(toInt(r.v)), type, keys, ix)
Search(c, type, keys, ix) ==
  IF ccpcp_unpack_peek_byte(c) \in {-1, CP_TERM} THEN NotFound(c)
  ELSE IF type = "LIST" THEN atElement(c, IntKey(ix), type, keys, ix)
  ELSE behindKey(read(c), type, keys, ix)
intoContainer(c, keys) ==
  IF c.err # "OK" \/ c.item.type \notin {"MAP", "IMAP", "LIST"} THEN NotFound(c)
  ELSE Search(c, c.item.type, keys, 0)
behindMeta(md, keys) ==
  IF md.c.err # "OK" THEN NotFound(md.c) ELSE intoContainer(unpackNext(md.c), keys)
PathStep(c, keys) == IF keys = <<>> THEN Found(read(c)) ELSE behindMeta(readMeta(c), keys)
readPath(c, keys) == PathStep(c, keys)

(***************************************************************************)
(* ccpcp_convert(): in and out contexts, metaClosed its local variable.    *)
(***************************************************************************)
\* The state of the container the item is in: of its parent when the item
\* opened a container, of the closed one when it ended it.
CurrentState(before, after) ==
  IF before.stack = <<>> THEN [type |-> "NONE", count |-> 0]
  ELSE IF Len(after.stack) < Len(before.stack) THEN Top(before)
  ELSE after.stack[Len(before.stack)]

\* The delimiter before an item; later chunks of a string get none.
convertDelim(o, state, item, metaClosed) ==
  IF ~IsCpon(o) \/ state.type = "NONE" \/ metaClosed \/ item.type = "CONTAINER_END"
       \/ (item.type = "STRING" /\ item.chunk_cnt > 1) THEN o
  ELSE IF state.type # "LIST" /\ state.count % 2 = 0 THEN ccpon_pack_key_val_delim(o)
  ELSE ccpon_pack_field_delim(o, state.count = 1, FALSE)

ScalarType(type) == CASE type = "NULL" -> "null" [] type = "BOOLEAN" -> "bool" [] type = "INT" -> "int"
                      [] type = "UINT" -> "uint" [] type = "DECIMAL" -> "decimal"
                      [] type = "DOUBLE" -> "double" [] type = "DATE_TIME" -> "datetime"

\* Strings and blobs.  A string in several chunks keeps its length when it is
\* known, where the code passes string_size bytes of a chunk that may be
\* shorter; else it becomes a C string; there is no such blob.
cponText(o, it) ==
  LET k == IF it.type = "BLOB"
           THEN (IF it.chunk_cnt = 1 THEN ccpon_pack_blob_start(o, it.chunk)
                 ELSE copy_blob_escaped(o, it.chunk))
           ELSE (IF it.chunk_cnt = 1 THEN ccpon_pack_string_start(o, it.chunk)
                 ELSE copy_data_escaped(o, it.chunk))
  IN IF it.last_chunk THEN CopyByte(k, QUOTE) ELSE k
\* The bytes behind the chunk in its buffer are whatever they are.
Beyond(chunk, size) == chunk \o [i \in 1..(size - Len(chunk)) |-> 0]
chainpackText(o, it) ==
  LET schema == IF it.type = "BLOB" THEN CP_Blob ELSE CP_String
  IN IF it.chunk_cnt = 1 /\ it.last_chunk THEN cchainpack_pack_string(o, schema, it.chunk)
     ELSE IF it.string_size >= 0
          THEN IF it.chunk_cnt = 1
               THEN cchainpack_pack_string_start(o, schema, it.string_size,
                                                 Beyond(it.chunk, it.string_size))
               ELSE ccpcp_pack_copy_bytes(o, it.chunk)
     ELSE IF it.type = "BLOB" THEN o
     ELSE LET k == copy_bytes_cstring(IF it.chunk_cnt = 1 THEN ccpcp_pack_copy_byte(o, CP_CString)
                                      ELSE o, it.chunk)
          IN IF it.last_chunk THEN ccpcp_pack_copy_byte(k, 0) ELSE k

convertItem(o, it, state) ==
  CASE it.type = "INVALID"       -> o
    [] it.type \in Containers    -> packBegin(o, it.type)
    [] it.type = "CONTAINER_END" -> packEnd(o, state.type, FALSE)
    [] it.type \in {"STRING", "BLOB"} -> IF IsCpon(o) THEN cponText(o, it) ELSE chainpackText(o, it)
    [] OTHER -> packScalar(o, ScalarType(it.type), it.d)

\* One object is taken: not in the middle of a text, not after its meta data.
MoreToCome(c, metaClosed) == c.stack # <<>> \/ metaClosed \/ InString(c)

RECURSIVE convertLoop(_, _, _)
convertNext(i, o, state, metaClosed) ==
  IF i.err # "OK" THEN [in |-> i, out |-> o]
  ELSE IF i.item.type = "CONTAINER_END" /\ state.type = "NONE"
       THEN [in |-> [i EXCEPT !.err = "STACK_UNDERFLOW"], out |-> o]
  ELSE LET closed == i.item.type = "CONTAINER_END" /\ state.type = "META"
           k == convertItem(convertDelim(o, state, i.item, metaClosed), i.item, state)
       IN IF k.err # "OK" \/ ~MoreToCome(i, closed) THEN [in |-> i, out |-> k]
          ELSE convertLoop(i, k, closed)
afterUnpack(before, after, o, metaClosed) ==
  convertNext(after, o, CurrentState(before, after), metaClosed)
convertLoop(i, o, metaClosed) == afterUnpack(i, unpackNext(i), o, metaClosed)

ccpcp_convert(i, o) ==
  IF i.capacity = 0 THEN [in |-> [i EXCEPT !.err = "LOGICAL"], out |-> o]
  ELSE convertLoop(i, o, FALSE)
=============================================================================
