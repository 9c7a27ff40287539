------------------------------- MODULE Codec -------------------------------
(***************************************************************************)
(* The life of a value on its way through libshvchainpack: a program       *)
(* builds it with the setters of RpcValue, hands out a copy (copies share  *)
(* their content until one of them is changed, CowPtr), goes on changing   *)
(* its own, while the copy is written in one of the formats into a buffer  *)
(* of any size, may be cut off, may be converted to another format by the tool    *)
(* in C or by that in D, and is read; what was read may be sent on.  The   *)
(* bytes on the wire may also come from anybody else.                      *)
(*                                                                         *)
(* Values    the values a program starts from                              *)
(* Changes   changes it makes, <<name, key, value>>, at most MaxChanges    *)
(* Foreign   byte strings that were not written here, with their format    *)
(* Caps      sizes of the buffer                                           *)
(* Chunks    sizes of the buffer a reader has for strings                  *)
(***************************************************************************)
EXTENDS FormatsInD
CONSTANTS Values, Changes, MaxChanges, Foreign, Caps, Chunks, ConvertChunks

ASSUME CodecAssumption == MaxChanges \in Nat /\ \A n \in Chunks \cup ConvertChunks : n > 0

VARIABLES
  rv,        \* the RpcValue objects "mine" and "sent": type, data and two CowPtrs
  heap,      \* the shared blocks: elements of containers, meta data
  changes,   \* changes made so far
  phase,     \* where the value is, see the actions
  wire,      \* the bytes and the context that wrote them
  hops,      \* formats the value went through, and "D" for the tool in D
  snapshot,  \* the value that was sent
  got        \* the value that was read

vars == <<rv, heap, changes, phase, wire, hops, snapshot, got>>

(***************************************************************************)
(* Values with CowPtrs.  0 is the null pointer.                            *)
(***************************************************************************)
NoBlock == <<>>
IsContainer(t) == t \in {"list", "map", "imap"}
Objects == {"mine", "sent"}
NoObject == [t |-> "invalid", d |-> <<>>, e |-> 0, m |-> 0]

\* What an object means.
Content(o, h) == [t |-> o.t, d |-> o.d, e |-> IF o.e = 0 THEN <<>> ELSE h[o.e],
                  m |-> IF o.m = 0 THEN <<>> ELSE h[o.m]]
use_count(b) == Cardinality({x \in Objects : b \in {rv[x].e, rv[x].m}})
Free == {b \in DOMAIN heap : use_count(b) = 0}
OneFree == CHOOSE b \in Free : TRUE

\* A new value: make_shared for its content.
Fresh(v) == [t |-> v.t, d |-> v.d, e |-> IF IsContainer(v.t) THEN 1 ELSE 0,
             m |-> IF v.m # <<>> THEN 2 ELSE 0]
FreshHeap(v) == [b \in 1..6 |-> IF b = 1 /\ IsContainer(v.t) THEN v.e
                                ELSE IF b = 2 THEN v.m ELSE NoBlock]

\* CowPtr::detach(): the block to write to.
\* (detachNever is the slip of writing through the pointer.)
detachNever(b) == b
detach(b) == IF use_count(b) = 1 THEN b ELSE OneFree

\* A write through the non-const operator of the CowPtr in field f.
WriteThrough(b, f, es) ==
  /\ rv' = [rv EXCEPT !.mine[f] = b]
  /\ heap' = [heap EXCEPT ![b] = es]

(***************************************************************************)
(* The program.                                                            *)
(***************************************************************************)
Init ==
  /\ changes = 0 /\ hops = {} /\ snapshot = Invalid /\ got = Invalid
  /\ \/ \E v \in Values :
          /\ rv = [mine |-> Fresh(v), sent |-> NoObject] /\ heap = FreshHeap(v)
          /\ phase = "empty" /\ wire = [fmt |-> "none", bytes |-> <<>>]
     \/ \E w \in Foreign :
          /\ rv = [x \in Objects |-> NoObject] /\ heap = [b \in 1..6 |-> NoBlock]
          /\ phase = "foreign" /\ wire = w

\* RpcValue::set(), append() and setMetaValue() on the program's own value.
Change ==
  \E ch \in Changes :
    LET o == rv.mine
        v == Content(o, heap)
    IN /\ phase = "empty" /\ changes < MaxChanges /\ changes' = changes + 1
       /\ IsContainer(o.t)
       /\ \/ /\ ch[1] = "set" /\ ch[2].t = KeyType(v)
             /\ WriteThrough(detach(o.e), "e", set(v, ch[2], ch[3]).e)
          \/ /\ ch[1] = "append" /\ o.t = "list"
             /\ WriteThrough(detach(o.e), "e", append(v, ch[3]).e)
          \/ /\ ch[1] = "meta"
             /\ WriteThrough(IF o.m = 0 THEN OneFree ELSE detach(o.m), "m",
                             setMetaValue(v, ch[2], ch[3]).m)
          \/ /\ ch[1] = "takeMeta" /\ o.m # 0
             /\ rv' = [rv EXCEPT !.mine.m = 0] /\ UNCHANGED heap
       /\ UNCHANGED <<phase, wire, hops, snapshot, got>>

\* A copy for the queue.
Send ==
  /\ phase = "empty" /\ snapshot = Invalid
  /\ rv' = [rv EXCEPT !.sent = rv.mine]
  /\ snapshot' = Content(rv.mine, heap)
  /\ UNCHANGED <<heap, changes, phase, wire, hops, got>>

Sent == Content(rv.sent, heap)
\* Numbers above IntMax are written in ChainPack only: as text they read back
\* as the largest number there is.
Below(mag) == Len(mag) < 4 \/ (Len(mag) = 4 /\ mag[1] < 128 /\ ToInt(mag) <= IntMax)
Printable(v) == /\ v.t = "uint" => Below(v.d)
                /\ v.t = "int" => Below(Tail(v.d))
PackContext(fmt, kind, cap, indented) ==
  [ccpcp_pack_context_init(fmt, kind, cap) EXCEPT !.indent = indented]

Write ==
  /\ phase = "empty" /\ snapshot # Invalid
  /\ \E fmt \in {"ChainPack", "Cpon"}, kind \in {"dry", "fixed", "stream"}, cap \in Caps,
        indented \in BOOLEAN :
       /\ fmt = "Cpon" => Printable(Sent)
       /\ indented => fmt = "Cpon"
       /\ \E c \in {write(PackContext(fmt, kind, cap, indented), Sent)} :
             /\ wire' = [fmt |-> fmt, bytes |-> Output(c), kind |-> kind, cap |-> cap,
                         indent |-> indented, err |-> c.err, count |-> c.bytes_written]
             /\ phase' = CASE c.err # "OK" -> "overflow" [] kind = "dry" -> "counted"
                           [] OTHER -> "written"
             /\ hops' = {fmt}
  /\ UNCHANGED <<rv, heap, changes, snapshot, got>>

\* The connection ends before the last byte.
Cut ==
  /\ phase = "written"
  /\ \E n \in 0..(Len(wire.bytes) - 1) : wire' = [fmt |-> wire.fmt, bytes |-> SubSeq(wire.bytes, 1, n)]
  /\ phase' = "cut"
  /\ UNCHANGED <<rv, heap, changes, hops, snapshot, got>>

Unpack(capacity, chunk_len) == ccpcp_unpack_context_init(wire.fmt, wire.bytes, capacity, chunk_len)

\* A tool converts what is on the wire (cp2cp); the stack has room for 9.
Convert ==
  /\ phase = "written" /\ Printable(snapshot)
  /\ \E chunk_len \in ConvertChunks, fmt \in {"ChainPack", "Cpon"} :
       \E r \in {ccpcp_convert(Unpack(10, chunk_len), PackContext(fmt, "stream", 7, FALSE))} :
         /\ wire' = [fmt |-> fmt, bytes |-> Output(r.out)]
         /\ phase' = IF r.in.err = "OK" /\ r.out.err = "OK" THEN "converted" ELSE "unconverted"
         /\ hops' = hops \cup {fmt}
  /\ UNCHANGED <<rv, heap, changes, snapshot, got>>

\* The tool in D converts it (dcp2cp); its maps have the order of the hashes.
ConvertD ==
  /\ phase = "written" /\ Printable(snapshot)
  /\ \E fmt \in {"ChainPack", "Cpon"}, reversed \in BOOLEAN :
       \E bytes \in {dcp2cp(wire.fmt, wire.bytes, fmt, reversed)} :
         /\ wire' = [fmt |-> fmt, bytes |-> bytes]
         /\ phase' = IF bytes = Refused THEN "refused" ELSE "converted"
         /\ hops' = hops \cup {fmt, "D"}
  /\ UNCHANGED <<rv, heap, changes, snapshot, got>>

Read ==
  /\ phase \in {"written", "converted", "cut", "foreign"}
  /\ \E chunk_len \in Chunks :
       \E r \in {read(Unpack(0, chunk_len))} :
         /\ phase' = IF r.c.err = "OK" /\ r.v.t # "invalid"
                     THEN IF phase = "cut" THEN "cutread" ELSE "read"
                     ELSE IF phase \in {"written", "converted"} THEN "unreadable"
                     ELSE "rejected"
         /\ got' = IF r.c.err = "OK" THEN r.v ELSE Invalid
  /\ UNCHANGED <<rv, heap, changes, wire, hops, snapshot>>

\* What was read becomes the value of the next program.
Forward ==
  /\ phase = "read" /\ snapshot = Invalid /\ got # Invalid
  /\ rv' = [mine |-> Fresh(got), sent |-> NoObject] /\ heap' = FreshHeap(got)
  /\ phase' = "empty" /\ hops' = {} /\ got' = Invalid
  /\ UNCHANGED <<changes, wire, snapshot>>

Next == Change \/ Send \/ Write \/ Cut \/ Convert \/ ConvertD \/ Read \/ Forward

Spec == Init /\ [][Next]_vars

(***************************************************************************)
(* Properties.                                                             *)
(***************************************************************************)
RECURSIVE Same(_, _)
\* Equal in type, data and meta data; Cpon has no doubles and no place for the
\* exponent of a decimal, which keeps its value only.
SameEntries(a, b) ==
  Len(a) = Len(b) /\ \A i \in DOMAIN a : a[i][1] = b[i][1] /\ Same(a[i][2], b[i][2])
Same(x, y) ==
  /\ SameEntries(x.m, y.m)
  /\ IF x.t \in {"double", "decimal"} /\ "Cpon" \in hops
     THEN y.t \in {"double", "decimal"}
            /\ (IF x.t = "double" THEN AsDouble(x) ELSE toDouble(toDecimal(x)))
                 = (IF y.t = "double" THEN AsDouble(y) ELSE toDouble(toDecimal(y)))
     ELSE x.t = y.t /\ x.d = y.d /\ SameEntries(x.e, y.e)

\* What the tool in D does not carry: blobs; in Cpon, text that is not ASCII,
\* keys that need an escape and doubles that are whole numbers.
IsWhole(f) == f.exp >= 0 /\ Len(NoTrailingZeros(Digits(f.digits))) <= f.exp + 1
Ascii(s) == \A i \in DOMAIN s : s[i] < 128
RECURSIVE Portable(_)
PortableKey(k) == k.t = "string" => /\ Ascii(k.d) /\ \A i \in DOMAIN k.d : k.d[i] \notin {34, 92}
PortableEntries(es) ==
  \A i \in DOMAIN es : ("Cpon" \in hops => PortableKey(es[i][1])) /\ Portable(es[i][2])
Portable(v) ==
  /\ v.t # "blob"
  /\ "Cpon" \in hops => /\ v.t = "string" => Ascii(v.d)
                        /\ v.t = "double" => ~IsWhole(DoubleDigits[v.d])
  /\ PortableEntries(v.e) /\ PortableEntries(v.m)
Lost == "D" \in hops /\ ~Portable(snapshot)

\* What is read is the value as it was when it was sent, however the sender
\* changed its own copy in the meantime (CowPtr), whatever the size of the
\* buffers of writer and reader, and through any conversion, the one by the
\* implementation in D included as long as that knows the value (Portable).
ReadBack == /\ phase \in {"unreadable", "unconverted", "refused"} => Lost
            /\ phase = "read" /\ snapshot # Invalid => Same(snapshot, got) \/ Lost

\* A value that was cut off is not taken for a whole one: ChainPack notices
\* it everywhere (UNDERFLOW), Cpon inside of containers, strings and times.
TruncationIsNoticed ==
  phase = "cutread" => wire.fmt = "Cpon" /\ got.t \in {"int", "uint", "decimal"} /\ got.m = <<>>

\* The bytes do not depend on the buffer they went through; a buffer without
\* an overflow handler is enough exactly when it holds all of them, and a dry
\* run counts them.
BufferDoesNotMatter ==
  phase \in {"written", "overflow", "counted"} => \E ref \in {write(PackContext(wire.fmt, "fixed", 1000, wire.indent), snapshot)} :
       CASE wire.kind = "dry"    -> wire.count = Len(Output(ref))
         [] wire.kind = "fixed"  -> /\ (wire.err = "OK") <=> (Len(Output(ref)) <= wire.cap)
                                    /\ IsPrefix(wire.bytes, Output(ref))
         [] wire.kind = "stream" -> wire.cap > 0 => wire.bytes = Output(ref)

\* The keys a path is made of: any key of the value, and one it has not.
Paths(v) == {<<>>, <<IntKey(0)>>, <<StringKey(<<97>>)>>, <<IntKey(1), IntKey(0)>>}
              \cup {<<IntKey(i)>> : i \in 1..Len(v.e)}
RECURSIVE Walk(_, _)
Walk(v, path) ==
  IF path = <<>> THEN v
  ELSE Walk(IF Head(path).t = "string" THEN atKey(v, Head(path), Invalid)
            ELSE at(v, ToInt(Tail(Head(path).d)), Invalid), Tail(path))

\* Looking a path up in the bytes, without building the values beside it, finds
\* what reading everything and walking the value finds.
PathAgreesWithValue ==
  phase = "written" /\ wire.fmt = "ChainPack" =>
    \A path \in Paths(snapshot) :
      \E r \in {readPath(Unpack(0, 3), path)} :
        IF r.c.err # "OK" \/ ~r.found THEN Walk(snapshot, path) = Invalid
        ELSE r.v = Walk(snapshot, path)

\* The abstract channel: its mine and sent are what the two objects mean.
Channel == INSTANCE ValueChannel WITH
  None <- Invalid, mine <- Content(rv.mine, heap), sent <- Content(rv.sent, heap),
  got <- IF phase # "read" \/ snapshot = Invalid THEN Invalid
         ELSE IF Same(Sent, got) THEN Sent ELSE IF Lost THEN Invalid ELSE got

\* Sending a value implements the abstract channel: changing one's own value
\* never changes the copy that waits to be written, and nothing but that copy
\* is ever received.
ImplementsChannel == Channel!Spec

\* The bytes of a value do not depend on the buffers, show where they were cut
\* off and can be searched without being read as a whole.
BytesAreExact == TruncationIsNoticed /\ BufferDoesNotMatter /\ PathAgreesWithValue
=============================================================================
