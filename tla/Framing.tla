------------------------------ MODULE Framing ------------------------------
(***************************************************************************)
(* From the message one side sends to the message the other side is given: *)
(* RpcDriver::sendRpcFrame(), the frame writers and readers of             *)
(* socket.cpp and serialportsocket.cpp, the sockets that carry the bytes,  *)
(* and SocketRpcDriver, the driver without Qt.  One direction of one link  *)
(* is modelled, byte by byte, with the real ChainPack, Cpon and CRC.       *)
(*                                                                         *)
(* Kinds of links: stream (TcpSocket, SslSocket, WebSocket, LocalSocket),  *)
(* serial (LocalSocket, serial protocol without CRC), serialcrc            *)
(* (SerialPortSocket) and driver (SocketRpcDriver at the receiving end).   *)
(***************************************************************************)
EXTENDS RpcMessage, FiniteSets

CONSTANTS
  Links,       \* [kind, client, frame]: the kind of a link (see above), the sender's
               \* m_clientProtocolType and the protocol of the frames it is asked to send
  Messages,    \* the RPC messages that are sent
  MaxSent,     \* how many of them
  FlushSizes,  \* how many bytes a device may take when it does not take all
  ChunkSizes,  \* how many bytes may arrive at once when not all do
  FaultBytes,  \* what line noise turns a byte of a serial line into
  MaxDisturbances,     \* how often noise hits a byte or the link is opened again
  MaxWriteBufferLength \* m_maxWriteBufferLength of SocketRpcDriver

VARIABLES
  link,      \* the link this is
  sent,      \* the messages handed to sendRpcFrame()
  todo,      \* m_messageDataToWrite / m_writeBuffer of the sender
  wire,      \* bytes the device took that have not been read
  rd,        \* the receiving FrameReader
  got,       \* the messages given to onRpcMessageReceived()
  faults,    \* bytes hit by noise
  reopens,   \* how often the link was opened again
  forgiven   \* messages that may be missing: dropped or under way at a reopen
vars == <<link, sent, todo, wire, rd, got, faults, reopens, forgiven>>

(***************************************************************************)
(* crc32.h: CRC-32/ISO-HDLC, a remainder as its four bytes, highest first. *)
(***************************************************************************)
XorBit(a, b, bit) == (((a \div bit) + (b \div bit)) % 2) * bit
XorTable == [a \in 0..15 |-> [b \in 0..15 |->
               XorBit(a, b, 1) + XorBit(a, b, 2) + XorBit(a, b, 4) + XorBit(a, b, 8)]]
XorByte(a, b) == 16 * XorTable[a \div 16][b \div 16] + XorTable[a % 16][b % 16]
Xor32(r, s) == <<XorByte(r[1], s[1]), XorByte(r[2], s[2]), XorByte(r[3], s[3]), XorByte(r[4], s[4])>>
Half(b, above) == (b \div 2) + 128 * (above % 2)
ShiftBit(r) == <<Half(r[1], 0), Half(r[2], r[1]), Half(r[3], r[2]), Half(r[4], r[3])>>
ShiftByte(r) == <<0, r[1], r[2], r[3]>>

CRC_POSIX_POLY_REV == <<237, 184, 131, 32>>
crc32_for_bit(r) == IF r[4] % 2 = 1 THEN Xor32(ShiftBit(r), CRC_POSIX_POLY_REV) ELSE ShiftBit(r)
RECURSIVE crc32_for_bits(_, _)
crc32_for_bits(r, n) == IF n = 0 THEN r ELSE crc32_for_bits(crc32_for_bit(r), n - 1)
make_table == [b \in 0..255 |-> crc32_for_bits(<<0, 0, 0, b>>, 8)]

CrcReset == <<255, 255, 255, 255>>
CrcAdd(r, b) == Xor32(make_table[XorByte(r[4], b)], ShiftByte(r))
CrcResult(r) == Xor32(r, CrcReset)
RECURSIVE CrcAddAll(_, _)
CrcAddAll(r, bytes) == IF bytes = <<>> THEN r ELSE CrcAddAll(CrcAdd(r, Head(bytes)), Tail(bytes))
Crc32(bytes) == CrcResult(CrcAddAll(CrcReset, bytes))

(***************************************************************************)
(* The writers: addFrameData(), and writeFrame() of SocketRpcDriver.       *)
(***************************************************************************)
STX == 162
ETX == 163
ATX == 164
ESC == 170
EscCodes == (STX :> 2) @@ (ETX :> 3) @@ (ATX :> 4) @@ (ESC :> 10)

IsSerial(kind) == kind \in {"serial", "serialcrc"}

StreamFrameData(bytes) ==
  Output(cchainpack_pack_uint_data(ccpcp_pack_context_init("ChainPack", "stream", 64),
                                   FromInt(Len(bytes)))) \o bytes

write_escaped(bytes) ==
  FlattenSeq([i \in DOMAIN bytes |->
    IF bytes[i] \in DOMAIN EscCodes THEN <<ESC, EscCodes[bytes[i]]>> ELSE <<bytes[i]>>])
WithCrc(escaped) == write_escaped(Crc32(escaped))
SerialFrameData(bytes, crc) ==
  <<STX>> \o write_escaped(bytes) \o <<ETX>>
    \o (IF crc THEN WithCrc(write_escaped(bytes)) ELSE <<>>)

addFrameData(kind, bytes) ==
  IF IsSerial(kind) THEN SerialFrameData(bytes, kind = "serialcrc") ELSE StreamFrameData(bytes)

\* FrameWriter::resetCommunication(): the frame with the single byte 0.
resetFrame(kind) == IF IsSerial(kind) THEN addFrameData(kind, <<0>>) ELSE <<>>

(***************************************************************************)
(* The readers.  dataStart is -1 for an m_dataStart without a value; ids   *)
(* and errs collect what responseMetaReceived and responseReceiveError     *)
(* were emitted with.                                                      *)
(***************************************************************************)
NewReader ==
  [buf |-> <<>>, protocol |-> "Invalid", meta |-> <<>>, dataStart |-> -1, frames |-> <<>>,
   state |-> "WaitingForStx", recent |-> 0, crcBuf |-> <<>>, digest |-> CrcReset,
   readFrameSize |-> 0, error |-> FALSE, ids |-> <<>>, errs |-> <<>>]

resetCommunication(r) == [NewReader EXCEPT !.ids = r.ids, !.errs = r.errs]

ResponseId(meta) == IF isResponse(meta) THEN toInt(requestId(meta)) ELSE 0

\* The meta data of m are complete: where the data start, and whose response
\* this is.  Meta data that are read to the end of an input which ends before
\* them leave readCount() at -1.
MetaFound(r, fmt, m, start) ==
  IF m.c.err # "OK" \/ (m.v = <<>> /\ m.c.pos > Len(m.c.in))
  THEN [r EXCEPT !.protocol = fmt, !.meta = <<>>]
  ELSE [r EXCEPT !.protocol = fmt, !.meta = m.v, !.dataStart = start + m.c.pos,
                 !.ids = IF ResponseId(m.v) > 0 THEN Append(@, ResponseId(m.v)) ELSE @]
ReadMeta(r, fmt, start) ==
  MetaFound(r, fmt, readMeta(ccpcp_unpack_context_init(fmt, SubSeq(r.buf, start + 2, Len(r.buf)), 0, 256)),
            start)

ProtocolOf(b) == CASE b = 1 -> "ChainPack" [] b = 2 -> "Cpon" [] OTHER -> "Invalid"
Readable(r, start) == start < Len(r.buf) /\ ProtocolOf(r.buf[start + 1]) # "Invalid"
\* start is the number of bytes in front of the protocol byte.
tryToReadMeta(r, start) ==
  IF r.dataStart # -1 \/ ~Readable(r, start) THEN r
  ELSE ReadMeta(r, ProtocolOf(r.buf[start + 1]), start)

Frame(r, data) == [protocol |-> r.protocol, meta |-> r.meta, data |-> data]

\* StreamFrameReader::addData(), one round of its loop per frame.
RECURSIVE StreamFrames(_)
StreamFrame(r, end) ==
  IF end > Len(r.buf) THEN r
  ELSE IF r.dataStart = -1 THEN [r EXCEPT !.error = TRUE]
  ELSE StreamFrames([r EXCEPT !.frames = Append(@, Frame(r, SubSeq(r.buf, r.dataStart + 1, end))),
                              !.buf = SubSeq(@, end + 1, Len(@)), !.meta = <<>>, !.dataStart = -1])
StreamLength(r, u) ==
  IF u.err = "UNDERFLOW" THEN r
  ELSE IF u.err # "OK" THEN [r EXCEPT !.error = TRUE]
  ELSE StreamFrame(tryToReadMeta(r, u.pos - 1), u.pos - 1 + ToInt(u.item.d))
StreamFrames(r) ==
  StreamLength(r, unpack_uint(ccpcp_unpack_context_init("ChainPack", r.buf, 0, 256)))

\* SerialFrameReader.
setState(r, state) ==
  CASE state = "WaitingForStx" -> [r EXCEPT !.state = state]
    [] state = "WaitingForEtx" ->
         [r EXCEPT !.state = state, !.buf = <<>>, !.meta = <<>>, !.dataStart = -1, !.digest = CrcReset]
    [] state = "WaitingForCrc" -> [r EXCEPT !.state = state, !.crcBuf = <<>>]

Unescape == [e \in {2, 3, 4, 10} |-> CHOOSE b \in DOMAIN EscCodes : EscCodes[b] = e]
\* add_byte(): what b adds to a buffer; a bad escape ends the frame.
BadEscape(r, b) == r.recent = ESC /\ b \notin DOMAIN Unescape
\* The slip of keeping the code of an escape.
AddedRaw(r, b) == IF b # ESC THEN <<b>> ELSE <<>>
Added(r, b) == IF r.recent = ESC THEN IF b \in DOMAIN Unescape THEN <<Unescape[b]>> ELSE <<>>
               ELSE IF b # ESC THEN <<b>> ELSE <<>>
Escaped(r, b) == IF BadEscape(r, b) THEN setState(r, "WaitingForStx") ELSE r

\* Only a response to this very client is reported.
ReportsError(r) ==
  r.dataStart # -1 /\ isResponse(r.meta) /\ peekCallerId(r.meta) = 0
    /\ requestId(r.meta).t \in {"int", "uint"} /\ toInt(requestId(r.meta)) > 0
finishFrame(r, crc) ==
  IF crc /\ CrcResult(r.digest) # r.crcBuf
  THEN setState([r EXCEPT !.errs = IF ReportsError(r) THEN Append(@, toInt(requestId(r.meta))) ELSE @],
                "WaitingForStx")
  ELSE IF r.dataStart = -1 THEN setState(r, "WaitingForStx")
  ELSE setState([r EXCEPT !.meta = <<>>,
         !.frames = Append(@, Frame(r, SubSeq(r.buf, r.dataStart + 1, Len(r.buf))))], "WaitingForStx")

\* What a byte does, the end of a frame apart.
SerialByte(r, b, crc) ==
  CASE b = STX -> [setState(r, "WaitingForEtx") EXCEPT !.recent = b]
    [] b = ATX -> [setState(r, "WaitingForStx") EXCEPT !.recent = b]
    [] b \notin {STX, ATX} /\ r.state = "WaitingForStx" -> [r EXCEPT !.recent = b]
    [] b = ETX /\ r.state = "WaitingForEtx" -> IF crc THEN setState(r, "WaitingForCrc") ELSE r
    [] b \notin {STX, ATX, ETX} /\ r.state = "WaitingForEtx" ->
         [Escaped([r EXCEPT !.digest = CrcAdd(@, b), !.buf = @ \o Added(r, b)], b) EXCEPT !.recent = b]
    [] b \notin {STX, ATX} /\ r.state = "WaitingForCrc" ->
         [Escaped([r EXCEPT !.crcBuf = @ \o Added(r, b)], b) EXCEPT !.recent = b]
\* The byte that led from r to s is the last of a frame.
EndsFrame(r, b, s, crc) ==
  IF crc THEN r.state = "WaitingForCrc" /\ s.state = "WaitingForCrc" /\ Len(s.crcBuf) = 4
  ELSE b = ETX /\ r.state = "WaitingForEtx"

\* SerialFrameReader::addData(): check_response_id() at the end of a frame and
\* at the end of the data.
RECURSIVE SerialBytes(_, _, _), SerialNext(_, _, _, _)
SerialNext(r, s, data, crc) ==
  IF EndsFrame(r, Head(data), s, crc)
  THEN SerialBytes(finishFrame(tryToReadMeta(s, 0), crc), Tail(data), crc)
  ELSE SerialBytes(s, Tail(data), crc)
SerialBytes(r, data, crc) ==
  IF data = <<>> THEN r ELSE SerialNext(r, SerialByte(r, Head(data), crc), data, crc)
SerialFrames(r, data, crc) == tryToReadMeta(SerialBytes(r, data, crc), 0)

\* SocketRpcDriver::exec(): m_readFrameSize is not set to 0 when its frame has
\* been taken.
FrameRead(f, r) == IF f = NoFrame THEN r ELSE [r EXCEPT !.frames = Append(@, f)]
RECURSIVE DriverFrames(_)
DriverFrame(r) ==
  IF r.readFrameSize = 0 \/ r.readFrameSize > Len(r.buf) THEN r
  ELSE DriverFrames(FrameRead(fromFrameData(SubSeq(r.buf, 1, r.readFrameSize)),
                              [r EXCEPT !.buf = SubSeq(@, r.readFrameSize + 1, Len(@))]))
DriverLength(r, u) ==
  IF u.err = "UNDERFLOW" THEN r
  ELSE IF u.err # "OK" THEN [r EXCEPT !.buf = <<>>]
  ELSE DriverFrame([r EXCEPT !.buf = SubSeq(@, u.pos, Len(@)), !.readFrameSize = ToInt(u.item.d)])
DriverFrames(r) ==
  IF r.readFrameSize = 0
  THEN DriverLength(r, unpack_uint(ccpcp_unpack_context_init("ChainPack", r.buf, 0, 256)))
  ELSE DriverFrame(r)

addData(kind, r, data) ==
  CASE kind = "stream" -> StreamFrames([r EXCEPT !.buf = @ \o data])
    [] kind = "driver" -> DriverFrames([r EXCEPT !.buf = @ \o data])
    [] OTHER -> SerialFrames(r, data, kind = "serialcrc")

(***************************************************************************)
(* The link.                                                               *)
(***************************************************************************)
Init ==
  /\ link \in Links
  /\ sent = <<>> /\ todo = <<>> /\ wire = <<>> /\ got = <<>>
  /\ rd = NewReader
  /\ faults = 0 /\ reopens = 0 /\ forgiven = 0

\* flushToDevice(), flushToWebSocket() and SocketRpcDriver::flush(): the device
\* takes the first n bytes, the rest stays for the next time.
\* The slip of dropping what the device did not take.
FlushForgetful(bytes, n) ==
  /\ wire' = wire \o SubSeq(bytes, 1, n)
  /\ todo' = IF n = 0 THEN bytes ELSE <<>>
flushToDevice(bytes, n) ==
  /\ wire' = wire \o SubSeq(bytes, 1, n)
  /\ todo' = SubSeq(bytes, n + 1, Len(bytes))

Taken(bytes) == {n \in FlushSizes : n < Len(bytes)} \cup {Len(bytes)}

\* RpcDriver::sendRpcFrame(): a frame in a protocol the peer does not use is
\* unpacked and packed again.
sendRpcFrame(msg, client, frame) ==
  IF frame.protocol = client THEN frame ELSE toRpcFrame(toRpcMessage(frame), client)

Send(msg) ==
  /\ Len(sent) < MaxSent
  /\ sent' = Append(sent, msg)
  /\ \E bytes \in {addFrameData(link.kind,
                     toFrameData(sendRpcFrame(msg, link.client, toRpcFrame(msg, link.frame))))} :
       IF link.kind = "driver" /\ Len(todo) + Len(bytes) >= MaxWriteBufferLength
       THEN /\ forgiven' = forgiven + 1
            /\ UNCHANGED <<todo, wire>>
       ELSE /\ \E n \in Taken(todo \o bytes) : flushToDevice(todo \o bytes, n)
            /\ UNCHANGED forgiven
  /\ UNCHANGED <<link, rd, got, faults, reopens>>

\* flushWriteBuffer() on bytesWritten, exec() on a writable socket.
flushWriteBuffer ==
  /\ todo # <<>>
  /\ \E n \in Taken(todo) \ {0} : flushToDevice(todo, n)
  /\ UNCHANGED <<link, sent, rd, got, faults, reopens, forgiven>>

\* takeFrames() and processRpcFrame() of every frame.
Delivered(frames) ==
  SelectSeq([i \in DOMAIN frames |-> toRpcMessage(frames[i])], LAMBDA m : m # Invalid)

\* onDataReadyRead(): exec() of SocketRpcDriver processes a frame at once, a
\* socket queues readyRead.
onDataReadyRead ==
  /\ wire # <<>>
  /\ \E n \in {k \in ChunkSizes : k < Len(wire)} \cup {Len(wire)} :
       /\ \E r \in {addData(link.kind, rd, SubSeq(wire, 1, n))} :
            \E now \in {IF link.kind = "driver" THEN r.frames ELSE <<>>} :
              /\ got' = got \o Delivered(now)
              /\ rd' = [r EXCEPT !.frames = IF now = <<>> THEN @ ELSE <<>>]
       /\ wire' = SubSeq(wire, n + 1, Len(wire))
  /\ UNCHANGED <<link, sent, todo, faults, reopens, forgiven>>

onReadyRead ==
  /\ rd.frames # <<>>
  /\ got' = got \o Delivered(rd.frames)
  /\ rd' = [rd EXCEPT !.frames = <<>>]
  /\ UNCHANGED <<link, sent, todo, wire, faults, reopens, forgiven>>

UnderWay == Len(sent) - Len(got) - forgiven

\* The link fails and is opened again: abort() throws the write buffer away.
\* A network connection has a new reader at the other end, a serial line keeps
\* its reader and is sent the reset frame.  A SocketRpcDriver ends with its
\* connection: exec() returns.
SenderReopens ==
  /\ link.kind # "driver"
  /\ faults + reopens < MaxDisturbances
  /\ reopens' = reopens + 1
  /\ forgiven' = forgiven + UnderWay
  /\ todo' = <<>>
  /\ IF IsSerial(link.kind)
     THEN \E n \in {k \in ChunkSizes : k < Len(wire)} \cup {0, Len(wire)} :
            wire' = SubSeq(wire, 1, n) \o resetFrame(link.kind) /\ UNCHANGED rd
     ELSE wire' = <<>> /\ rd' = resetCommunication(rd)
  /\ UNCHANGED <<link, sent, got, faults>>

\* The other end of a serial line reopens its port in the middle of whatever is
\* being sent.
ReaderReopens ==
  /\ IsSerial(link.kind)
  /\ faults + reopens < MaxDisturbances
  /\ reopens' = reopens + 1
  /\ forgiven' = forgiven + UnderWay
  /\ rd' = resetCommunication(rd)
  /\ wire' = <<>>
  /\ UNCHANGED <<link, sent, todo, got, faults>>

\* Noise on a serial line: the next byte is changed, lost or preceded by another.
Noise ==
  /\ link.kind = "serialcrc"
  /\ faults + reopens < MaxDisturbances
  /\ wire # <<>>
  /\ faults' = faults + 1
  /\ \E b \in FaultBytes :
       wire' \in {<<b>> \o Tail(wire), Tail(wire), <<b>> \o wire}
  /\ UNCHANGED <<link, sent, todo, rd, got, reopens, forgiven>>

Done ==
  /\ Len(sent) = MaxSent /\ todo = <<>> /\ wire = <<>> /\ rd.frames = <<>>
  /\ UNCHANGED vars

Next ==
  \/ \E msg \in Messages : Send(msg)
  \/ flushWriteBuffer
  \/ onDataReadyRead
  \/ onReadyRead
  \/ SenderReopens
  \/ ReaderReopens
  \/ Noise
  \/ Done

Spec == Init /\ [][Next]_vars

(***************************************************************************)
(* Properties.                                                             *)
(***************************************************************************)

Byte256 == 0..255
TypeOK ==
  /\ link \in Links
  /\ sent \in Seq(Messages) /\ Len(sent) <= MaxSent
  /\ todo \in Seq(Byte256) /\ wire \in Seq(Byte256) /\ rd.buf \in Seq(Byte256)
  /\ rd.state \in {"WaitingForStx", "WaitingForEtx", "WaitingForCrc"}
  /\ rd.dataStart \in -1..Len(rd.buf) \/ IsSerial(link.kind)
  /\ Len(rd.crcBuf) <= 4
  /\ faults \in 0..MaxDisturbances /\ reopens \in 0..MaxDisturbances /\ forgiven \in 0..MaxSent

\* s is t with some of its elements left out.
Increasing(f) == \A i, j \in DOMAIN f : i < j => f[i] < f[j]
IsSubsequence(s, t) ==
  \E f \in [DOMAIN s -> DOMAIN t] : Increasing(f) /\ \A i \in DOMAIN s : s[i] = t[f[i]]

Noiseless == faults = 0
Quiet == todo = <<>> /\ wire = <<>> /\ rd.frames = <<>>
Metas(frames) == [i \in DOMAIN frames |-> [m |-> frames[i].meta]]
ResponseIds(msgs) == SelectSeq([i \in DOMAIN msgs |-> ResponseId(msgs[i].m)], LAMBDA id : id > 0)

\* What onRpcMessageReceived() is given are messages that were sent, unchanged,
\* each once and in their order, however the bytes were cut up on the way,
\* whatever the noise did to them and wherever a link was opened again: a frame
\* is taken only whole, its meta data belong to it and its CRC is right
\* (socket.cpp:137, serialportsocket.cpp:42, socketrpcdriver.cpp:165).
FramesIntact == ~rd.error /\ IsSubsequence(got, sent)

\* Once the line is quiet, a byte hit by noise has cost at most one message and
\* a reopened link only what was under way: a reader that lost track finds the
\* next frame (serialportsocket.cpp:73), a write the device cut short is
\* finished (socket.cpp:40).  SocketRpcDriver is left out: it does not set
\* m_readFrameSize to 0 again (socketrpcdriver.cpp:233) and misses every frame
\* after the first.
FaultsAreLocal ==
  Quiet /\ link.kind # "driver" => Len(got) + faults + forgiven >= Len(sent)

\* The id of a response is announced (responseMetaReceived, which restarts the
\* timeout of its RpcCall) before the response is delivered and only once,
\* although every chunk of a frame tries to read its meta data again
\* (socket.cpp:92); without noise nobody is told of a failed response.
ResponsesAnnounced ==
  Noiseless =>
    /\ IsSubsequence(rd.ids, ResponseIds(sent))
    /\ rd.errs = <<>>
    /\ link.kind # "driver" => IsSubsequence(ResponseIds(got) \o ResponseIds(Metas(rd.frames)), rd.ids)

\* What a reader gives out, messages and announcements of responses, is what
\* was sent.
FramesAreSound == TypeOK /\ FramesIntact /\ ResponsesAnnounced
=============================================================================
