----------------------------- MODULE RpcMessage -----------------------------
(***************************************************************************)
(* RpcMessage (libshvchainpack/src/rpcmessage.cpp): a message is an imap   *)
(* whose meta data say what it is and where it goes; a frame is a message  *)
(* with its meta data apart and its content still packed.                  *)
(***************************************************************************)
EXTENDS RpcValueStreams

(***************************************************************************)
(* Meta data, as the entries a value keeps in field m.                     *)
(***************************************************************************)
MetaTypeId == IntKey(1)
RequestId == IntKey(8)
ShvPath == IntKey(9)
Method == IntKey(10)
CallerIds == IntKey(11)
RevCallerIds == IntKey(13)
Access == IntKey(14)
TunnelCtl == IntKey(15)
UserId == IntKey(16)
AccessLevel == IntKey(17)
Source == IntKey(19)

IntValue(n) == Val("int", Signed(n))

isRequest(meta) == hasKey(meta, RequestId) /\ hasKey(meta, Method)
isResponse(meta) == hasKey(meta, RequestId) /\ ~hasKey(meta, Method)
isSignal(meta) == ~hasKey(meta, RequestId) /\ hasKey(meta, Method)
requestId(meta) == value(meta, RequestId, Invalid)

\* An empty access and the level None are taken away.
setAccess(meta, access) ==
  setValue(meta, Access, IF access = <<>> THEN Invalid ELSE Val("string", access))
setAccessLevel(meta, level) ==
  setValue(meta, AccessLevel, IF level = 0 THEN Invalid ELSE IntValue(level))

\* pushCallerId() and pushRevCallerId(): one id alone, several in a list.
pushId(meta, key, id) ==
  LET ids == value(meta, key, Invalid)
  IN setValue(meta, key,
       CASE ids.t = "list" -> append(ids, IntValue(id))
         [] ids.t \in {"int", "uint"} ->
              append(append(Val("list", <<>>), IntValue(toInt(ids))), IntValue(id))
         [] OTHER -> IntValue(id))

lastId(ids) ==
  IF ids.t # "list" THEN toInt(ids)
  ELSE IF ids.e = <<>> THEN 0 ELSE toInt(Last(ids.e)[2])
peekCallerId(meta) == lastId(value(meta, CallerIds, Invalid))

\* The last id and the meta data without it; an empty list stays.
popCallerId(meta) ==
  LET ids == value(meta, CallerIds, Invalid)
  IN [id |-> lastId(ids),
      meta |-> setValue(meta, CallerIds,
                 IF ids.t # "list" THEN Invalid
                 ELSE IF ids.e = <<>> THEN ids ELSE [ids EXCEPT !.e = Front(@)])]

(***************************************************************************)
(* Messages.                                                               *)
(***************************************************************************)
Params == IntKey(1)
ResultKey == IntKey(2)
ErrorKey == IntKey(3)
Delay == IntKey(4)

\* checkMetaValues(): the first set makes an empty message a message.
checkMetaValues(msg) ==
  IF msg.t # "invalid" THEN msg
  ELSE [Val("imap", <<>>) EXCEPT !.m = <<<<MetaTypeId, IntValue(1)>>>>]
setMsgValue(msg, key, x) == set(checkMetaValues(msg), key, x)
setMsgMeta(msg, key, x) == setMetaValue(checkMetaValues(msg), key, x)

forRequest(meta) ==
  LET withId == IF hasKey(meta, RequestId) THEN setMsgMeta(Invalid, RequestId, requestId(meta))
                ELSE Invalid
  IN IF hasKey(meta, CallerIds) THEN setMsgMeta(withId, CallerIds, value(meta, CallerIds, Invalid))
     ELSE withId

\* RpcError is an imap; its code 0 is no error.
createError(code) == set(set(Val("imap", <<>>), IntKey(1), IntValue(code)), IntKey(2), Val("string", <<>>))
error(msg) == LET e == at(msg, 3, Invalid) IN IF e.t = "imap" THEN e ELSE Invalid
isError(msg) == toInt(at(error(msg), 1, Invalid)) # 0
result(msg) == at(msg, 2, Invalid)
hasResult(msg) == isError(msg) \/ result(msg).t # "invalid"
isSuccess(msg) == result(msg).t # "invalid" /\ ~isError(msg)

(***************************************************************************)
(* Frames.                                                                 *)
(***************************************************************************)
ProtocolByte(fmt) == IF fmt = "ChainPack" THEN 1 ELSE 2
Protocols == {"ChainPack", "Cpon"}

Packed(fmt, v) == Output(write(ccpcp_pack_context_init(fmt, "stream", 64), v))
toRpcFrame(msg, fmt) == [protocol |-> fmt, meta |-> msg.m, data |-> Packed(fmt, takeMeta(msg))]
toFrameHead(frame) ==
  <<ProtocolByte(frame.protocol)>>
    \o Output(writeMeta(ccpcp_pack_context_init(frame.protocol, "stream", 64), frame.meta))
toFrameData(frame) == toFrameHead(frame) \o frame.data

\* Invalid stands for the error message: not readable, or not an imap.
MessageOf(r, meta) ==
  IF r.c.err # "OK" \/ r.v.t # "imap" THEN Invalid ELSE [r.v EXCEPT !.m = meta]
toRpcMessage(frame) ==
  MessageOf(read(ccpcp_unpack_context_init(frame.protocol, frame.data, 0, 256)), frame.meta)

NoFrame == [protocol |-> "Invalid", meta |-> <<>>, data |-> <<>>]
\* fromFrameData(); NoFrame stands for the exceptions.
WithoutHead(fmt, bytes, r) ==
  IF r.c.err # "OK" \/ r.v = <<>> THEN NoFrame
  ELSE [protocol |-> fmt, meta |-> r.v, data |-> SubSeq(bytes, r.c.pos, Len(bytes))]
fromFrameData(bytes) ==
  IF bytes = <<>> \/ Head(bytes) \notin {1, 2} THEN NoFrame
  ELSE \* the rest of the frame, in the format its first byte names
       LET fmt == IF Head(bytes) = 1 THEN "ChainPack" ELSE "Cpon"
       IN WithoutHead(fmt, Tail(bytes), readMeta(ccpcp_unpack_context_init(fmt, Tail(bytes), 0, 256)))
=============================================================================
