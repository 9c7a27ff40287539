----------------------------- MODULE MC_Framing -----------------------------
EXTENDS Framing

I(n) == Val("int", Signed(n))
Str(s) == Val("string", s)
Message(meta, body) == [Val("imap", <<>>) EXCEPT !.m = <<<<MetaTypeId, I(1)>>>> \o meta, !.e = body]

\* A response whose result holds STX and a signal whose parameter holds ESC
\* and ETX.
MCMessages ==
  {Message(<<<<RequestId, I(5)>>>>, <<<<ResultKey, Str(<<162>>)>>>>),
   Message(<<<<Method, Str(<<99>>)>>>>, <<<<Params, Val("blob", <<170, 163>>)>>>>)}
MCLinks ==
  [kind : {"stream"}, client : Protocols, frame : Protocols]
    \cup [kind : {"serial", "serialcrc", "driver"}, client : {"ChainPack"}, frame : {"ChainPack"}]
MCDoubleDigits == (<<0, 0, 0, 0, 0, 0, 0, 0>> :> [neg |-> FALSE, digits |-> 0, exp |-> 0])
=============================================================================
