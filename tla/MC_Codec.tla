------------------------------ MODULE MC_Codec ------------------------------
EXTENDS Codec

\* IEEE doubles, by their bytes.
D(a, b) == <<a, b, 0, 0, 0, 0, 0, 0>>
F(neg, digits, exp) == [neg |-> neg, digits |-> digits, exp |-> exp]
MCDoubleDigits ==
  (D(0, 0) :> F(FALSE, 0, 0)) @@ (D(63, 248) :> F(FALSE, 1500000, 0))
  @@ (D(192, 2) :> F(TRUE, 2250000, 0)) @@ (D(64, 89) :> F(FALSE, 1000000, 2))
  @@ (D(63, 224) :> F(FALSE, 5000000, -1)) @@ (D(63, 176) :> F(FALSE, 6250000, -2))
  @@ (<<65, 224, 0, 0, 0, 0, 0, 0>> :> F(FALSE, 2147483, 9))

Ints == {0, 1, 63, 64, -1, -63, -64, 127, 128, 255, 8191, 8192, -8191, -8192, 1048575, 1048576,
         -1048576, 134217727, -134217727}
UInts == {n \in Ints : n >= 0}
\* 64-bit numbers: 2^32, 2^56 - 1, 2^63 - 1, -(2^63 - 1), 2^63, 2^64 - 1
Bytes(n, b) == [i \in 1..n |-> b]
Big == {Val("uint", <<1>> \o Bytes(4, 0)), Val("uint", Bytes(7, 255)), Val("uint", Bytes(8, 255)),
        Val("uint", <<128>> \o Bytes(7, 0)), Val("int", <<0, 127>> \o Bytes(7, 255)),
        Val("int", <<1, 127>> \o Bytes(7, 255)), Val("int", <<1, 1>> \o Bytes(4, 0)),
        Val("int", <<0, 128>> \o Bytes(3, 0))}

Strings == {<<>>, <<97>>, <<97, 34, 92>>, <<0, 10, 9, 13, 8, 12>>, <<200, 47, 42>>, <<195, 161>>, Bytes(9, 120)}
Times == {SHV_EPOCH_SEC, SHV_EPOCH_SEC - 1, SHV_EPOCH_SEC + 3599}
DateTimes == {<<s, ms, z>> : s \in Times, ms \in {0, 7, 20, 999}, z \in {0, 60, -60, 345, -210}}

Str(s) == Val("string", s)
I(n) == Val("int", Signed(n))
List(es) == [Val("list", <<>>) EXCEPT !.e = [i \in DOMAIN es |-> <<Null, es[i]>>]]
Map(t, es) == [Val(t, <<>>) EXCEPT !.e = es]
Meta(v, m) == [v EXCEPT !.m = m]

Scalars ==
  {Null, Val("bool", <<0>>), Val("bool", <<1>>)} \cup Big
  \cup {I(n) : n \in Ints} \cup {Val("uint", FromInt(n)) : n \in UInts}
  \cup {Val("double", d) : d \in DOMAIN MCDoubleDigits}
  \cup {Val("decimal", <<e>> \o Signed(m)) : e \in {-7, -2, 0, 3}, m \in {0, 5, -120, 12345}}
  \cup {Val("datetime", d) : d \in DateTimes}
  \cup {Val(t, s) : t \in {"string", "blob"}, s \in Strings}

Small == {List(<<>>), List(<<I(5), Str(<<97>>)>>), List(<<List(<<>>), Null>>),
  Map("map", <<>>), Map("map", <<<<Str(<<97>>), Null>>, <<Str(<<97, 34>>), I(2)>>>>),
  Map("map", <<<<Str(<<97>>), I(-1)>>>>),
  Map("imap", <<<<I(1), List(<<I(0)>>)>>, <<I(2), Map("map", <<>>)>>>>)}
Nested == {Meta(v, m) : v \in Small \cup {I(7), Str(<<98>>)},
                        m \in {<<<<I(1), I(1)>>>>, <<<<I(8), List(<<>>)>>, <<Str(<<99>>), Meta(I(2), <<<<I(1), Null>>>>)>>>>}}
  \cup {List(<<I(3), Val("blob", <<1, 65>>), Meta(I(2), <<<<I(1), Null>>>>), Str(<<34>>)>>)}

MCValues == Scalars \cup Small \cup Nested
MCChanges == {<<"set", Str(<<97>>), Invalid>>, <<"set", Str(<<98>>), I(5)>>, <<"set", I(2), Null>>,
              <<"append", Null, I(1)>>, <<"meta", I(1), I(2)>>, <<"takeMeta", Null, Null>>}

\* Other people's bytes.
CPAlphabet == {1, 65, 129, 130, 134, 136, 137, 138, 139, 142, 0, 92, 255}
CponAlphabet == {91, 93, 123, 125, 60, 62, 34, 49, 48, 45, 46, 101, 44, 117, 105}
Texts(S, n) == UNION {[1..k -> S] : k \in 0..n}
MCForeign == [fmt : {"ChainPack"}, bytes : Texts(CPAlphabet, 3)]
               \cup [fmt : {"Cpon"}, bytes : Texts(CponAlphabet, 3)]
=============================================================================
