----------------------------- MODULE RpcBasics -----------------------------
(***************************************************************************)
(* What the access control lists and the nodes of a device have in         *)
(* common: RPC values as parameters and results see them, access levels,   *)
(* access grants and descriptions of methods (libshvchainpack              *)
(* accessgrant.cpp, accesslevel.cpp, metamethod.cpp).                      *)
(***************************************************************************)
EXTENDS Integers, Sequences, SequencesExt

Put(f, k, v) == [x \in DOMAIN f \cup {k} |-> IF x = k THEN v ELSE f[x]]
Del(f, k) == [x \in DOMAIN f \ {k} |-> f[x]]

(***************************************************************************)
(* RPC values.                                                             *)
(***************************************************************************)
Invalid == [t |-> "Invalid"]
Null    == [t |-> "Null"]
Bool(b) == [t |-> "Bool", b |-> b]
Text(s) == [t |-> "String", s |-> s]
List(l) == [t |-> "List", l |-> l]
Map(m)  == [t |-> "Map", m |-> m]

asMap(v) == IF v.t = "Map" THEN v.m ELSE <<>>
asList(v) == IF v.t = "List" THEN v.l ELSE <<>>
asText(v, empty) == IF v.t = "String" THEN v.s ELSE empty
At(v, k) == IF k \in DOMAIN asMap(v) THEN v.m[k] ELSE Invalid
Item(v, i) == IF i \in DOMAIN asList(v) THEN v.l[i] ELSE Invalid
Names(v) == [i \in DOMAIN asList(v) |-> asText(v.l[i], "")]
NameList(ns) == List([i \in DOMAIN ns |-> Text(ns[i])])

(***************************************************************************)
(* Levels and grants.                                                      *)
(***************************************************************************)
Level == [bws |-> 1, rd |-> 8, wr |-> 16, cmd |-> 24, cfg |-> 32,
          srv |-> 40, ssrv |-> 48, dev |-> 56, su |-> 63]
None == 0
Read == Level.rd
Write == Level.wr
Admin == Level.su

accessLevelToAccessString(l) ==
  IF \E s \in DOMAIN Level : Level[s] = l
  THEN CHOOSE s \in DOMAIN Level : Level[s] = l ELSE ""

accessLevelFromInt(i) == IF i \in None..Admin THEN i ELSE None

NoGrant == [level |-> None, access |-> <<>>]
GrantOf(l) == [level |-> l, access |-> <<>>]

Highest(s, l) == CHOOSE x \in s \cup {l} : \A y \in s \cup {l} : y <= x

fromShv2Access(parts, l) ==
  [level |-> Highest({Level[p] : p \in ToSet(parts) \cap DOMAIN Level},
                     accessLevelFromInt(l)),
   access |-> SelectSeq(parts, LAMBDA p : p \notin DOMAIN Level /\ p # "")]

toShv2Access(g) ==
  IF accessLevelToAccessString(g.level) = "" THEN <<>>
  ELSE <<accessLevelToAccessString(g.level)>> \o g.access

(***************************************************************************)
(* Descriptions of methods and their conversions: the IMap a device sends, *)
(* the Map, the List and the bare name of older devices                    *)
(* (libshvchainpack metamethod.cpp).                                       *)
(***************************************************************************)
Num(n)   == [t |-> "Int", n |-> n]
IMap(m)  == [t |-> "IMap", i |-> m]
Blob(c)  == [t |-> "Blob", c |-> c]
asInt(v) == IF v.t = "Int" THEN v.n ELSE 0
iAt(v, k) == IF k \in DOMAIN v.i THEN v.i[k] ELSE Invalid

IsGetter == 2
IsSetter == 4
LargeResultHint == 8
UserIDRequired == 32
NoFlags == 0
HasFlag(flags, f) == (flags \div f) % 2 = 1

\* The name of the type of a parameter or a result there is none of.
VOID_TYPE_NAME == "Null"

MetaMethod(name, flags, param, result, level) ==
  [name |-> name, flags |-> flags, paramType |-> param, resultType |-> result,
   accessLevel |-> level, signals |-> <<>>, label |-> "", description |-> "",
   extra |-> <<>>]

\* The constructor of SHV 2: a signature and the name of an access level.
Signatures == [VoidVoid  |-> <<VOID_TYPE_NAME, VOID_TYPE_NAME>>,
               VoidParam |-> <<"RpcValue", VOID_TYPE_NAME>>,
               RetVoid   |-> <<VOID_TYPE_NAME, "RpcValue">>,
               RetParam  |-> <<"RpcValue", "RpcValue">>]

signatureFromString(s) == IF s \in DOMAIN Signatures THEN s ELSE "VoidVoid"

MetaMethod2(name, signature, flags, access, description) ==
  [MetaMethod(name, flags, Signatures[signatureFromString(signature)][1],
              Signatures[signatureFromString(signature)][2],
              IF access \in DOMAIN Level THEN Level[access] ELSE Level.bws)
     EXCEPT !.description = description]

WithSignal(mm, name) == [mm EXCEPT !.signals = Put(@, name, Null)]
WithText(mm, description) == [mm EXCEPT !.description = description]

DIR == MetaMethod("dir", NoFlags, "DirParam", "DirResult", Level.bws)
LS  == MetaMethod("ls", NoFlags, "LsParam", "LsResult", Level.bws)

(***************************************************************************)
(* Encoding.                                                               *)
(***************************************************************************)
\* What the extra map of a description becomes when it is sent.
WithTexts(mm) ==
  LET own == [description |-> Text(mm.description), label |-> Text(mm.label)]
  IN  [k \in DOMAIN own \cup DOMAIN mm.extra |->
         IF k \in DOMAIN mm.extra THEN mm.extra[k] ELSE own[k]]

Ikey == [Name |-> 1, Flags |-> 2, ParamType |-> 3, ResultType |-> 4,
         AccessLevel |-> 5, Signals |-> 6, Extra |-> 7]

toRpcValue(mm) ==
  IMap(<<Text(mm.name), Num(mm.flags), Text(mm.paramType), Text(mm.resultType),
         Num(mm.accessLevel), Map(mm.signals), Map(WithTexts(mm))>>)

\* The flags are not part of the map.
toMap(mm) ==
  LET tags == [k \in DOMAIN mm.extra \ {"label", "description"} |-> mm.extra[k]]
      all == [name |-> Text(mm.name), param |-> Text(mm.paramType),
              result |-> Text(mm.resultType),
              access |-> Text(accessLevelToAccessString(mm.accessLevel)),
              signals |-> Map(mm.signals), label |-> Text(mm.label),
              description |-> Text(mm.description), tags |-> Map(tags)]
  IN  Map([k \in {"name"} \cup
                 {x \in DOMAIN all \ {"name"} :
                    all[x] # Text("") /\ all[x] # Map(<<>>)} |-> all[k]])

(***************************************************************************)
(* Decoding.  A description starts with an access level nobody set: unset  *)
(* stands for what happened to be in the memory.                           *)
(***************************************************************************)
NewMethod(unset) == MetaMethod("", NoFlags, "", "", unset)

levelFromString(s) == IF s \in DOMAIN Level THEN Level[s] ELSE None

applyAttributesMap(mm, m) ==
  LET text(k, old) == IF k \in DOMAIN m /\ m[k].t = "String" THEN m[k].s ELSE old
      map(k, old) == IF k \in DOMAIN m /\ m[k].t = "Map" THEN m[k].m ELSE old
      named(k, old) == IF k \in DOMAIN m /\ m[k].t = "String"
                       THEN levelFromString(m[k].s) ELSE old
  IN  [name        |-> text("name", mm.name),
       flags       |-> IF "flags" \in DOMAIN m THEN asInt(m["flags"]) ELSE mm.flags,
       paramType   |-> text("param", mm.paramType),
       resultType  |-> text("result", mm.resultType),
       accessLevel |-> IF "accessLevel" \in DOMAIN m /\ m["accessLevel"].t = "Int"
                       THEN accessLevelFromInt(m["accessLevel"].n)
                       ELSE named("accessGrant", named("access", mm.accessLevel)),
       signals     |-> map("signals", mm.signals),
       label       |-> text("label", mm.label),
       description |-> text("description", mm.description),
       extra       |-> map("tags", mm.extra)]

applyAttributesIMap(mm, v) ==
  LET level == iAt(v, Ikey.AccessLevel)
      extra == iAt(v, Ikey.Extra)
      sent(old, new) == IF extra.t = "Map" THEN new ELSE old
  IN  [name        |-> asText(iAt(v, Ikey.Name), ""),
       flags       |-> asInt(iAt(v, Ikey.Flags)),
       paramType   |-> asText(iAt(v, Ikey.ParamType), ""),
       resultType  |-> asText(iAt(v, Ikey.ResultType), ""),
       accessLevel |-> CASE level.t = "String" -> levelFromString(level.s)
                         [] level.t = "Int"    -> accessLevelFromInt(level.n)
                         [] OTHER              -> mm.accessLevel,
       signals     |-> asMap(iAt(v, Ikey.Signals)),
       label       |-> sent(mm.label, asText(At(extra, "label"), "")),
       description |-> sent(mm.description, asText(At(extra, "description"), "")),
       extra       |-> sent(mm.extra, asMap(extra))]

fromRpcValue(v, unset) ==
  CASE v.t = "String" -> [NewMethod(unset) EXCEPT !.name = v.s]
    [] v.t = "List" ->
         applyAttributesMap(
           [NewMethod(levelFromString(asText(Item(v, 4), "")))
              EXCEPT !.name = asText(Item(v, 1), ""), !.flags = asInt(Item(v, 3)),
                     !.description = asText(Item(v, 5), "")],
           asMap(Item(v, 6)))
    [] v.t = "Map"  -> applyAttributesMap(NewMethod(unset), v.m)
    [] v.t = "IMap" -> applyAttributesIMap(NewMethod(unset), v)
    [] OTHER        -> NewMethod(unset)
=============================================================================
