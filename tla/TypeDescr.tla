----------------------------- MODULE TypeDescr -----------------------------
(***************************************************************************)
(* Descriptions of types, of their fields and of properties                *)
(* (libshvcore/src/utils/shvtypeinfo.cpp, up to ShvPropertyDescr).  All    *)
(* of them are one RPC map and differ in the keys they look at.  The name  *)
(* of a property is a path, a sequence of names; that of a field is one    *)
(* name.                                                                   *)
(***************************************************************************)
EXTENDS RpcBasics

CONSTANT Width  \* bits of a bit field; 64 in the code

ASSUME WidthAssumption == Width \in Nat \ {0}

(***************************************************************************)
(* ShvDescriptionBase                                                      *)
(***************************************************************************)
NoDescr == Invalid

dataValue(d, key) == At(d, key)
isValid(d) == DOMAIN asMap(d) # {}

\* RpcMap::setValue(): an invalid value erases the key.
SetKey(m, key, v) == IF v.t = "Invalid" THEN Del(m, key) ELSE Put(m, key, v)
setDataValue(d, key, v) == Map(SetKey(asMap(d), key, v))

\* What stands beside the tags wins over them.
mergeTags(m) ==
  IF "tags" \notin DOMAIN m THEN m
  ELSE LET own == Del(m, "tags")
           tags == asMap(m["tags"])
       IN  [k \in DOMAIN own \cup DOMAIN tags |->
              IF k \in DOMAIN own THEN own[k] ELSE tags[k]]

setData(d, data) == IF data.t = "Map" THEN Map(mergeTags(data.m)) ELSE d

(***************************************************************************)
(* ShvTypeDescr: types are numbers, 0 is invalid.                          *)
(***************************************************************************)
TypeNames == <<"BitField", "Enum", "Bool", "UInt", "Int", "Decimal", "Double",
               "String", "DateTime", "List", "Map", "IMap">>
InvalidType == 0
TypeOf(s) == CHOOSE t \in DOMAIN TypeNames : TypeNames[t] = s

typeToString(t) == IF t \in DOMAIN TypeNames THEN TypeNames[t] ELSE ""
typeFromString(s) ==
  IF \E t \in DOMAIN TypeNames : TypeNames[t] = s THEN TypeOf(s) ELSE InvalidType

type(d) == asInt(dataValue(d, "type"))
setType(d, t) == setDataValue(d, "type", Num(t))

typeName(d) ==
  LET own == asText(dataValue(d, "typeName"), "")
  IN  IF own # "" THEN own ELSE typeToString(type(d))

setTypeName(d, s) ==
  LET named == setDataValue(d, "typeName", Text(s))
  IN  IF type(named) = InvalidType THEN setType(named, typeFromString(s)) ELSE named

Continuous == 1
Discrete == 2
sampleType(d) ==
  IF asInt(dataValue(d, "sampleType")) = 0 THEN Continuous
  ELSE asInt(dataValue(d, "sampleType"))
setSampleType(d, st) == setDataValue(d, "sampleType", Num(st))
sampleTypeToString(st) == IF st = Discrete THEN "Discrete" ELSE "Continuous"
sampleTypeFromString(s) ==
  IF s \in {"2", "D", "Discrete", "discrete"} THEN Discrete ELSE Continuous

\* setDecimalPlaces(), setUnit(), setLabel(), setDescription() and
\* setVisualStyleName(): one key each.
AttributeSetters == {"decPlaces", "unit", "label", "description", "visualStyle"}
decimalPlaces(d) == asInt(dataValue(d, "decPlaces"))
label(d) == asText(dataValue(d, "label"), "")
description(d) == asText(dataValue(d, "description"), "")

(***************************************************************************)
(* ShvFieldDescr                                                           *)
(***************************************************************************)
ShvFieldDescr(n, tn, value, tags) ==
  setDataValue(setDataValue(setDataValue(setData(NoDescr, Map(tags)), "name", Text(n)),
                            "typeName", Text(tn)), "value", value)

fieldName(d) == asText(dataValue(d, "name"), "")
setName(d, n) == setDataValue(d, "name", Text(n))

\* alarm() or stateAlarm(), by the key.
getAlarm(d, key) == asText(dataValue(d, key), "")
alarmLevel(d) == asInt(dataValue(d, "alarmLevel"))

fieldToRpcValue(d) ==
  IF description(d) = "" /\ d.t = "Map" THEN Map(Del(d.m, "description")) ELSE d
fieldFromRpcValue(v) == setData(NoDescr, v)

fields(d) == [i \in DOMAIN asList(dataValue(d, "fields")) |->
                fieldFromRpcValue(dataValue(d, "fields").l[i])]
setFields(d, fs) ==
  setDataValue(d, "fields", List([i \in DOMAIN fs |-> fieldToRpcValue(fs[i])]))

field(d, n) ==
  LET found == {i \in DOMAIN fields(d) : fieldName(fields(d)[i]) = n}
  IN  IF found = {} THEN NoDescr
      ELSE fields(d)[CHOOSE i \in found : \A j \in found : i <= j]

ShvTypeDescr(t, fs, st, tags) == setSampleType(setFields(setType(Map(tags), t), fs), st)
TypeDescrOf(name) == ShvTypeDescr(typeFromString(name), <<>>, Continuous, <<>>)

(***************************************************************************)
(* Bit fields.  A shift by the whole width or more is undefined; the       *)
(* builds leave everything (wide: the shifted ones are gone, the mask is   *)
(* full) or nothing (the count is taken modulo the width).                 *)
(***************************************************************************)
KeptBits(n, wide) == IF n < Width THEN n ELSE IF wide THEN Width ELSE n % Width

toUInt(v) == asInt(v)
toBool(v) == (v.t = "Bool" /\ v.b) \/ (v.t = "Int" /\ v.n # 0)
bitRange(d) == dataValue(d, "value")

bitRangePair(d) ==
  LET lo == toUInt(Item(bitRange(d), 1))
      hi == toUInt(Item(bitRange(d), 2))
  IN  IF bitRange(d).t = "List" THEN <<lo, IF hi < lo THEN lo ELSE hi>>
      ELSE <<toUInt(bitRange(d)), toUInt(bitRange(d))>>

BitsOf(u, lo, hi, wide) ==
  LET uval == (u % 2^KeptBits(hi + 1, wide)) \div 2^lo
  IN  IF lo = hi THEN Bool(uval # 0) ELSE Num(uval)
bitfieldValue(d, u, wide) ==
  IF ~isValid(d) THEN Invalid
  ELSE BitsOf(u, bitRangePair(d)[1], bitRangePair(d)[2], wide)

ReplaceBits(bits, u, lo, hi, wide) ==
  LET size == 2^KeptBits(hi - lo + 1, wide)
  IN  (bits - ((bits \div 2^lo) % size) * 2^lo) + (u % size) * 2^lo
setBitfieldValue(d, bits, u, wide) ==
  IF ~isValid(d) THEN u
  ELSE ReplaceBits(bits, u, bitRangePair(d)[1], bitRangePair(d)[2], wide)

fieldValue(d, v, n, wide) ==
  CASE type(d) = TypeOf("BitField") -> bitfieldValue(field(d, n), toUInt(v), wide)
    [] type(d) = TypeOf("Map")      -> At(v, n)
    [] type(d) = TypeOf("Enum")     -> Num(asInt(bitRange(field(d, n))))
    [] OTHER                        -> Invalid

(***************************************************************************)
(* Types as RPC values.                                                    *)
(***************************************************************************)
WithoutEmptyFields(m) ==
  IF "fields" \in DOMAIN m /\ asList(m["fields"]) = <<>> THEN Del(m, "fields") ELSE m

typeToRpcValue(d) ==
  LET named == Del(Del(Put(asMap(d), "typeName", Text(typeName(d))), "name"), "type")
      sampled == IF sampleType(d) = Continuous THEN Del(named, "sampleType")
                 ELSE Put(named, "sampleType", Text(sampleTypeToString(sampleType(d))))
  IN  Map(WithoutEmptyFields(sampled))

\* The obsolete keys are looked at while the type is not known.  A name that
\* is none of the basic ones sets the type to invalid, as a number, so the
\* next key is not found to be a string any more.
TypeFromKey(d, key) ==
  IF dataValue(d, key).t = "String" THEN setTypeName(d, dataValue(d, key).s) ELSE d
TypeFromKeyIfUnknown(d, key) == IF type(d) = InvalidType THEN TypeFromKey(d, key) ELSE d
SampledFromText(d) ==
  IF dataValue(d, "sampleType").t = "String"
  THEN setSampleType(d, sampleTypeFromString(dataValue(d, "sampleType").s)) ELSE d

FieldsTagged(v) ==
  LET fs == asList(At(v, "fields"))
  IN  Map(Put(mergeTags(Del(asMap(v), "fields")), "fields",
              List([i \in DOMAIN fs |-> Map(mergeTags(asMap(fs[i])))])))
typeFromRpcValue(v) ==
  SampledFromText(TypeFromKeyIfUnknown(TypeFromKeyIfUnknown(
    TypeFromKey(FieldsTagged(v), "typeName"), "name"), "type"))

(***************************************************************************)
(* ShvPropertyDescr                                                        *)
(***************************************************************************)
propertyName(d) == asText(dataValue(d, "name"), <<>>)
ShvPropertyDescr(path, tn) == ShvFieldDescr(path, tn, Invalid, <<>>)

methodsOf(d, unset) == [i \in DOMAIN asList(dataValue(d, "methods")) |->
                          fromRpcValue(dataValue(d, "methods").l[i], unset)]
SetMethods(d, mms) ==
  setDataValue(d, "methods", List([i \in DOMAIN mms |-> toRpcValue(mms[i])]))

method(d, n, unset) ==
  LET found == {i \in DOMAIN methodsOf(d, unset) : methodsOf(d, unset)[i].name = n}
  IN  IF found = {} THEN NewMethod(unset)
      ELSE methodsOf(d, unset)[CHOOSE i \in found : \A j \in found : i <= j]

addMethod(d, mm) ==
  setDataValue(d, "methods", List(Append(asList(dataValue(d, "methods")), toRpcValue(mm))))
setMethod(d, mm, unset) ==
  LET old == methodsOf(d, unset)
      found == {i \in DOMAIN old : old[i].name = mm.name}
  IN  SetMethods(d, IF found = {} THEN Append(old, mm)
                    ELSE [old EXCEPT ![CHOOSE i \in found : \A j \in found : i <= j] = mm])

propertyToRpcValue(d, unset) ==
  LET own == fieldToRpcValue(d)
      mml == methodsOf(d, unset)
  IN  IF mml = <<>> THEN own
      ELSE setDataValue(own, "methods", List([i \in DOMAIN mml |-> toMap(mml[i])]))

\* The slip of forgetting one of them.
KnownTagsNoUnit == {"name", "typeName", "label", "description", "methods", "autoload",
                    "autorefresh", "monitored", "monitorOptions", "nocache", "sampleType",
                    "alarm", "stateAlarm", "alarmLevel", "listTypeName"}
KnownTags == {"name", "typeName", "label", "description", "unit", "methods",
              "autoload", "autorefresh", "monitored", "monitorOptions", "nocache",
              "sampleType", "alarm", "stateAlarm", "alarmLevel", "listTypeName"}

\* deviceType is known and dropped.
propertyFromRpcValue(v) ==
  setData(NoDescr, Map([k \in DOMAIN asMap(v) \cap KnownTags |-> v.m[k]]))
extraTagsOf(v) == [k \in DOMAIN asMap(v) \ (KnownTags \cup {"deviceType"}) |-> v.m[k]]
=============================================================================
