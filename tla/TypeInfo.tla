------------------------------ MODULE TypeInfo ------------------------------
(***************************************************************************)
(* ShvDeviceDescription and ShvTypeInfo                                    *)
(* (libshvcore/src/utils/shvtypeinfo.cpp): which property and which type a *)
(* path of a site has, how the tree of the nodes of a site becomes such a  *)
(* table, and the formats the table is saved in.  Paths are sequences of   *)
(* names.                                                                  *)
(***************************************************************************)
EXTENDS TypeDescr

(***************************************************************************)
(* ShvDeviceDescription                                                    *)
(***************************************************************************)
NewDevice == [properties |-> <<>>, restrictionOfDevice |-> "",
              siteSpecificLocalization |-> FALSE]

PropertyNames(ps) == {propertyName(ps[i]) : i \in DOMAIN ps}
LeastIndex(is) == CHOOSE i \in is : \A j \in is : i <= j

\* findProperty(): the first of the name, 0 when there is none.
findProperty(ps, n) ==
  LET found == {i \in DOMAIN ps : propertyName(ps[i]) = n}
  IN  IF found = {} THEN 0 ELSE LeastIndex(found)

\* Of equals the last.
findLongestPropertyPrefix(ps, path) ==
  LET fits == {i \in DOMAIN ps : IsPrefix(propertyName(ps[i]), path)}
      size(i) == Len(propertyName(ps[i]))
  IN  IF fits = {} THEN 0
      ELSE CHOOSE i \in fits : \A j \in fits : size(i) > size(j) \/ (size(i) = size(j) /\ i >= j)

setPropertyDescription(dd, d) ==
  LET i == findProperty(dd.properties, propertyName(d))
  IN  [dd EXCEPT !.properties = IF i = 0 THEN Append(@, d) ELSE [@ EXCEPT ![i] = d]]
removePropertyDescription(dd, n) ==
  LET i == findProperty(dd.properties, n)
  IN  [dd EXCEPT !.properties = IF i = 0 THEN @ ELSE RemoveAt(@, i)]

deviceToRpcValue(dd, unset) ==
  LET all == [restrictionOfDevice |-> Text(dd.restrictionOfDevice),
              siteSpecificLocalization |-> Bool(dd.siteSpecificLocalization),
              properties |-> List([i \in DOMAIN dd.properties |->
                                     propertyToRpcValue(dd.properties[i], unset)])]
  IN  Map([k \in {x \in DOMAIN all : all[x] # Text("") /\ all[x] # Bool(FALSE)} |-> all[k]])
deviceFromRpcValue(v) ==
  [properties |-> [i \in DOMAIN asList(At(v, "properties")) |->
                     propertyFromRpcValue(At(v, "properties").l[i])],
   restrictionOfDevice |-> asText(At(v, "restrictionOfDevice"), ""),
   siteSpecificLocalization |-> toBool(At(v, "siteSpecificLocalization"))]

(***************************************************************************)
(* ShvTypeInfo: the members and their setters.                             *)
(***************************************************************************)
NewInfo == [types |-> <<>>, devicePaths |-> <<>>, deviceDescriptions |-> <<>>,
            extraTags |-> <<>>, systemPathsRoots |-> <<>>, blacklistedPaths |-> <<>>,
            propertyDeviations |-> <<>>]

setDevicePath(ti, path, dt) == [ti EXCEPT !.devicePaths = Put(@, path, dt)]
setDeviceDescription(ti, dt, dd) == [ti EXCEPT !.deviceDescriptions = Put(@, dt, dd)]
deviceDescription(ti, dt) ==
  IF dt \in DOMAIN ti.deviceDescriptions THEN ti.deviceDescriptions[dt] ELSE NewDevice
setProperty(ti, dt, d) ==
  setDeviceDescription(ti, dt, setPropertyDescription(deviceDescription(ti, dt), d))
setExtraTags(ti, path, tags) == [ti EXCEPT !.extraTags = SetKey(@, path, tags)]
extraTags(ti, path) ==
  IF path \in DOMAIN ti.extraTags THEN ti.extraTags[path] ELSE Invalid
setTypeDescription(ti, tn, d) ==
  [ti EXCEPT !.types = IF isValid(d) THEN Put(@, tn, d) ELSE Del(@, tn)]
setPropertyDeviation(ti, path, d) == [ti EXCEPT !.propertyDeviations = Put(@, path, d)]

\* A list of paths, or a map of paths to more about each.  Paths in the list
\* are texts, in the map keys.
setBlacklist(ti, path, bl) ==
  LET listed == {path \o asText(asList(bl)[i], <<>>) : i \in DOMAIN asList(bl)}
      mapped == [p \in {path \o k : k \in DOMAIN asMap(bl)} |->
                   bl.m[SubSeq(p, Len(path) + 1, Len(p))]]
  IN  [ti EXCEPT !.blacklistedPaths =
         [p \in DOMAIN @ \cup listed \cup DOMAIN mapped |->
            IF p \in DOMAIN mapped THEN mapped[p]
            ELSE IF p \in DOMAIN @ THEN @[p] ELSE Invalid]]

(***************************************************************************)
(* What a path is.                                                         *)
(***************************************************************************)
Rest(path, prefix) == SubSeq(path, Len(prefix) + 1, Len(path))

\* find_longest_prefix(): parts are cut off the end until the map has it.
PrefixesIn(m, path) == {k \in DOMAIN m : IsPrefix(k, path)}
find_longest_prefix(m, path) ==
  CHOOSE k \in PrefixesIn(m, path) : \A l \in PrefixesIn(m, path) : Len(l) <= Len(k)

cut_sufix(path, postfix) ==
  IF Len(postfix) < Len(path) THEN SubSeq(path, 1, Len(path) - Len(postfix)) ELSE <<>>

isPathBlacklisted(ti, path) == PrefixesIn(ti.blacklistedPaths, path) # {}

findDeviceType(ti, path) ==
  IF PrefixesIn(ti.devicePaths, path) = {}
  THEN [device |-> <<>>, type |-> "", property |-> <<>>]
  ELSE LET p == find_longest_prefix(ti.devicePaths, path)
       IN  [device |-> p, type |-> ti.devicePaths[p], property |-> Rest(path, p)]

FoundProperty(ps, i, path) ==
  IF i = 0 THEN [descr |-> NoDescr, field |-> <<>>]
  ELSE [descr |-> ps[i], field |-> Rest(path, propertyName(ps[i]))]
findPropertyDescription(ti, dt, path) ==
  LET ps == deviceDescription(ti, dt).properties
  IN  FoundProperty(ps, findLongestPropertyPrefix(ps, path), path)

Deviation(ti, path) == find_longest_prefix(ti.propertyDeviations, path)
DeviatedInfo(ti, path, found, p) ==
  LET d == ti.propertyDeviations[p]
      n == cut_sufix(Rest(path, found.device), Rest(path, p))
  IN  [devicePath |-> found.device, deviceType |-> found.type, fieldPath |-> Rest(path, p),
       descr |-> IF isValid(d) THEN setName(d, n) ELSE d]
DeviceInfo(found, pd) ==
  [devicePath |-> found.device, deviceType |-> found.type,
   fieldPath |-> IF isValid(pd.descr) THEN pd.field ELSE <<>>,
   descr |-> IF isValid(pd.descr) THEN pd.descr ELSE NoDescr]
DescribedInfo(ti, path, found) ==
  IF PrefixesIn(ti.propertyDeviations, path) # {}
  THEN DeviatedInfo(ti, path, found, Deviation(ti, path))
  ELSE DeviceInfo(found, findPropertyDescription(ti, found.type, found.property))
pathInfo(ti, path) == DescribedInfo(ti, path, findDeviceType(ti, path))

findTypeDescription(ti, tn) == IF tn \in DOMAIN ti.types THEN ti.types[tn] ELSE TypeDescrOf(tn)
typeDescriptionForPath(ti, path) == findTypeDescription(ti, typeName(pathInfo(ti, path).descr))

findSystemPath(ti, path) ==
  IF PrefixesIn(ti.systemPathsRoots, path) = {} THEN ""
  ELSE ti.systemPathsRoots[find_longest_prefix(ti.systemPathsRoots, path)]

\* forEachProperty(): the paths it reports, and the descriptions it gives.
forEachProperty(ti) ==
  UNION {{[path |-> p \o propertyName(d), descr |-> d] :
            d \in {x \in ToSet(deviceDescription(ti, ti.devicePaths[p]).properties) :
                     propertyName(x) # <<>>}} :
         p \in DOMAIN ti.devicePaths}

(***************************************************************************)
(* Values as their descriptions want them.  More of a decimal or a double  *)
(* than the whole number in it is not told apart.                          *)
(***************************************************************************)
Decimal(n) == [t |-> "Decimal", n |-> n]
Double(n) == [t |-> "Double", n |-> n]
DateTime(n) == [t |-> "DateTime", n |-> n]
UNKNOWN == "UNKNOWN_"
Number(v) == IF v.t \in {"Int", "Decimal", "Double", "DateTime"} THEN v.n ELSE 0
MathNumber(v) == IF v.t \in {"Int", "Decimal", "Double"} THEN v.n ELSE 0
IsTrue(v) == toBool(v) \/ Number(v) # 0

EnumName(fs, n) ==
  LET found == {i \in DOMAIN fs : asInt(bitRange(fs[i])) = n}
  IN  Text(IF found = {} THEN UNKNOWN ELSE fieldName(fs[LeastIndex(found)]))

FieldNames(fs) == {fieldName(fs[i]) : i \in DOMAIN fs}
RECURSIVE applyTypeDescription(_, _, _, _, _, _)
applyTypeDescription(ti, v, d, enums, bitfields, wide) ==
  LET t == typeToString(type(d))
      named(x, tn, bf) == applyTypeDescription(ti, x, findTypeDescription(ti, tn), enums, bf, wide)
      part(f) == named(bitfieldValue(f, Number(v), wide), typeName(f), TRUE)
  IN  CASE t = "" -> v
        [] t = "BitField" ->
             IF bitfields THEN Map([n \in FieldNames(fields(d)) |-> part(field(d, n))]) ELSE v
        [] t = "Enum" -> IF enums THEN EnumName(fields(d), Number(v)) ELSE Num(Number(v))
        [] t = "Bool" -> Bool(IsTrue(v))
        [] t \in {"UInt", "Int"} -> Num(Number(v))
        [] t = "Decimal" -> IF v.t = "Decimal" THEN v ELSE Decimal(MathNumber(v))
        [] t = "Double" -> Double(MathNumber(v))
        [] t = "String" -> Text(asText(v, ""))
        [] t = "DateTime" -> IF v.t = "DateTime" THEN v ELSE DateTime(0)
        [] t = "List" -> List(asList(v))
        [] t = "Map" -> Map([n \in DOMAIN asMap(v) |->
                               named(v.m[n], typeName(field(d, n)), bitfields)])
        [] t = "IMap" -> IF v.t = "IMap" THEN v ELSE IMap(<<>>)

(***************************************************************************)
(* The tree of nodes.  A node is a reference to a node type, or it has     *)
(* methods, tags and children in the order of their names.  st holds the   *)
(* table so far and the properties of the device the node belongs to.      *)
(***************************************************************************)
NoNode == [ref |-> "", methods |-> <<>>, tags |-> <<>>, kids |-> <<>>, valid |-> FALSE]

NodeMethods(node, unset) ==
  SelectSeq([i \in DOMAIN node.methods |-> fromRpcValue(node.methods[i], unset)],
            LAMBDA mm : mm.name \notin {"ls", "dir"})

\* The key has the path within the device, not that of the site.
MethodTags(ti, path, mms) ==
  LET own == [p \in {path \o <<"method", mms[i].name>> :
                       i \in {j \in DOMAIN mms : mms[j].extra # <<>>}} |->
                Map(mms[CHOOSE i \in DOMAIN mms : mms[i].name = p[Len(p)]].extra)]
  IN  [ti EXCEPT !.extraTags = own @@ @]

\* createFromTypeName is an obsolete tag.
PropertyMap(node, mms) ==
  LET tags == Del(node.tags, "createFromTypeName")
  IN  Map(IF mms = <<>> THEN tags
          ELSE Put(tags, "methods", List([i \in DOMAIN mms |-> toRpcValue(mms[i])])))

SystemPath(ti, path, v) ==
  IF asText(v, "") = "" THEN ti ELSE [ti EXCEPT !.systemPathsRoots = Put(@, path, v.s)]
Blacklisted(ti, path, v) == IF v.t = "Invalid" THEN ti ELSE setBlacklist(ti, path, v)
Tagged(ti, path, tags) == IF tags = <<>> THEN ti ELSE setExtraTags(ti, path, Map(tags))
WithExtra(ti, path, extra) ==
  Tagged(Blacklisted(SystemPath(ti, path, At(Map(extra), "systemPath")),
                     path, At(Map(extra), "blacklist")),
         path, Del(Del(extra, "systemPath"), "blacklist"))

\* A property that differs, that only the new or that only the old definition
\* of the device type has.
Deviations(path, old, new) ==
  LET at(ps, n) == IF findProperty(ps, n) = 0 THEN NoDescr ELSE ps[findProperty(ps, n)]
  IN  [p \in {path \o n : n \in {x \in PropertyNames(old) \cup PropertyNames(new) : at(old, x) # at(new, x)}} |->
         at(new, Rest(p, path))]

\* The slip of letting every definition of a type replace the one before.
CloseAndReplace(ti, path, dt, ps) ==
  setDeviceDescription(setDevicePath(ti, path, dt), dt, [NewDevice EXCEPT !.properties = ps])
CloseDevice(ti, path, dt, ps) ==
  LET placed == setDevicePath(ti, path, dt)
  IN  IF dt \notin DOMAIN ti.deviceDescriptions
      THEN setDeviceDescription(placed, dt, [NewDevice EXCEPT !.properties = ps])
      ELSE [placed EXCEPT !.propertyDeviations =
              Deviations(path, ti.deviceDescriptions[dt].properties, ps) @@ @]

AddProperty(ps, d, n) == IF isValid(d) THEN Append(ps, setName(d, n)) ELSE ps

\* here: the device and the path within it; top: no device yet.
Here(node, dt, dpath, ppath) ==
  LET own == asText(At(Map(node.tags), "deviceType"), "")
  IN  IF own = "" THEN [type |-> dt, device |-> dpath, property |-> ppath, new |-> FALSE]
      ELSE [type |-> own, device |-> dpath \o ppath, property |-> <<>>, new |-> TRUE]

RECURSIVE fromNodesTree_helper(_, _, _, _, _, _, _)
RECURSIVE Children(_, _, _, _, _)
Children(env, st, kids, here, i) ==
  IF i > Len(kids) THEN st
  ELSE Children(env, IF kids[i].name = "" THEN st
                     ELSE fromNodesTree_helper(env, st, kids[i].node, here.type, here.device,
                                               Append(here.property, kids[i].name), FALSE),
                kids, here, i + 1)
NodeDescr(node, map, st, mms, ppath, here, fresh) ==
  LET d == propertyFromRpcValue(map)
  IN  [ti |-> WithExtra(MethodTags(st.ti, ppath, mms), here.device \o here.property,
                        extraTagsOf(map)),
       ps |-> AddProperty(IF fresh THEN <<>> ELSE st.ps, d, here.property),
       leaf |-> typeName(d) # "" \/ "createFromTypeName" \in DOMAIN node.tags]
AfterKids(st, outer, here, fresh) ==
  IF fresh THEN [ti |-> CloseDevice(st.ti, here.device, here.type, st.ps), ps |-> outer] ELSE st
NodeOf(env, st, node, mms, ppath, here, fresh) ==
  LET own == NodeDescr(node, PropertyMap(node, mms), st, mms, ppath, here, fresh)
      inner == [ti |-> own.ti, ps |-> own.ps]
  IN  AfterKids(IF own.leaf THEN inner ELSE Children(env, inner, node.kids, here, 1),
                st.ps, here, fresh)
\* Where a node enters a device of its own.
fromNodesTree_helper(env, st, node, dt, dpath, ppath, top) ==
  IF ~node.valid THEN st
  ELSE IF node.ref # ""
  THEN fromNodesTree_helper(env, st,
         IF node.ref \in DOMAIN env.nodeTypes THEN env.nodeTypes[node.ref] ELSE NoNode,
         dt, dpath, ppath, top)
  ELSE NodeOf(env, st, node, NodeMethods(node, env.unset), ppath, Here(node, dt, dpath, ppath),
              top \/ Here(node, dt, dpath, ppath).new)

NamedType(d, n) == IF typeName(d) = "" THEN setTypeName(d, n) ELSE d
fromNodesTree(tree, unset) ==
  LET start == [NewInfo EXCEPT !.types =
                  [n \in DOMAIN tree.types |-> NamedType(typeFromRpcValue(tree.types[n]), n)]]
  IN  fromNodesTree_helper([nodeTypes |-> tree.nodeTypes, unset |-> unset],
                           [ti |-> start, ps |-> <<>>], tree.root, "", <<>>, <<>>, TRUE).ti

(***************************************************************************)
(* Formats.  A value without a type is written as null.                    *)
(***************************************************************************)
Written(v) == IF v.t = "Invalid" THEN Null ELSE v
Each(f, Conv(_)) == [k \in DOMAIN f |-> Conv(f[k])]

infoToRpcValue(ti, unset) ==
  [version |-> 4,
   map |-> [types |-> Map(Each(ti.types, typeToRpcValue)),
            devicePaths |-> Map(Each(ti.devicePaths, Text)),
            deviceDescriptions |->
              Map([k \in DOMAIN ti.deviceDescriptions |->
                     deviceToRpcValue(ti.deviceDescriptions[k], unset)]),
            extraTags |-> Map(ti.extraTags),
            systemPathsRoots |-> Map(Each(ti.systemPathsRoots, Text)),
            blacklistedPaths |-> Map(Each(ti.blacklistedPaths, Written)),
            propertyDeviations |->
              Map([k \in DOMAIN ti.propertyDeviations |->
                     Written(propertyToRpcValue(ti.propertyDeviations[k], unset))])]]

\* The properties of version 3 and of version 2 are maps with the path as key;
\* std::map keeps them in the order of the paths, which order gives.
OldTypeName(d, v, version) == IF version = 2 THEN setTypeName(d, asText(At(v, "type"), "")) ELSE d
PropertiesAt(m, order, version) ==
  [i \in DOMAIN order |->
     LET v == m[order[i]] IN setName(OldTypeName(propertyFromRpcValue(v), v, version), order[i])]

FromVersion4(map) ==
  [types |-> Each(asMap(At(map, "types")), typeFromRpcValue),
   devicePaths |-> [k \in DOMAIN asMap(At(map, "devicePaths")) |->
                      asText(At(map, "devicePaths").m[k], "")],
   deviceDescriptions |-> Each(asMap(At(map, "deviceDescriptions")), deviceFromRpcValue),
   extraTags |-> asMap(At(map, "extraTags")),
   systemPathsRoots |-> [k \in DOMAIN asMap(At(map, "systemPathsRoots")) |->
                           asText(At(map, "systemPathsRoots").m[k], "")],
   blacklistedPaths |-> asMap(At(map, "blacklistedPaths")),
   propertyDeviations |-> Each(asMap(At(map, "propertyDeviations")), propertyFromRpcValue)]
FromVersion3(map, order) ==
  [FromVersion4(map) EXCEPT !.deviceDescriptions =
     [dt \in DOMAIN asMap(At(map, "deviceProperties")) |->
        [NewDevice EXCEPT !.properties =
           PropertiesAt(At(map, "deviceProperties").m[dt].m, order[dt], 3)]]]
FromVersion2(map, order) ==
  [NewInfo EXCEPT
     !.types = Each(asMap(At(map, "types")), typeFromRpcValue),
     !.deviceDescriptions =
        Put(<<>>, "", [NewDevice EXCEPT !.properties =
                         PropertiesAt(At(map, "paths").m, order[""], 2)])]

WithSystemPath(ti) ==
  IF DOMAIN ti.systemPathsRoots # {} THEN ti
  ELSE [ti EXCEPT !.systemPathsRoots = Put(@, <<>>, "system")]
infoFromRpcValue(f, unset) ==
  WithSystemPath(
    CASE f.version = 4 -> FromVersion4(Map(f.map))
      [] f.version = 3 -> FromVersion3(Map(f.map), f.order)
      [] f.version \notin {3, 4} /\ {"paths", "types"} \subseteq DOMAIN f.map ->
           FromVersion2(Map(f.map), f.order)
      [] OTHER -> fromNodesTree(f.map, unset))

(***************************************************************************)
(* ShvAlarm (libshvcore/src/utils/shvalarm.cpp): the alarms a value of a   *)
(* property stands for, their order and what is sent of them.              *)
(***************************************************************************)
\* NecroLogLevel: the worst first, 0 is invalid.
Severities == [fatal |-> 1, error |-> 2, warning |-> 3]
InvalidSeverity == 0
severityFromString(s) == IF s \in DOMAIN Severities THEN Severities[s] ELSE InvalidSeverity

Alarm(path, active, d, severity) ==
  [path |-> path, isActive |-> active, description |-> description(d), label |-> label(d),
   level |-> alarmLevel(d), severity |-> severity]

isLessSevere(a, b) ==
  IF a.severity = b.severity THEN a.level < b.level
  ELSE a.severity = InvalidSeverity \/ a.severity > b.severity

SameAlarm(a, b) ==
  \A k \in {"severity", "isActive", "level", "path"} : a[k] = b[k]

alarmToRpcValue(a, all) ==
  LET sent == [path |-> Text(a.path), isActive |-> Bool(a.isActive),
               severity |-> Num(a.severity), alarmLevel |-> Num(a.level),
               description |-> Text(a.description), label |-> Text(a.label)]
      more == {k \in DOMAIN sent \ {"path", "isActive"} :
                 sent[k] # Num(0) /\ sent[k] # Text("") /\ (all \/ a.isActive)}
  IN  Map([k \in {"path", "isActive"} \cup more |-> sent[k]])

alarmFromRpcValue(v) ==
  [path |-> asText(At(v, "path"), <<>>), isActive |-> toBool(At(v, "isActive")),
   description |-> asText(At(v, "description"), ""), label |-> asText(At(v, "label"), ""),
   level |-> asInt(At(v, "alarmLevel")), severity |-> asInt(At(v, "severity"))]

(***************************************************************************)
(* checkAlarms() and checkStateAlarms(): key is "alarm" or "stateAlarm".   *)
(***************************************************************************)
\* RpcValue::operator==: a bool against a number compares as bool.
SameValue(v, w) == IF v.t = "Bool" \/ w.t = "Bool" THEN toBool(v) = toBool(w) /\ {v.t, w.t} \subseteq {"Bool", "Int"}
                   ELSE v = w

\* The slip of reporting only what is active.
EnumAlarmsActive(path, fs, v, key) ==
  LET active == {i \in DOMAIN fs : getAlarm(fs[i], key) # "" /\ SameValue(v, bitRange(fs[i]))}
      one == CHOOSE i \in active : \A j \in active : i >= j
  IN  IF active = {} THEN <<>>
      ELSE <<Alarm(path, TRUE, fs[one], severityFromString(getAlarm(fs[one], key)))>>
\* The last field with an alarm that has the value.  An enum of alarms
\* reports also that there is none.
EnumAlarms(path, fs, v, key) ==
  LET armed == {i \in DOMAIN fs : getAlarm(fs[i], key) # ""}
      active == {i \in armed : SameValue(v, bitRange(fs[i]))}
      one == CHOOSE i \in active : \A j \in active : i >= j
  IN  IF armed = {} THEN <<>>
      ELSE IF active = {} THEN <<Alarm(path, FALSE, NoDescr, InvalidSeverity)>>
      ELSE <<Alarm(path, TRUE, fs[one], severityFromString(getAlarm(fs[one], key)))>>

RECURSIVE typeAlarms(_, _, _, _, _, _), BitFieldAlarms(_, _, _, _, _, _)
BitFieldAlarms(ti, path, fs, u, key, wide) ==
  IF fs = <<>> THEN <<>>
  ELSE LET f == Head(fs)
           at == Append(path, fieldName(f))
           v == bitfieldValue(f, u, wide)
       IN  (IF getAlarm(f, key) # ""
            THEN <<Alarm(at, toBool(v), f, severityFromString(getAlarm(f, key)))>>
            ELSE typeAlarms(ti, at, findTypeDescription(ti, typeName(f)), v, key, wide))
           \o BitFieldAlarms(ti, path, Tail(fs), u, key, wide)
typeAlarms(ti, path, d, v, key, wide) ==
  CASE type(d) = TypeOf("BitField") -> BitFieldAlarms(ti, path, fields(d), toUInt(v), key, wide)
    [] type(d) = TypeOf("Enum")     -> EnumAlarms(path, fields(d), v, key)
    [] OTHER                        -> <<>>

PropertyAlarms(ti, path, d, v, key, wide) ==
  IF getAlarm(d, key) # ""
  THEN <<Alarm(path, toBool(v), d, severityFromString(getAlarm(d, key)))>>
  ELSE typeAlarms(ti, path, findTypeDescription(ti, typeName(d)), v, key, wide)
checkAlarms(ti, path, v, key, wide) ==
  IF v.t = "Null" \/ ~isValid(pathInfo(ti, path).descr) THEN <<>>
  ELSE PropertyAlarms(ti, path, pathInfo(ti, path).descr, v, key, wide)
=============================================================================
