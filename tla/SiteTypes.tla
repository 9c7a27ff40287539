----------------------------- MODULE SiteTypes -----------------------------
(***************************************************************************)
(* The table of types of a site over its life: it is read from the tree of *)
(* the nodes or from a file of one of the versions, edited, saved and read *)
(* back, and a client uses it to take the values of one property apart and *)
(* to keep the alarms they stand for.                                      *)
(***************************************************************************)
EXTENDS TypeInfo

CONSTANTS
  Files,       \* name |-> a tree or a file of an earlier version
  MaxEdits,    \* bound on edits of one table
  EditPaths,   \* paths the edits are about
  EditNames,   \* names of types the edits are about
  Probes,      \* paths that are asked for
  Watchable,   \* paths of values
  Values,      \* numbers a value may be
  Unsets       \* access levels the memory may hold where none is set

VARIABLES
  source,   \* the name of the file that was read first
  info,     \* ShvTypeInfo
  edits,    \* edits so far
  wide,     \* what the build of the client makes of a shift by the whole width
  kind,     \* the alarms the client asks for, those of faults or those of states
  watched,  \* the path of the client, <<>> when there is none
  value,    \* the last value that was not null
  alarms    \* the alarms of the client by path

vars == <<source, info, edits, wide, kind, watched, value, alarms>>
client == <<wide, kind, watched, value, alarms>>

Quiet == wide = FALSE /\ kind = "alarm" /\ watched = <<>> /\ value = 0 /\ alarms = <<>>

Init ==
  /\ source \in DOMAIN Files
  /\ \E unset \in Unsets : info = infoFromRpcValue(Files[source], unset)
  /\ edits = 0
  /\ Quiet

(***************************************************************************)
(* Files.                                                                  *)
(***************************************************************************)
\* The table is saved and read back, by this or by another program.
Reload ==
  /\ watched = <<>>
  /\ \E unset \in Unsets : info' = infoFromRpcValue(infoToRpcValue(info, unset), unset)
  /\ UNCHANGED <<source, edits, client>>

(***************************************************************************)
(* Edits.                                                                  *)
(***************************************************************************)
Edit(ti) ==
  /\ watched = <<>>
  /\ edits < MaxEdits
  /\ info' = ti
  /\ edits' = edits + 1
  /\ UNCHANGED <<source, client>>

EditProperties == {setDataValue(ShvPropertyDescr(p, "Status"), "unit", Text("V")) : p \in {<<"status">>, <<>>}}
EditTypes == {NoDescr, ShvTypeDescr(TypeOf("Enum"), <<>>, Discrete, <<>>)}
EditMethod == [MetaMethod2("reset", "VoidVoid", NoFlags, "cmd", "") EXCEPT !.label = "Reset"]

EditDevicePath == \E p \in EditPaths, dt \in DOMAIN info.deviceDescriptions :
                    Edit(setDevicePath(info, p, dt))
EditDevice == \E dt \in DOMAIN info.deviceDescriptions :
                Edit(setDeviceDescription(info, dt,
                       [deviceDescription(info, dt) EXCEPT !.restrictionOfDevice = "Base",
                                                           !.siteSpecificLocalization = TRUE]))
EditProperty == \E dt \in DOMAIN info.deviceDescriptions, d \in EditProperties :
                  Edit(setProperty(info, dt, d))
EditRemoved == \E dt \in DOMAIN info.deviceDescriptions :
                 \E n \in PropertyNames(deviceDescription(info, dt).properties) :
                   Edit(setDeviceDescription(info, dt,
                          removePropertyDescription(deviceDescription(info, dt), n)))
EditMethods == \E dt \in DOMAIN info.deviceDescriptions, unset \in Unsets :
                 LET ps == deviceDescription(info, dt).properties
                 IN  \E i \in DOMAIN ps :
                       \/ Edit(setProperty(info, dt, setMethod(ps[i], EditMethod, unset)))
                       \/ Edit(setProperty(info, dt, addMethod(ps[i], EditMethod)))
EditTags == \E p \in EditPaths, tags \in {Invalid, Map([layer |-> Text("top")])} :
              Edit(setExtraTags(info, p, tags))
EditType == \E tn \in EditNames, d \in EditTypes : Edit(setTypeDescription(info, tn, d))
EditAttribute == \E tn \in DOMAIN info.types \cap EditNames, key \in AttributeSetters :
                   Edit(setTypeDescription(info, tn, setDataValue(info.types[tn], key,
                          IF key = "decPlaces" THEN Num(2) ELSE Text("x"))))
EditDeviation == \E p \in EditPaths, d \in {NoDescr} \cup EditProperties :
                   Edit(setPropertyDeviation(info, p, d))
EditBlacklist == \E p \in EditPaths, bl \in {List(<<Text(<<"a">>)>>), Map(Put(<<>>, <<"a">>, Null))} :
                   Edit(setBlacklist(info, p, bl))

(***************************************************************************)
(* The client.                                                             *)
(***************************************************************************)
\* The alarms of a value replace those of the same path.
RECURSIVE WithAlarms(_, _)
WithAlarms(table, as) ==
  IF as = <<>> THEN table ELSE WithAlarms(Put(table, Head(as).path, Head(as)), Tail(as))

Received(path, v) == WithAlarms(alarms, checkAlarms(info, path, v, kind, wide))

Watch(path) ==
  /\ watched = <<>>
  /\ edits = 0
  /\ isValid(pathInfo(info, path).descr)
  /\ watched' = path
  /\ wide' \in BOOLEAN
  /\ kind' \in {"alarm", "stateAlarm"}
  /\ value' = 0
  /\ alarms' = WithAlarms(<<>>, checkAlarms(info, path, Num(0), kind', wide'))
  /\ UNCHANGED <<source, info, edits>>
Unwatch ==
  /\ watched # <<>>
  /\ wide' = FALSE
  /\ kind' = "alarm"
  /\ watched' = <<>>
  /\ value' = 0
  /\ alarms' = <<>>
  /\ UNCHANGED <<source, info, edits>>

ValueChanged(n) ==
  /\ watched # <<>>
  /\ value' = n
  /\ alarms' = Received(watched, Num(n))
  /\ UNCHANGED <<source, info, edits, wide, kind, watched>>
ValueIsNull ==
  /\ watched # <<>>
  /\ alarms' = Received(watched, Null)
  /\ UNCHANGED <<source, info, edits, wide, kind, watched, value>>

\* The client writes one field of the value.
WatchedType == typeDescriptionForPath(info, watched)
WriteField(f, u) ==
  /\ watched # <<>>
  /\ value' = setBitfieldValue(field(WatchedType, f), value, u, wide)
  /\ alarms' = Received(watched, Num(value'))
  /\ UNCHANGED <<source, info, edits, wide, kind, watched>>
WriteFields ==
  /\ watched # <<>>
  /\ type(WatchedType) = TypeOf("BitField")
  /\ \E f \in FieldNames(fields(WatchedType)), u \in Values : WriteField(f, u)

Next ==
  \/ Reload
  \/ EditDevicePath \/ EditDevice \/ EditProperty \/ EditRemoved \/ EditMethods
  \/ EditTags \/ EditType \/ EditAttribute \/ EditDeviation \/ EditBlacklist
  \/ \E p \in Watchable : Watch(p)
  \/ Unwatch
  \/ \E n \in Values : ValueChanged(n)
  \/ ValueIsNull
  \/ WriteFields

Spec == Init /\ [][Next]_vars
-----------------------------------------------------------------------------
(***************************************************************************)
(* Properties.                                                             *)
(***************************************************************************)
\* Every property of a device and every deviation has a path for a name, a
\* value fits its width and the client knows alarms of its own path only.
TypeOK ==
  /\ source \in DOMAIN Files
  /\ edits \in 0..MaxEdits
  /\ wide \in BOOLEAN /\ kind \in {"alarm", "stateAlarm"}
  /\ value \in 0..(2^Width - 1)
  /\ \A p \in DOMAIN alarms : IsPrefix(watched, p) /\ alarms[p].path = p
  /\ \A dt \in DOMAIN info.deviceDescriptions :
       LET ps == info.deviceDescriptions[dt].properties
       IN  \A i \in DOMAIN ps : isValid(ps[i]) /\ dataValue(ps[i], "name").t = "String"
  /\ \A p \in DOMAIN info.devicePaths : info.devicePaths[p] \in DOMAIN info.deviceDescriptions

\* What the tree says of a path: followed from the root, through references.
RECURSIVE Resolve(_, _)
Resolve(tree, node) ==
  IF node.ref = "" THEN node
  ELSE IF node.ref \in DOMAIN tree.nodeTypes THEN Resolve(tree, tree.nodeTypes[node.ref])
  ELSE NoNode
HasType(node) == {"typeName", "createFromTypeName"} \cap DOMAIN node.tags # {}
HasProperty(node) ==
  \/ DOMAIN node.tags \cap KnownTags # {}
  \/ \E i \in DOMAIN node.methods : fromRpcValue(node.methods[i], None).name \notin {"ls", "dir"}
RECURSIVE Below(_, _, _)
Below(tree, node, path) ==
  LET kids == {k \in ToSet(node.kids) : k.name = Head(path)}
  IN  IF path = <<>> THEN node
      ELSE IF kids = {} \/ HasType(node) THEN NoNode
      ELSE Below(tree, Resolve(tree, (CHOOSE k \in kids : TRUE).node), Tail(path))
NodeAt(tree, path) == Below(tree, Resolve(tree, tree.root), path)
Greatest(s) == CHOOSE n \in s : \A m \in s : m <= n
TreeAnswer(tree, path) ==
  LET at(k) == NodeAt(tree, SubSeq(path, 1, k))
      there == {k \in 0..Len(path) : at(k).valid}
      device == Greatest({0} \cup {k \in there : "deviceType" \in DOMAIN at(k).tags})
      owners == {k \in there : k >= device /\ HasProperty(at(k))}
      owner == Greatest(owners)
  IN  [device |-> SubSeq(path, 1, device),
       deviceType |-> asText(At(Map(at(device).tags), "deviceType"), ""),
       known |-> owners # {},
       property |-> IF owners = {} THEN <<>> ELSE SubSeq(path, device + 1, owner),
       typeName |-> IF owners = {} THEN "" ELSE asText(At(Map(at(owner).tags), "typeName"), ""),
       exists |-> at(Len(path)).valid \/ \E k \in there : HasType(at(k))]
InfoAnswer(i) ==
  [device |-> i.devicePath, deviceType |-> i.deviceType, known |-> isValid(i.descr),
   property |-> propertyName(i.descr), typeName |-> typeName(i.descr), exists |-> TRUE]

\* The deviation found for a path is that of another property: one whose path
\* is a part of this one, or one of an enclosing device.
Shadowed(path, answer) ==
  /\ PrefixesIn(info.propertyDeviations, path) # {}
  /\ \/ Deviation(info, path) # answer.device \o answer.property
     \/ \E o \in DOMAIN info.devicePaths :
          /\ IsStrictPrefix(o, answer.device)
          /\ Rest(Deviation(info, path), o) \in
               PropertyNames(deviceDescription(info, info.devicePaths[o]).properties)

IsTree == "root" \in DOMAIN Files[source].map
DescribedAs(path, answer) ==
  answer.exists /\ ~Shadowed(path, answer) => InfoAnswer(pathInfo(info, path)) = answer

\* pathInfo() tells of every node of the tree, and of the fields of its values,
\* the device and the property the tree itself gives it: whichever device of
\* the type came first, however its instances differ (lines 1345-1380) and
\* also after the table was saved and read back.
TreeIsDescribed ==
  edits = 0 /\ IsTree =>
    \A p \in Probes : DescribedAs(p, TreeAnswer(Files[source].map, p))

\* forEachProperty() reports the properties of the tree, each once with its
\* path, for all paths no deviation is about.
Listed == {x.path : x \in forEachProperty(info)}
EveryPropertyIsListed ==
  edits = 0 /\ IsTree =>
    \A p \in Probes :
      PrefixesIn(info.propertyDeviations, p) = {} /\ NodeAt(Files[source].map, p).valid =>
        ((p \in Listed) <=> (HasProperty(NodeAt(Files[source].map, p)) /\
                             TreeAnswer(Files[source].map, p).property # <<>>))

\* What the table answers for a path; the tags of a property that
\* fromRpcValue() does not know and the flags of methods are left out: they
\* are lost.
MethodsShown(d, unset) ==
  {[name |-> mm.name, param |-> mm.paramType, result |-> mm.resultType,
    level |-> mm.accessLevel, label |-> mm.label] : mm \in ToSet(methodsOf(d, unset))}
Answer(ti, path, i, unset) ==
  [at |-> InfoAnswer(i), label |-> label(i.descr), description |-> description(i.descr),
   unit |-> dataValue(i.descr, "unit"), alarm |-> getAlarm(i.descr, "alarm"),
   methods |-> MethodsShown(i.descr, unset), get |-> method(i.descr, "get", unset).name,
   field |-> i.fieldPath,
   type |-> type(findTypeDescription(ti, typeName(i.descr))),
   fields |-> fields(findTypeDescription(ti, typeName(i.descr))),
   sample |-> sampleType(findTypeDescription(ti, typeName(i.descr))),
   black |-> isPathBlacklisted(ti, path), system |-> findSystemPath(ti, path),
   tags |-> extraTags(ti, path),
   base |-> deviceDescription(ti, i.deviceType).restrictionOfDevice]
SameAnswers(one, two, unset) ==
  \A p \in Probes : Answer(one, p, pathInfo(one, p), unset) = Answer(two, p, pathInfo(two, p), unset)

\* A table that is saved and read back (toRpcValue(), fromRpcValue()) answers
\* as before, whatever it was read from and however it was edited.
ReloadKeepsAnswers ==
  watched = <<>> =>
    \A unset \in Unsets :
      SameAnswers(info, infoFromRpcValue(infoToRpcValue(info, unset), unset), unset)

\* The alarms the client keeps by path are those of the last value, whatever
\* values came before: every alarm that was raised is reported again when it
\* is over.
AlarmsAreCurrent ==
  watched # <<>> =>
    alarms = WithAlarms(<<>>, checkAlarms(info, watched, Num(value), kind, wide))

Active == {alarms[p] : p \in {q \in DOMAIN alarms : alarms[q].isActive}}

\* An alarm that is sent arrives as it was (toRpcValue(), fromRpcValue()), and
\* the active alarm no other one is more severe than (isLessSevere()) has the
\* severity that is worst.
AlarmsTravel ==
  /\ \A p \in DOMAIN alarms : SameAlarm(alarms[p], alarmFromRpcValue(alarmToRpcValue(alarms[p], TRUE)))
  /\ \A a \in Active : alarmFromRpcValue(alarmToRpcValue(a, FALSE)) = a
  /\ \A a \in Active : (\A b \in Active : ~isLessSevere(a, b)) =>
                         \A b \in Active : a.severity <= b.severity

\* A field that ends at the last bit cannot be read where the shift by the
\* whole width leaves nothing; a field of one bit whose type is a number or an
\* enum reads as 0, since a bool is no number.
Readable(f) ==
  /\ bitRangePair(f)[2] + 1 < Width \/ wide
  /\ bitRangePair(f)[1] = bitRangePair(f)[2] => typeName(f) \in {"", "Bool"}
AsBits(v) == IF v.t = "Bool" THEN (IF v.b THEN 1 ELSE 0) ELSE Number(v)
BitFieldWatched == watched # <<>> /\ type(WatchedType) = TypeOf("BitField")

Reads(d, n, u) == AsBits(fieldValue(d, Num(u), n, wide))

\* The fields applyTypeDescription() and fieldValue() take out of a value are
\* the same, and setBitfieldValue() with what was read changes nothing.
Rebuilds(d, n, applied) ==
  Readable(field(d, n)) =>
    /\ AsBits(applied[n]) = Reads(d, n, value)
    /\ setBitfieldValue(field(d, n), value, AsBits(applied[n]), wide) = value
FieldsRebuildTheValue ==
  BitFieldWatched =>
    \E d \in {WatchedType} :
      \E applied \in {applyTypeDescription(info, Num(value), d, FALSE, TRUE, wide).m} :
        \A n \in FieldNames(fields(d)) : Rebuilds(d, n, applied)

\* Writing a field (setBitfieldValue()) changes no other field of the value.
KeepsOthers(d, ns, f, written) ==
  \A n \in ns \ {f} : Reads(d, n, written) = Reads(d, n, value)
WritesKeepOthers ==
  BitFieldWatched =>
    \E d \in {WatchedType} :
      \A f \in FieldNames(fields(d)), u \in Values :
        KeepsOthers(d, FieldNames(fields(d)), f, setBitfieldValue(field(d, f), value, u, wide))

\* The table tells of a path what the tree it was made of tells, by look-up
\* and by listing.
DescriptionsAreRight == TypeOK /\ EveryPropertyIsListed /\ TreeIsDescribed

\* What is made of a value, its fields and its alarms, is in the value, and a
\* write of one field leaves the others alone.
ValuesAreReadRight ==
  AlarmsAreCurrent /\ AlarmsTravel /\ WritesKeepOthers /\ FieldsRebuildTheValue
=============================================================================
