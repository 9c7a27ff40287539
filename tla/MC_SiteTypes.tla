---------------------------- MODULE MC_SiteTypes ----------------------------
(***************************************************************************)
(* Trees and files of small sites.  Bits are five; the shift by the whole  *)
(* width and a field of one bit with a type of its own are among them.     *)
(***************************************************************************)
EXTENDS SiteTypes

Node(tags, mms, kids) ==
  [ref |-> "", methods |-> mms, tags |-> tags, kids |-> kids, valid |-> TRUE]
Ref(n) == [NoNode EXCEPT !.ref = n, !.valid = TRUE]
Kid(n, node) == [name |-> n, node |-> node]
Typed(tn) == [typeName |-> Text(tn)]
Device(dt) == [deviceType |-> Text(dt)]

Get == Map([name |-> Text("get"), access |-> Text("rd"), result |-> Text("Int")])
Dir == Text("dir")
Clear == List(<<Text("clear"), Text("VoidVoid"), Num(0), Text("cmd"), Text(""),
                Map([label |-> Text("Clear"), tags |-> Map([safe |-> Bool(TRUE)])])>>)

Field(n, tn, v, tags) == Map([name |-> Text(n), typeName |-> Text(tn), value |-> v, tags |-> Map(tags)])
Armed(s, l) == [alarm |-> Text(s), alarmLevel |-> Num(l), label |-> Text("Fault")]
Bits(a, b) == List(<<Num(a), Num(b)>>)

Status == Map([typeName |-> Text("BitField"), sampleType |-> Text("D"), fields |-> List(<<
  Field("err", "", Num(0), Armed("error", 1)),
  Field("mode", "Mode", Bits(1, 2), <<>>),
  Field("sw", "Switch", Num(3), [stateAlarm |-> Text("warning")]),
  Field("top", "Bool", Num(4), Armed("warning", 0))>>)])
Mode == Map([name |-> Text("Enum"), fields |-> List(<<
  Field("Off", "", Num(0), <<>>), Field("On", "", Num(1), <<>>),
  Field("Bad", "", Num(2), Armed("warning", 2)), Field("Worse", "", Num(3), Armed("fatal", 0))>>)])
Switch == Map([type |-> Text("Enum"), fields |-> List(<<
  Field("Open", "", Num(0), <<>>), Field("Shut", "", Num(1), Armed("error", 3))>>)])
Types == [Status |-> Status, Mode |-> Mode, Switch |-> Switch]

Tree(nodeTypes, root) ==
  [version |-> 0, map |-> [types |-> Types, nodeTypes |-> nodeTypes, root |-> root]]

StatusNode == Node(Typed("Status"), <<Get>>, <<>>)

\* Three devices of a type: by reference, with another property, without one.
Deviating == Tree([TC |-> Node(Device("TC"), <<Dir>>, <<Kid("status", StatusNode)>>)],
  Node(<<>>, <<>>, <<
    Kid("tc", Node(<<>>, <<Dir>>, <<
      Kid("T1", Ref("TC")),
      Kid("T2", Node(Device("TC"), <<>>, <<
        Kid("status", Node([typeName |-> Text("Mode"), label |-> Text("Mode")], <<>>, <<>>)),
        Kid("temp", Node(Typed("Double"), <<Get>>, <<>>))>>)),
      Kid("T3", Node(Device("TC"), <<>>, <<>>)),
      Kid("T4", Ref("Gone"))>>))>>))

\* A device within a device, both with methods, tags of all kinds.
Nested == Tree(<<>>,
  Node([deviceType |-> Text("Site"), systemPath |-> Text("system/sig")], <<>>, <<
    Kid("zone", Node([deviceType |-> Text("Zone"), layer |-> Text("top"),
                      blacklist |-> List(<<Text(<<"route", "status">>)>>)], <<Clear>>, <<
      Kid("route", Node([deviceType |-> Text("Route"), label |-> Text("AB"),
                         systemPath |-> Text("system/ab")], <<>>, <<
        Kid("status", StatusNode)>>)),
      Kid("status", Node([typeName |-> Text("Switch"), alarm |-> Text("error")], <<Get>>, <<>>))>>))>>))

\* Instances that differ above and beside nodes both have.
Shadowing == Tree([TC |-> Node(Device("TC"), <<>>, <<
      Kid("x", Node(<<>>, <<Clear>>, <<Kid("status", StatusNode)>>))>>)],
  Node(<<>>, <<>>, <<
    Kid("T1", Ref("TC")),
    Kid("T2", Node(Device("TC"), <<>>, <<
      Kid("x", Node(<<>>, <<>>, <<Kid("status", StatusNode)>>))>>)),
    Kid("T3", Node(Device("TC"), <<>>, <<
      Kid("x", Node(Device("Sub"), <<Clear>>, <<Kid("status", StatusNode)>>))>>))>>))

Entry(tn) == Map([typeName |-> Text(tn), type |-> Text(tn), deviceType |-> Text("Old")])
Version3File ==
  [version |-> 3, order |-> [TC |-> <<<<>>, <<"status">>>>],
   map |-> [types |-> Map(Types),
            devicePaths |-> Map(Put(<<>>, <<"tc">>, Text("TC"))),
            deviceProperties |-> Map([TC |-> Map(
              [p \in {<<>>, <<"status">>} |->
                 IF p = <<>> THEN Map([label |-> Text("TC")]) ELSE Entry("Status")])])]]
Version2File ==
  [version |-> 2, order |-> Put(<<>>, "", <<<<"tc", "status">>>>),
   map |-> [types |-> Map(Types), paths |-> Map(Put(<<>>, <<"tc", "status">>, Entry("Status")))]]

MCFiles == [deviating |-> Deviating, nested |-> Nested, shadowing |-> Shadowing,
            version3 |-> Version3File, version2 |-> Version2File]

MCEditPaths == {<<"tc", "T1">>, <<"zone", "route">>}
MCEditNames == {"Mode"}
MCProbes ==
  {<<>>, <<"tc">>, <<"zone">>, <<"zone", "status">>, <<"zone", "route">>,
   <<"zone", "route", "status">>, <<"zone", "route", "status", "mode">>,
   <<"tc", "status", "err">>, <<"zone", "method", "clear">>, <<"tc", "a">>}
  \cup {<<"tc", t>> : t \in {"T1", "T2", "T3"}}
  \cup {<<"tc", t, "status">> : t \in {"T1", "T2", "T3"}}
  \cup {<<t, "x">> : t \in {"T1", "T2", "T3"}}
  \cup {<<t, "x", "status">> : t \in {"T1", "T2", "T3"}}
  \cup {<<"tc", "T1", "status", "err">>, <<"tc", "T2", "temp">>}
MCWatchable == {<<"tc", "T1", "status">>, <<"zone", "route", "status">>, <<"zone", "status">>,
                <<"tc", "T2", "status">>, <<"tc", "status">>, <<"T2", "x", "status">>}
MCValues == {0, 1, 2, 3, 4, 6, 9, 16, 31}
MCUnsets == {None, Admin}
=============================================================================
