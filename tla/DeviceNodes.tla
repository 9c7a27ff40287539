---------------------------- MODULE DeviceNodes ----------------------------
(***************************************************************************)
(* The tree of nodes of a device and the requests it serves (libshviotqt   *)
(* node/shvnode.cpp, node/shvnodetree.cpp) over the nodes of files, values *)
(* and configurations.                                                     *)
(*                                                                         *)
(* Clients send requests, the device changes its values, nodes are mounted *)
(* and removed, the device stops at any moment, also in the middle of      *)
(* writing a file, and starts again.  One client reads a file piece by     *)
(* piece while others write it.                                            *)
(***************************************************************************)
EXTENDS ValueNodes

CONSTANTS
  Scenes,       \* what clients and the device may do in a behaviour, by name: the
                \* requests, the nodes mounted and removed, the values it changes to
  FirstNodes,   \* path -> kind of the nodes of a device that has started
  FirstFiles,   \* the files it has when it starts for the first time
  MapValues,    \* the values of the map node
  TableMethods, \* the methods of the node with a table
  ExtraMethods, \* the methods added to the values that are signalled
  FirstValue,   \* the value of everything the device measures at its start
  ReadPath,     \* the file one client reads in pieces
  Piece,        \* the size of a piece
  MaxContent,   \* bound on the size of a file
  MaxQueue      \* bound on the changes of values waiting for the event loop

ASSUME BoundsAssumption == Piece \in Nat \ {0} /\ MaxContent \in Nat /\ MaxQueue \in Nat

VARIABLES
  dev,      \* the device: its nodes, files, configuration, values and events
  reader,   \* the client that reads in pieces
  saved,    \* the configuration saved last, if nothing has spoilt it since
  seen,     \* the value signalled last, as a client knows it
  scene

vars == <<dev, reader, saved, seen, scene>>

(***************************************************************************)
(* The tree: the nodes by their paths, a node always with its parents.     *)
(***************************************************************************)
\* The node a path is handed down to; the rest of the path is its business.
mdcd(nodes, path) ==
  CHOOSE p \in Prefixes(path) \cap DOMAIN nodes :
    \A q \in Prefixes(path) \cap DOMAIN nodes : Len(q) <= Len(p)
Rest(nodes, path) == SubSeq(path, Len(mdcd(nodes, path)) + 1, Len(path))

mkdir(nodes, path) ==
  [p \in DOMAIN nodes \cup Prefixes(path) |-> IF p \in DOMAIN nodes THEN nodes[p] ELSE "dir"]

\* The parents stay when the last name is taken.
mount(nodes, path, kind) ==
  IF path = <<>> THEN nodes
  ELSE IF path \in DOMAIN nodes THEN mkdir(nodes, dirOf(path))
  ELSE Put(mkdir(nodes, dirOf(path)), path, kind)

ownChildren(nodes, at) == {nameOf(p) : p \in {q \in DOMAIN nodes : q # <<>> /\ dirOf(q) = at}}

\* The highest of the parents that have nothing but the node.
deleteIfEmptyWithParents(nodes, path) ==
  LET only(p) == p # <<>> /\ \A q \in Prefixes(path) :
                   (Len(q) >= Len(p) /\ Len(q) < Len(path)) =>
                      Cardinality(ownChildren(nodes, q)) = 1
      top == CHOOSE p \in Prefixes(path) :
               only(p) /\ \A q \in Prefixes(path) : only(q) => Len(p) <= Len(q)
  IN  IF path = <<>> \/ ownChildren(nodes, path) # {} THEN nodes
      ELSE [p \in {q \in DOMAIN nodes : ~IsPrefix(top, q)} |-> nodes[p]]

(***************************************************************************)
(* Values of the device.  The type of a value is made of bits.             *)
(***************************************************************************)
Proxies == [rw |-> [id |-> 1, type |-> 3], rws |-> [id |-> 2, type |-> 7]]
isReadable(kind) == Proxies[kind].type % 2 = 1
isWriteable(kind) == (Proxies[kind].type \div 2) % 2 = 1
isSignal(kind) == Proxies[kind].type >= 4

meta_methods_pn ==
  <<DIR, LS,
    WithSignal(MetaMethod("get", IsGetter, "", "RpcValue", Read), "chng"),
    MetaMethod("set", IsSetter, "RpcValue", "Bool", Write)>>

\* The description of the signal would be the fifth of a table of four: what
\* is behind its end, if the process survives to look at it.
PastTable == MetaMethod("?", NoFlags, "", "", None)

proxyMethods(kind) ==
  LET ixs == <<1, 2>> \o (IF isReadable(kind) THEN <<3>> ELSE <<>>)
               \o (IF isWriteable(kind) THEN <<4>> ELSE <<>>)
               \o (IF isSignal(kind) THEN <<5>> ELSE <<>>)
  IN  [i \in DOMAIN ixs |-> IF ixs[i] = 5 THEN PastTable ELSE meta_methods_pn[ixs[i]]]
        \o (IF isSignal(kind) THEN ExtraMethods ELSE <<>>)

\* The handled object: it takes the value and tells every node of it, by way
\* of the event loop.
Told(d, id, v) ==
  LET proxies == SetToSeq({p \in DOMAIN d.nodes : d.nodes[p] \in DOMAIN Proxies})
  IN  [i \in DOMAIN proxies |-> [to |-> proxies[i], id |-> id, v |-> v]]

setShvValue(d, id, v) ==
  [d EXCEPT !.vals[id] = v, !.queue = @ \o Told(d, id, v)]

(***************************************************************************)
(* Methods and children of a node, on the rest of the path.                *)
(***************************************************************************)
meta_methods == <<DIR, LS>>

\* Looking a method up loads the values of a configuration node.
Touch(d, kind, rest) ==
  IF kind = "cfg" /\ rest # <<>> THEN [d EXCEPT !.cfg = values(@, d.file)] ELSE d

touchRaises(d, kind, rest) ==
  CASE kind = "cfg" /\ rest # <<>> ->
         IF loadRaises(d.cfg, d.file) THEN StdException("parse")
         ELSE valueOnPath(values(d.cfg, d.file).values, rest)
    [] kind = "map" /\ rest # <<>> -> valueOnPath(MapValues, rest)
    [] OTHER -> Null

methods(d, kind, rest) ==
  CASE kind = "cfg" -> configMethods(d.cfg.values, rest)
    [] kind = "map" -> mapMethods(MapValues, rest, FALSE)
    [] kind = "fs"  -> fsMethods(d.fs, rest)
    [] kind \in DOMAIN Proxies /\ rest = <<>> -> proxyMethods(kind)
    [] kind = "tab" /\ rest = <<>> -> TableMethods
    [] OTHER -> IF rest = <<>> THEN meta_methods ELSE <<>>

metaMethod(table, name) ==
  LET found == SelectSeq(table, LAMBDA mm : mm.name = name)
  IN  IF found = <<>> THEN MetaMethod("", NoFlags, "", "", None) ELSE found[1]

NamesAt(d, at, rest) ==
  CASE d.nodes[at] = "fs"  -> fsChildNames(d.fs, rest)
    [] d.nodes[at] = "map" -> mapChildNames(MapValues, rest)
    [] d.nodes[at] = "cfg" -> mapChildNames(values(d.cfg, d.file).values, rest)
    [] OTHER -> IF rest = <<>> THEN Sorted(ownChildren(d.nodes, at)) ELSE <<>>

\* A plain node asks a child of its own for the path of one name.
childNames(d, at, rest) ==
  IF Len(rest) = 1 /\ at \o rest \in DOMAIN d.nodes THEN NamesAt(d, at \o rest, <<>>)
  ELSE NamesAt(d, at, rest)

hasChildren(d, at, rest) ==
  CASE d.nodes[at] = "fs"  -> isDir(d.fs, rest)
    [] d.nodes[at] = "map" -> IsMap(valueAt(MapValues, rest))
    [] d.nodes[at] = "cfg" -> IsMap(valueAt(values(d.cfg, d.file).values, rest))
    [] OTHER -> childNames(d, at, rest) # <<>>

dir(table, params) ==
  LET found == metaMethod(table, asText(params, ""))
  IN  IF asText(params, "") = "" THEN List([i \in DOMAIN table |-> toRpcValue(table[i])])
      ELSE IF found.name = "" THEN Null ELSE toRpcValue(found)

ls(names, params) ==
  IF asText(params, "") = "" THEN NameList(names)
  ELSE Bool(params.s \in ToSet(names))

(***************************************************************************)
(* Calls.  A call gives the device and the value returned or thrown.       *)
(***************************************************************************)
Done(d, v) == [dev |-> d, ret |-> v]

baseCall(d, at, rest, rq) ==
  CASE rq.method = "dir" -> Done(d, dir(methods(d, d.nodes[at], rest), rq.params))
    [] rq.method = "ls" ->
         IF d.nodes[at] = "cfg" /\ loadRaises(d.cfg, d.file)
         THEN Done([d EXCEPT !.cfg = values(@, d.file)], StdException("parse"))
         ELSE Done(IF d.nodes[at] = "cfg" THEN [d EXCEPT !.cfg = values(@, d.file)] ELSE d,
                   ls(childNames(d, at, rest), rq.params))
    [] OTHER -> Done(d, ShvException("not exists"))

OfFiles(d, r) == Done([d EXCEPT !.fs = r.fs], r.ret)
OfConfig(d, r) == Done([d EXCEPT !.cfg = r.cfg, !.file = r.file], r.ret)

proxyCall(d, at, rq) ==
  CASE rq.method = "get" -> Done(d, d.vals[Proxies[d.nodes[at]].id])
    [] rq.method = "set" ->
         Done(setShvValue(d, Proxies[d.nodes[at]].id, rq.params), Bool(TRUE))
    [] OTHER -> baseCall(d, at, <<>>, rq)

\* The request the handled object serves is forgotten when the call returns,
\* not when it throws.
Served(d, r, rq) ==
  [r EXCEPT !.dev.served = IF r.ret.t = "Raise" THEN rq.user ELSE ""]

\* Files above the directory of the node are out of reach.
GoesUp(rest) == \E i \in DOMAIN rest : rest[i] = ".."

callMethodRq(d, at, rest, rq, disk) ==
  CASE d.nodes[at] = "fs" /\ GoesUp(rest) -> Done(d, ShvException("parent"))
    [] d.nodes[at] = "fs" /\ ~GoesUp(rest) /\ rq.method \in fsMethodNames ->
         OfFiles(d, fsCall(d.fs, rest, rq.method, rq.params, disk))
    [] d.nodes[at] = "cfg" /\ rq.method \in configMethodNames ->
         OfConfig(d, configCall(d.cfg, d.file, rest, rq.method, rq.params, disk))
    [] d.nodes[at] = "map" /\ rq.method \in {"get", "set"} ->
         Done(d, mapCall(MapValues, rest, rq.method))
    [] d.nodes[at] \in DOMAIN Proxies /\ rest = <<>> -> Served(d, proxyCall(d, at, rq), rq)
    [] OTHER -> baseCall(d, at, rest, rq)

(***************************************************************************)
(* Requests.                                                               *)
(***************************************************************************)
CommandLogged(rq) == [k |-> "cmdlog", path |-> rq.path, user |-> rq.user]

IsLogged(mm) == mm.accessLevel > Write \/ HasFlag(mm.flags, UserIDRequired)

Denied(mm, rq) == mm.accessLevel > rq.level

Refused(d, v) == [dev |-> d, ret |-> v, log |-> <<>>]

Called(r, log) == [dev |-> r.dev, ret |-> r.ret, log |-> log]

processFound(d, at, rest, rq, disk, mm) ==
  CASE mm.name = "" -> Refused(d, Raise("MethodNotFound", "method"))
    [] mm.name # "" /\ ~rq.decodes -> Refused(d, ShvException("decode"))
    [] mm.name # "" /\ rq.decodes /\ Denied(mm, rq) ->
         Refused(d, ShvException("denied"))
    [] OTHER ->
         IF HasFlag(mm.flags, UserIDRequired) /\ rq.user = ""
         THEN Refused(d, ShvException("user"))
         ELSE Called(callMethodRq(d, at, rest, rq, disk),
                     IF IsLogged(mm) THEN <<CommandLogged(rq)>> ELSE <<>>)

processTouched(d, at, rest, rq, disk) ==
  processFound(d, at, rest, rq, disk, metaMethod(methods(d, d.nodes[at], rest), rq.method))

processAt(d, at, rest, rq, disk) ==
  IF touchRaises(d, d.nodes[at], rest).t = "Raise"
  THEN Refused(Touch(d, d.nodes[at], rest), touchRaises(d, d.nodes[at], rest))
  ELSE processTouched(Touch(d, d.nodes[at], rest), at, rest, rq, disk)

processRpcRequest(d, rq, disk) ==
  processAt(d, mdcd(d.nodes, rq.path), Rest(d.nodes, rq.path), rq, disk)

WithLocal(l) ==
  IF l # <<>> /\ l[1].t # "List" THEN List(<<Text(".local")>> \o l)
  ELSE List(<<List(<<Text(".local"), Bool(TRUE)>>)>> \o l)

Response(rq, v) ==
  [k |-> "resp", id |-> rq.id, v |-> IF rq.hook THEN WithLocal(asList(v)) ELSE v]
Failure(rq, code, why) == [k |-> "err", id |-> rq.id, code |-> code, why |-> why]

\* emitSendRpcMessage() drops the answer to a request without a number.
Answer(rq, ret, code) ==
  CASE rq.id = 0 \/ ret.t = "Invalid" -> <<>>
    [] rq.id # 0 /\ ret.t = "Raise"   -> <<Failure(rq, code, ret.why)>>
    [] OTHER                          -> <<Response(rq, ret)>>

frameCode(ret) ==
  CASE ret.t # "Raise" -> ""
    [] ret.t = "Raise" /\ ret.code = "Exception" -> "InvalidRequest"
    [] ret.t = "Raise" /\ ret.code = "std"       -> "MethodCallException"
    [] OTHER -> ret.code

requestCode(ret) ==
  IF ret.t = "Raise" /\ ret.code = "MethodNotFound" THEN ret.code ELSE "MethodCallException"

\* handleRpcFrame() that lets exceptions of the standard library pass.
FrameUncaught(rq, r) ==
  [dev |-> r.dev,
   msgs |-> r.log \o IF r.ret.t = "Raise" /\ r.ret.code = "std" THEN <<>>
                     ELSE Answer(rq, r.ret, frameCode(r.ret))]
frameAnswered(rq, r) == [dev |-> r.dev, msgs |-> r.log \o Answer(rq, r.ret, frameCode(r.ret))]

handleRpcFrame(d, rq, disk) == frameAnswered(rq, processRpcRequest(d, rq, disk))

\* The request has been decoded and has no hook.
handleRpcRequest(d, rq, disk) ==
  LET answered(r) == [dev |-> r.dev, msgs |-> r.log \o Answer(rq, r.ret, requestCode(r.ret))]
  IN  answered(processRpcRequest(d, rq, disk))

\* From inside the device: what is thrown is only logged.
invokeMethod(d, rq, disk) ==
  LET silent(r) == [dev |-> r.dev, msgs |-> r.log]
  IN  silent(processRpcRequest(d, [rq EXCEPT !.level = Level.srv], disk))

(***************************************************************************)
(* The device and its clients.                                             *)
(***************************************************************************)
Started(fs, file) ==
  [up |-> TRUE, nodes |-> FirstNodes, fs |-> fs, cfg |-> NewConfig, file |-> file,
   vals |-> [i \in 1..2 |-> FirstValue], queue |-> <<>>, served |-> ""]

NoRequest == [path |-> <<>>, method |-> "", params |-> Invalid, level |-> None,
              user |-> "", id |-> 0, hook |-> FALSE, decodes |-> TRUE]
Unsaved == [t |-> "Unsaved"]
Content(d) == IF exists(d.fs, ReadPath) THEN d.fs[ReadPath].c ELSE <<>>
Idle == [on |-> FALSE, got |-> <<>>, start |-> <<>>, done |-> FALSE, disturbed |-> FALSE]

Init ==
  /\ dev = Started(FirstFiles, NoFile)
  /\ reader = Idle /\ saved = Unsaved
  /\ seen = FirstValue
  /\ scene \in DOMAIN Scenes

Now == Scenes[scene]

Within(d) == /\ \A p \in DOMAIN d.fs : Len(d.fs[p].c) <= MaxContent
             /\ Len(d.queue) <= MaxQueue

\* What was read stays the beginning of the file as long as it only grows.
Watched(d) ==
  [reader EXCEPT !.disturbed =
     @ \/ ~(exists(d.fs, ReadPath) /\ IsPrefix(Content(dev), Content(d)))]

\* A save that was answered with true, on a disk that took it.  A commit
\* stores the values of the node, nothing if they were never loaded.
NowSaved(rq, d, disk) ==
  LET at == mdcd(dev.nodes, rq.path)
      saves == dev.nodes[at] = "cfg" /\ rq.method \in {"saveFile", "commitChanges"}
  IN  CASE d.file = dev.file /\ d.cfg.values = dev.cfg.values -> saved
        [] saves /\ disk = "ok" ->
             IF rq.method = "saveFile" THEN rq.params
             ELSE IF dev.cfg.values = Invalid THEN Unsaved ELSE dev.cfg.values
        [] d.file = Torn -> Unsaved
        [] OTHER -> saved

\* What the device has become; the messages are r.msgs.
Took(rq, r, disk) ==
  /\ Within(r.dev)
  /\ dev' = r.dev
  /\ reader' = Watched(r.dev)
  /\ saved' = NowSaved(rq, r.dev, disk)
  /\ UNCHANGED <<seen, scene>>

HandleRpcFrame(rq, disk) ==
  dev.up /\ \E r \in {handleRpcFrame(dev, rq, disk)} : Took(rq, r, disk)

HandleRpcRequest(rq, disk) ==
  /\ dev.up /\ rq.decodes /\ ~rq.hook
  /\ \E r \in {handleRpcRequest(dev, rq, disk)} : Took(rq, r, disk)

InvokeMethod(rq, disk) ==
  /\ dev.up /\ rq.decodes /\ ~rq.hook
  /\ \E r \in {invokeMethod(dev, rq, disk)} : Took(rq, r, disk)

\* The application drops the values read, to have them read again.
ClearValuesCache ==
  /\ dev.up /\ dev.cfg.loaded /\ Now.clears
  /\ dev' = [dev EXCEPT !.cfg.loaded = FALSE]
  /\ UNCHANGED <<reader, saved, seen, scene>>

Change(id, v) ==
  /\ dev.up /\ dev.vals[id] # v
  /\ Within(setShvValue(dev, id, v))
  /\ dev' = setShvValue(dev, id, v)
  /\ UNCHANGED <<reader, saved, seen, scene>>

HasSecond == Len(dev.queue) > 1
HasEvent == dev.queue # <<>>

IsOwn(e, kind) == e.id = Proxies[kind].id /\ isSignal(kind)

\* An event for a node that has been deleted is gone with it.
OnShvValueChanged ==
  /\ dev.up /\ HasEvent
  /\ LET e == Head(dev.queue)
     IN  /\ dev' = [dev EXCEPT !.queue = Tail(@)]
         /\ seen' = IF IsOwn(e, dev.nodes[e.to]) THEN e.v ELSE seen
  /\ UNCHANGED <<reader, saved, scene>>

\* A client asks for the values of a node that appears.
Mount(path, kind) ==
  /\ dev.up
  /\ \A p \in DOMAIN dev.nodes : kind = dev.nodes[p] => kind = "tab"
  /\ mount(dev.nodes, path, kind) # dev.nodes
  /\ dev' = [dev EXCEPT !.nodes = mount(@, path, kind)]
  /\ seen' = IF kind = "rws" THEN dev.vals[2] ELSE seen
  /\ UNCHANGED <<reader, saved, scene>>

RemoveNode(path) ==
  /\ dev.up /\ path \in DOMAIN dev.nodes
  /\ \E ns \in {deleteIfEmptyWithParents(dev.nodes, path)} :
       /\ ns # dev.nodes
       /\ dev' = [dev EXCEPT !.nodes = ns,
                             !.queue = SelectSeq(@, LAMBDA e : e.to \in DOMAIN ns)]
 
  /\ UNCHANGED <<reader, saved, seen, scene>>

(***************************************************************************)
(* Stops and starts.                                                       *)
(***************************************************************************)
Lost(file) == [Started(dev.fs, file) EXCEPT !.up = FALSE]

Stop ==
  /\ dev' = Lost(dev.file)
  /\ reader' = [reader EXCEPT !.disturbed = TRUE]
  /\ seen' = FirstValue /\ UNCHANGED scene

Crash == dev.up /\ Now.crashes /\ Stop /\ UNCHANGED saved

\* Between the opening of the file, which empties it, and its end.
CrashWhileSaving(rq) ==
  /\ dev.up /\ Now.crashes
  /\ \E r \in {handleRpcFrame(dev, rq, "ok")} :
       /\ r.dev.file # dev.file
       /\ dev' = Lost(Torn)
  /\ saved' = Unsaved
  /\ UNCHANGED <<reader, seen, scene>>

\* The lookups that go through the whole table of a value that is signalled.
GoesPastTable(rq) ==
  LET at == mdcd(dev.nodes, rq.path)
      known == {mm.name : mm \in ToSet(meta_methods_pn)}
  IN  /\ dev.nodes[at] \in DOMAIN Proxies /\ rq.path = at /\ isSignal(dev.nodes[at])
      /\ \/ rq.method \notin known
         \/ rq.method = "dir" /\ rq.level >= DIR.accessLevel /\ asText(rq.params, "") \notin known

CrashPastTable(rq) == dev.up /\ GoesPastTable(rq) /\ Stop /\ UNCHANGED saved

Restart ==
  /\ ~dev.up
  /\ dev' = Started(dev.fs, dev.file)
  /\ UNCHANGED <<reader, saved, seen, scene>>

(***************************************************************************)
(* The client that reads in pieces: from where it is, until nothing comes. *)
(***************************************************************************)
StartReading ==
  /\ dev.up /\ Now.reads /\ ~reader.on /\ exists(dev.fs, ReadPath)
  /\ reader' = [Idle EXCEPT !.on = TRUE, !.start = Content(dev)]
 
  /\ UNCHANGED <<dev, saved, seen, scene>>

ReadPiece ==
  /\ dev.up /\ reader.on /\ ~reader.done /\ exists(dev.fs, ReadPath)
  /\ \E v \in {read(dev.fs, ReadPath,
                     Map([offset |-> Num(Len(reader.got)), size |-> Num(Piece)]))} :
       reader' = [reader EXCEPT !.got = @ \o v.c, !.done = v.c = <<>>]
 
  /\ UNCHANGED <<dev, saved, seen, scene>>

StopReading ==
  /\ reader.on /\ (reader.done \/ reader.disturbed)
  /\ reader' = Idle
  /\ UNCHANGED <<dev, saved, seen, scene>>

Next ==
  \/ \E rq \in Now.requests, disk \in Now.disks :
       \/ HandleRpcFrame(rq, disk)
       \/ HandleRpcRequest(rq, disk)
       \/ InvokeMethod(rq, disk)
  \/ \E rq \in Now.requests : CrashWhileSaving(rq) \/ CrashPastTable(rq)
  \/ ClearValuesCache
  \/ \E c \in Now.changes : Change(c.id, c.v)
  \/ OnShvValueChanged
  \/ \E m \in Now.mounts : Mount(m.path, m.kind)
  \/ \E m \in Now.mounts : RemoveNode(m.path)
  \/ Crash \/ Restart
  \/ StartReading \/ ReadPiece \/ StopReading

\* The event loop of a device that is up runs.
Fairness == WF_vars(OnShvValueChanged)
Spec == Init /\ [][Next]_vars /\ Fairness

(***************************************************************************)
(* treeWalk(): every node and every path below a node without nodes of its *)
(* own.                                                                    *)
(***************************************************************************)
\* treeWalk() that never changes over to a child node.
RECURSIVE WalkByPath(_, _, _)
WalkByPath(d, at, rest) ==
  {at \o rest} \cup
    UNION {WalkByPath(d, at, Append(rest, n)) : n \in ToSet(childNames(d, at, rest))}

RECURSIVE treeWalk(_, _, _)
treeWalk(d, at, rest) ==
  LET below(n) == IF rest = <<>> /\ Append(at, n) \in DOMAIN d.nodes
                  THEN treeWalk(d, Append(at, n), <<>>)
                  ELSE treeWalk(d, at, Append(rest, n))
  IN  {at \o rest} \cup UNION {below(n) : n \in ToSet(childNames(d, at, rest))}

(***************************************************************************)
(* Properties.                                                             *)
(***************************************************************************)
Ask(path, method, params, level) ==
  [NoRequest EXCEPT !.path = path, !.method = method, !.params = params,
                    !.level = level, !.user = "tester", !.id = 1]

\* The answer to a request that is the last thing it sends.
AnswerTo(rq) == Last(handleRpcFrame(dev, rq, "ok").msgs)

\* The children of a path as a client sees them.
ChildrenOf(path) ==
  LET a == AnswerTo(Ask(path, "ls", Invalid, Read))
  IN  IF a.k = "resp" THEN {Append(path, n) : n \in ToSet(Names(a.v))} ELSE {}

RECURSIVE Reachable(_)
Reachable(path) == {path} \cup UNION {Reachable(q) : q \in ChildrenOf(path)}

\* The configuration can be loaded.
Intact == dev.up /\ ~loadRaises(dev.cfg, dev.file)

(***************************************************************************)
(* The walk through the nodes of a device meets exactly the paths a client *)
(* finds by asking for ls again and again, and where it finds children the *)
(* node says that it has some (treeWalk_helper(), handleRpcFrame(),        *)
(* childNames() and hasChildren() of the nodes).                           *)
(***************************************************************************)
WalkSeesWhatLsSees ==
  Intact =>
  \A walked \in {treeWalk(dev, <<>>, <<>>)} :
    /\ walked = Reachable(<<>>)
    /\ \A p \in walked : ChildrenOf(p) # {} =>
         hasChildren(dev, mdcd(dev.nodes, p), Rest(dev.nodes, p))

Signalled(path) == dev.nodes[mdcd(dev.nodes, path)] \in {k \in DOMAIN Proxies : isSignal(k)}

Decoded(path) ==
  LET l == asList(AnswerTo(Ask(path, "dir", Invalid, Read)).v)
  IN  {fromRpcValue(l[i], None) : i \in DOMAIN l}

IsRefused(a) == a.k = "err" /\ (a.why = "denied" \/ a.code = "MethodNotFound")

\* The older forms of a description lose the flags, nothing else.
OlderFormsAgree(mm) ==
  LET plain == [mm EXCEPT !.extra = <<>>, !.flags = NoFlags]
      listed == List(<<Text(mm.name), Null, Num(mm.flags),
                       Text(accessLevelToAccessString(mm.accessLevel)),
                       Text(mm.description), toMap(plain)>>)
  IN  /\ fromRpcValue(toMap(plain), None) = plain
      /\ fromRpcValue(listed, None) = [plain EXCEPT !.flags = mm.flags]

(***************************************************************************)
(* What dir() tells of a path, once decoded, is what can be called on it:  *)
(* a method that is not there is not found, one that is there is denied to *)
(* the levels below the one it tells and to no other (dir(), toRpcValue(), *)
(* fromRpcValue(), metaMethod() of the nodes, processRpcRequest()).        *)
(* Values that are signalled are left out: their table is read past its    *)
(* end.                                                                    *)
(***************************************************************************)
DirTellsWhatCanBeCalled ==
  Intact =>
  \A p \in {q \in Now.probes : ~Signalled(q)} :
    AnswerTo(Ask(p, "dir", Invalid, Read)).k = "resp" =>
      \A told \in {Decoded(p)} :
        /\ \A mm \in told : OlderFormsAgree(mm)
        /\ \A name \in Now.names, l \in {None, Read, Write, Level.srv, Admin} :
             IsRefused(AnswerTo(Ask(p, name, Invalid, l))) <=>
               ~\E mm \in told : mm.name = name /\ mm.accessLevel <= l

\* What the requests of the scene would do, by the two ways from outside.
IsAnswer(m) == m.k \in {"resp", "err"}
Answers(r) == SelectSeq(r.msgs, IsAnswer)
Ways(rq, disk) ==
  {handleRpcFrame(dev, rq, disk)} \cup
    (IF rq.decodes /\ ~rq.hook THEN {handleRpcRequest(dev, rq, disk)} ELSE {})

(***************************************************************************)
(* A request with a number is answered exactly once and last, whatever is  *)
(* thrown on the way; one without is not answered (handleRpcFrame(),       *)
(* handleRpcRequest(), emitSendRpcMessage()).                              *)
(***************************************************************************)
AnsweredOnce ==
  dev.up =>
  \A rq \in Now.requests, disk \in Now.disks : \A r \in Ways(rq, disk) :
    IF rq.id = 0 THEN Answers(r) = <<>>
    ELSE Len(Answers(r)) = 1 /\ IsAnswer(Last(r.msgs)) /\ Last(r.msgs).id = rq.id

(***************************************************************************)
(* Nothing is removed from the disk and no configuration is written by a   *)
(* call that is not in the log of commands with its user, however it came  *)
(* (the levels in the tables of methods, processRpcRequest(),              *)
(* emitLogUserCommand()).                                                  *)
(***************************************************************************)
CommandsAreLogged ==
  dev.up =>
  \A rq \in Now.requests, disk \in Now.disks :
    \A r \in Ways(rq, disk) \cup {invokeMethod(dev, rq, disk)} :
      (\/ ~(DOMAIN dev.fs \subseteq DOMAIN r.dev.fs)
       \/ r.dev.file # dev.file) => CommandLogged(rq) \in ToSet(r.msgs)

\* The values saved where the template has a place for them.
RECURSIVE Conforming(_, _)
Conforming(template, v) ==
  IF ~IsMap(template) \/ ~IsMap(v) THEN v
  ELSE Map([k \in DOMAIN template.m |->
              IF At(v, k) = Invalid THEN template.m[k]
              ELSE Conforming(template.m[k], v.m[k])])

(***************************************************************************)
(* A configuration that was saved comes back from its file, with the       *)
(* values of the template where it says nothing, even when the template    *)
(* was not loaded when it was saved (diffMaps(), mergeMaps(),              *)
(* mergeTemplateMaps(), saveValues(), loadValues()).  A full disk, a crash *)
(* while it is written and commitChanges() of a node that has not been     *)
(* loaded lose it.                                                         *)
(***************************************************************************)
ConfigSurvivesReload ==
  saved # Unsaved =>
    loadValues(NewConfig, dev.file).values =
      Conforming(Template, IF IsMap(saved) THEN saved ELSE Map(<<>>))

(***************************************************************************)
(* A client that reads a file piece by piece until nothing comes has read  *)
(* the file as it once was, if the file only grew meanwhile (read(),       *)
(* ndRead(), ndWrite() with append).                                       *)
(***************************************************************************)
ReadInPiecesIsWhole ==
  (reader.done /\ ~reader.disturbed) =>
    IsPrefix(reader.start, reader.got) /\ IsPrefix(reader.got, Content(dev))

RwsPaths == {p \in DOMAIN dev.nodes : dev.nodes[p] = "rws"}

(***************************************************************************)
(* When no event of a signalled value waits, the last signal, or the value *)
(* it had when it was mounted, is the value (ValueProxyShvNode(),          *)
(* onShvValueChanged()).                                                   *)
(***************************************************************************)
LastSignalIsCurrent ==
  \A p \in RwsPaths :
    (dev.up /\ ~\E i \in DOMAIN dev.queue : dev.queue[i].to = p) => seen = dev.vals[2]

(***************************************************************************)
(* A value that is signalled and stays gets to the clients, unless the     *)
(* device stops or the node is removed (onShvValueChanged() by a queued    *)
(* connection).                                                            *)
(***************************************************************************)
ChangesAreSignalled ==
  \A c \in UNION {Scenes[s].changes : s \in DOMAIN Scenes} :
    (dev.up /\ dev.vals[2] = c.v) ~>
      (seen = c.v \/ dev.vals[2] # c.v \/ ~dev.up \/ RwsPaths = {})

TypeOK ==
  /\ dev.up \in BOOLEAN
  /\ \A p \in DOMAIN dev.nodes : Prefixes(p) \subseteq DOMAIN dev.nodes
  /\ \A p \in DOMAIN dev.fs : \A q \in Prefixes(p) \ {p} : isDir(dev.fs, q)
  /\ \A i \in DOMAIN dev.queue : dev.queue[i].to \in DOMAIN dev.nodes
  /\ dev.served \in STRING /\ dev.cfg.loaded \in BOOLEAN

\* What ls() and dir() tell is what is there and can be called.
NodesTellTheTruth == TypeOK /\ WalkSeesWhatLsSees /\ DirTellsWhatCanBeCalled

\* What a device sends is right: one answer for a request, a record for a
\* command, the last value as the last signal.
MessagesAreRight == AnsweredOnce /\ CommandsAreLogged /\ LastSignalIsCurrent

\* What was saved comes back, and what is read in pieces was once in the file.
FilesAreKept == ConfigSurvivesReload /\ ReadInPiecesIsWhole
=============================================================================
