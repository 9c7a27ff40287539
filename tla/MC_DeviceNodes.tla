--------------------------- MODULE MC_DeviceNodes ---------------------------
(* A device with files, a configuration, a map, two values and a table of  *)
(* methods.  Each scene exercises a part of it.                            *)
EXTENDS DeviceNodes

TheAlphabet == <<"a", "b", "cfg", "d", "f", "fs", "m", "n", "rw", "rws", "tab", "x", "y">>

\* A template based on another, a value the user may override by a map.
TheConfigFiles ==
  [config |-> Map([basedOn |-> Text("base"), a |-> Map([x |-> Num(2)])]),
   base |-> Map([a |-> Map([x |-> Num(1), y |-> Num(1)]), b |-> Num(0)])]

TheFirstNodes ==
  [p \in {<<>>, <<"fs">>, <<"cfg">>, <<"m">>, <<"d">>, <<"d", "rw">>, <<"d", "rws">>,
        <<"d", "tab">>} |->
     CASE p = <<>> -> "root" [] p = <<"fs">> -> "fs" [] p = <<"cfg">> -> "cfg"
       [] p = <<"m">> -> "map" [] p = <<"d">> -> "dir" [] p = <<"d", "rw">> -> "rw"
       [] p = <<"d", "tab">> -> "tab" [] OTHER -> "rws"]
TheFirstFiles == [p \in {<<>>, <<"f">>} |-> IF p = <<>> THEN Directory ELSE File(<<1>>)]
TheMapValues == Map([x |-> Num(1), y |-> Map([a |-> Num(2)])])
TheTableMethods ==
  <<DIR, LS, MetaMethod2("reset", "VoidParam", UserIDRequired, "wr", "restarts")>>
TheExtraMethods == <<MetaMethod2("extra", "RetVoid", NoFlags, "?", "")>>
TheReadPath == <<"f">>
TheFirstValue == Num(1)

Rq(path, method, params, level, id) ==
  [NoRequest EXCEPT !.path = path, !.method = method, !.params = params, !.level = level,
                    !.id = id, !.user = IF id = 1 THEN "joe" ELSE ""]
Garbled(rq) == [rq EXCEPT !.decodes = FALSE]
Hooked(rq) == [rq EXCEPT !.hook = TRUE]
Opt(k, v) == Map([x \in {k} |-> v])
FromTo(offset, size) == Map([offset |-> Num(offset), size |-> Num(size)])

FileRequests ==
  {Rq(<<"fs", "f">>, "write", Text(<<1>>), Write, 1),
   Rq(<<"fs", "f">>, "write", List(<<Text(<<2>>), Opt("append", Bool(TRUE))>>), Write, 1),
   Rq(<<"fs", "f">>, "delete", Invalid, Level.srv, 1)}

DiskRequests ==
  {Rq(<<"fs", "f">>, "write", Null, Write, 1),
   Rq(<<"fs", "f">>, "write", Text(<<1>>), Read, 1),
   Rq(<<"fs", "f">>, "write", List(<<>>), Write, 1),
   Rq(<<"fs", "f">>, "read", FromTo(-1, 3), Read, 1),
   Rq(<<"fs", "f">>, "read", FromTo(0, -1), Read, 1),
   Rq(<<"fs", "f">>, "read", FromTo(1, 1), Read, 0),
   Rq(<<"fs", "f">>, "readCompressed", Opt("compressionType", Text("qcompress")), Read, 1),
   Rq(<<"fs", "f">>, "sizeCompressed", Invalid, Read, 1),
   Rq(<<"fs", "f">>, "readCompressed", Opt("compressionType", Text("zip")), Read, 1),
   Rq(<<"fs", "f">>, "hash", Invalid, Read, 1),
   Rq(<<"fs", "f">>, "size", Invalid, Read, 1),
   Rq(<<"fs", "f">>, "delete", Invalid, Level.srv, 1),
   Rq(<<"fs">>, "lsfiles", Map([dirs |-> Bool(FALSE), ctime |-> Bool(TRUE)]), Read, 1),
   Rq(<<"fs">>, "mkfile", Text(<<"f">>), Write, 1),
   Rq(<<"fs">>, "mkfile", List(<<Text(<<"a", "b">>), Text(<<3>>)>>), Write, 1),
   Rq(<<"fs">>, "mkfile", List(<<>>), Write, 1),
   Rq(<<"fs">>, "mkfile", Null, Write, 1),
   Rq(<<"fs">>, "mkdir", Text(<<"a">>), Write, 1),
   Rq(<<"fs">>, "mkdir", Text(<<"f", "b">>), Write, 1),
   Rq(<<"fs">>, "mkdir", Null, Write, 1),
   Rq(<<"fs">>, "rmdir", Invalid, Level.srv, 1),
   Rq(<<"fs", "a">>, "rmdir", Invalid, Level.srv, 1),
   Rq(<<"fs", "a">>, "rmdir", Bool(TRUE), Level.srv, 1),
   Garbled(Rq(<<"fs">>, "ls", Invalid, Read, 1)), Hooked(Rq(<<"fs">>, "ls", Invalid, Read, 1))}

ConfigRequests ==
  {Rq(<<"cfg">>, "saveFile", Map([a |-> Map([x |-> Num(2), y |-> Num(3)]), n |-> Num(9)]), Admin, 1),
   Rq(<<"cfg">>, "saveFile", Map([a |-> Num(7), b |-> Map(<<>>)]), Admin, 1),
   Rq(<<"cfg">>, "saveFile", Template, Admin, 1),
   Rq(<<"cfg">>, "saveFile", Num(5), Level.srv, 1),
   Rq(<<"cfg">>, "saveFile", Num(5), Admin, 1),
   Rq(<<"cfg">>, "commitChanges", Invalid, Admin, 1),
   Rq(<<"cfg">>, "loadFile", Invalid, Level.srv, 1),
   Rq(<<"cfg">>, "ls", Text("a"), Read, 1),
   Rq(<<"cfg", "b">>, "get", Invalid, Level.cfg, 1),
   Rq(<<"cfg", "b">>, "set", Num(1), Admin, 1),
   Rq(<<"cfg", "b">>, "set", Invalid, Admin, 1),
   Rq(<<"cfg", "a", "x">>, "origValue", Invalid, Read, 1),
   Rq(<<"cfg", "a", "x">>, "resetValue", Invalid, Write, 1)}

TreeRequests ==
  {Rq(<<"d", "rw">>, "set", Num(1), Write, 1), Rq(<<"d", "rw">>, "get", Invalid, Read, 0),
   Rq(<<"d", "rws">>, "set", Num(1), Write, 1), Rq(<<"d", "rws">>, "dir", Invalid, Read, 1),
   Rq(<<"d", "rws">>, "extra", Invalid, Admin, 1), Rq(<<"d", "tab">>, "reset", Num(1), Write, 1),
   Rq(<<"d", "tab">>, "reset", Num(1), Write, 2), Rq(<<"d", "tab">>, "dir", Text("reset"), Read, 1),
   Rq(<<"m", "x">>, "set", Num(1), Admin, 1), Rq(<<"m", "y", "a">>, "get", Invalid, Read, 1),
   Rq(<<"m", "n">>, "get", Invalid, Read, 1), Hooked(Rq(<<"m">>, "ls", Invalid, Read, 1)),
   Hooked(Rq(<<"d", "tab">>, "ls", Invalid, Read, 1)), Rq(<<"n">>, "dir", Invalid, Read, 1)}

Quiet == [requests |-> {}, disks |-> {"ok"}, changes |-> {}, mounts |-> {}, reads |-> FALSE,
          clears |-> FALSE, crashes |-> FALSE, probes |-> {}, names |-> {}]

TheScenes ==
  [files  |-> [Quiet EXCEPT !.requests = FileRequests, !.reads = TRUE, !.crashes = TRUE],
   disk   |-> [Quiet EXCEPT
     !.requests = DiskRequests, !.disks = Disks,
     !.probes = {<<"fs">>, <<"fs", "f">>, <<"fs", "a">>, <<"fs", "a", "b">>},
     !.names = fsMethodNames \cup {"dir", "ls"}],
   config |-> [Quiet EXCEPT
     !.requests = ConfigRequests, !.disks = Disks, !.clears = TRUE, !.crashes = TRUE,
     !.probes = {<<"cfg">>, <<"cfg", "a">>, <<"cfg", "a", "x">>, <<"cfg", "b">>},
     !.names = configMethodNames \cup {"dir", "ls"}],
   tree   |-> [Quiet EXCEPT
     !.requests = TreeRequests, !.crashes = TRUE,
     !.changes = {[id |-> 1, v |-> Num(2)], [id |-> 2, v |-> Num(2)], [id |-> 2, v |-> Num(1)]},
     !.mounts = {[path |-> <<"d", "rws">>, kind |-> "rws"],
                 [path |-> <<"x", "y", "tab">>, kind |-> "tab"]},
     !.probes = {<<>>, <<"d">>, <<"d", "rw">>, <<"d", "tab">>, <<"m">>, <<"m", "x">>, <<"x", "y">>},
     !.names = {"dir", "ls", "get", "set", "reset"}]]
=============================================================================
