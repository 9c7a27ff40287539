----------------------------- MODULE FileNodes -----------------------------
(***************************************************************************)
(* The files of a device as its node tree offers them (libshviotqt         *)
(* filenode.cpp, localfsnode.cpp).                                         *)
(*                                                                         *)
(* A file system is a function from the paths below the root of the node,  *)
(* sequences of names, to entries; a content is a sequence of bytes.  An   *)
(* operation gives the file system and the value returned, or what was     *)
(* thrown.                                                                 *)
(***************************************************************************)
EXTENDS RpcBasics

CONSTANTS
  Alphabet,   \* the names of nodes and files in alphabetical order
  MaxSize     \* more bytes than any file has, the default size of a read

Sorted(names) == SelectSeq(Alphabet, LAMBDA n : n \in names)

Raise(code, why) == [t |-> "Raise", code |-> code, why |-> why]
ShvException(why) == Raise("Exception", why)
StdException(why) == Raise("std", why)

Directory == [dir |-> TRUE, c |-> <<>>]
File(c) == [dir |-> FALSE, c |-> c]

exists(fs, p) == p \in DOMAIN fs
isDir(fs, p) == exists(fs, p) /\ fs[p].dir
dirOf(p) == SubSeq(p, 1, Len(p) - 1)
nameOf(p) == p[Len(p)]
Entries(fs, p) == {q \in DOMAIN fs : q # <<>> /\ dirOf(q) = p}
Below(fs, p) == {q \in DOMAIN fs : IsPrefix(p, q)}

(***************************************************************************)
(* What the file system does (external).  A disk may refuse to open a file *)
(* for writing, and may be full when the content is written.               *)
(***************************************************************************)
Disks == {"ok", "refuses", "full"}

CanCreate(fs, p, disk) ==
  /\ disk # "refuses" /\ p # <<>> /\ isDir(fs, dirOf(p)) /\ ~isDir(fs, p)

Written(c, disk) == IF disk = "full" THEN <<>> ELSE c

CanMakePath(fs, p) == \A n \in 0..Len(p) :
                        exists(fs, SubSeq(p, 1, n)) => isDir(fs, SubSeq(p, 1, n))
mkpath(fs, p) ==
  [q \in DOMAIN fs \cup {SubSeq(p, 1, n) : n \in 0..Len(p)} |->
     IF exists(fs, q) THEN fs[q] ELSE Directory]

qCompress(c) == <<"qcompress">> \o c
compressGZip(c) == <<"gzip">> \o c

(***************************************************************************)
(* LocalFSNode                                                             *)
(***************************************************************************)
Gives(fs, v) == [fs |-> fs, ret |-> v]

\* A position that cannot be reached leaves the file where it is; what was
\* not read of the bytes asked for is zero.
Part(c, offset, n) ==
  CASE n < 0  -> StdException("length")
    [] n >= 0 /\ offset >= 0 -> Blob(SubSeq(c, offset + 1, offset + n))
    [] OTHER  -> Blob([i \in 1..n |-> IF i <= Len(c) THEN c[i] ELSE 0])

Least(a, b) == IF a < b THEN a ELSE b

readBytes(c, offset, size) ==
  IF Len(c) - offset <= 0 THEN Blob(<<>>) ELSE Part(c, offset, Least(Len(c) - offset, size))

ndRead(fs, p, offset, size) ==
  IF exists(fs, p) /\ ~isDir(fs, p) THEN readBytes(fs[p].c, offset, size)
  ELSE ShvException("open")

ndSize(fs, p) == Num(Len(fs[p].c))

ndWrite(fs, p, params, disk) ==
  LET append == params.t = "List" /\ At(Item(params, 2), "append") = Bool(TRUE)
      content == IF params.t = "List" THEN Item(params, 1).s ELSE params.s
      old == IF append /\ exists(fs, p) THEN fs[p].c ELSE <<>>
  IN  IF params.t \notin {"String", "List"} THEN Gives(fs, ShvException("params"))
      ELSE IF params.t = "List" /\ Len(params.l) # 2
        THEN Gives(fs, ShvException("params"))
      ELSE IF ~CanCreate(fs, p, disk) THEN Gives(fs, ShvException("open"))
      ELSE Gives(Put(fs, p, File(old \o Written(content, disk))), Bool(TRUE))

ndDelete(fs, p) ==
  IF exists(fs, p) /\ ~isDir(fs, p) THEN Gives(Del(fs, p), Bool(TRUE))
  ELSE Gives(fs, Bool(FALSE))

\* The name alone empties a file that exists, a name with a content does not.
ndMkfile(fs, p, params, disk) ==
  CASE params.t = "String" ->
         IF CanCreate(fs, p \o params.s, disk)
         THEN Gives(Put(fs, p \o params.s, File(<<>>)), Bool(TRUE))
         ELSE Gives(fs, Bool(FALSE))
    [] params.t = "List" /\ Len(params.l) # 2 -> Gives(fs, ShvException("params"))
    [] params.t = "List" /\ Len(params.l) = 2 ->
         LET q == p \o params.l[1].s
             made == mkpath(fs, dirOf(q))
         IN  IF ~CanMakePath(fs, dirOf(q)) THEN Gives(fs, ShvException("mkpath"))
             ELSE IF exists(made, q) THEN Gives(made, ShvException("exists"))
             ELSE IF ~CanCreate(made, q, disk) THEN Gives(made, ShvException("open"))
             ELSE Gives(Put(made, q, File(Written(params.l[2].s, disk))), Bool(TRUE))
    [] OTHER -> Gives(fs, ShvException("params"))

ndMkdir(fs, p, params) ==
  IF params.t # "String" THEN Gives(fs, ShvException("params"))
  ELSE IF CanMakePath(fs, p \o params.s)
    THEN Gives(mkpath(fs, p \o params.s), Bool(TRUE))
    ELSE Gives(fs, Bool(FALSE))

ndRmdir(fs, p, recursively) ==
  IF p = <<>> THEN Gives(fs, ShvException("root"))
  ELSE IF isDir(fs, p) /\ (recursively \/ Entries(fs, p) = {})
    THEN Gives([q \in DOMAIN fs \ Below(fs, p) |-> fs[q]], Bool(TRUE))
    ELSE Gives(fs, Bool(FALSE))

\* Directories first, each part by name.
ndLsDir(fs, p, params) ==
  LET with(k, default) == IF k \in DOMAIN asMap(params)
                          THEN At(params, k) = Bool(TRUE) ELSE default
      named(b) == Sorted({nameOf(q) : q \in {x \in Entries(fs, p) : fs[x].dir = b}})
      item(n) ==
        LET e == fs[Append(p, n)]
        IN  List(<<Text(n), Text(IF e.dir THEN "d" ELSE "f")>>
                   \o (IF with("size", TRUE) THEN <<Num(Len(e.c))>> ELSE <<>>)
                   \o (IF with("ctime", FALSE) THEN <<Null>> ELSE <<>>))
      listed == (IF with("dirs", TRUE) THEN named(TRUE) ELSE <<>>)
                  \o (IF with("files", TRUE) THEN named(FALSE) ELSE <<>>)
  IN  IF isDir(fs, p) THEN List([i \in DOMAIN listed |-> item(listed[i])])
      ELSE List(<<>>)

fsChildNames(fs, p) ==
  LET l == ndLsDir(fs, p, Invalid).l IN [i \in DOMAIN l |-> l[i].l[1].s]

(***************************************************************************)
(* FileNode                                                                *)
(***************************************************************************)
Offset(params) == asInt(At(params, "offset"))
Size(params) == IF "size" \in DOMAIN asMap(params) THEN asInt(At(params, "size"))
                ELSE MaxSize

\* A blob with the offset and the size of what was read in its meta data.
Described(v, offset, size) ==
  IF v.t = "Raise" THEN v
  ELSE [t |-> "Blob", c |-> v.c, offset |-> offset, size |-> size]

read(fs, p, params) ==
  LET v == ndRead(fs, p, Offset(params), Size(params))
  IN  Described(v, Offset(params), IF v.t = "Raise" THEN 0 ELSE Len(v.c))

compressionType(params) ==
  LET type == asText(At(params, "compressionType"), "")
  IN  CASE type = "" -> "gzip"
        [] type \in {"gzip", "qcompress"} -> type
        [] OTHER -> "invalid"

readFileCompressed(fs, p, params) ==
  LET v == ndRead(fs, p, Offset(params), Size(params))
  IN  IF compressionType(params) = "invalid" THEN ShvException("compression")
      ELSE IF v.t = "Raise" THEN v
      ELSE Described(Blob(IF compressionType(params) = "gzip" THEN compressGZip(v.c)
                          ELSE qCompress(v.c)),
                     Offset(params), Len(v.c))

SizeOf(v) == IF v.t = "Raise" THEN v ELSE Num(Len(v.c))
\* The hash of the bytes read stands for itself.
Hash(v) == IF v.t = "Raise" THEN v ELSE Text(v.c)

meta_methods_file_base ==
  <<DIR, LS,
    MetaMethod("hash", NoFlags, "Map", "String", Read),
    MetaMethod("size", LargeResultHint, "", "UInt", Level.bws),
    WithText(MetaMethod("sizeCompressed", NoFlags, "Map", "UInt", Level.bws), "params"),
    WithText(MetaMethod("read", LargeResultHint, "Map", "Blob", Read), "params"),
    WithText(MetaMethod("readCompressed", NoFlags, "Map", "Blob", Read), "params")>>

meta_methods_dir ==
  <<DIR, LS,
    MetaMethod("lsfiles", NoFlags, "Map|Null", "List", Read),
    MetaMethod("mkfile", NoFlags, "String|List", "Bool", Write),
    MetaMethod("mkdir", NoFlags, "String", "Bool", Write),
    MetaMethod("rmdir", NoFlags, "Bool", "Bool", Level.srv)>>

meta_methods_dir_write_file ==
  <<MetaMethod("write", NoFlags, "String|List", "Bool", Write)>>

get_meta_methods_file ==
  meta_methods_file_base \o meta_methods_dir_write_file
    \o <<MetaMethod("delete", NoFlags, "", "Bool", Level.srv)>>

\* A path that does not exist in a directory that does can be written.
fsMethods(fs, p) ==
  CASE isDir(fs, p) -> meta_methods_dir
    [] exists(fs, p) /\ ~isDir(fs, p) -> get_meta_methods_file
    [] OTHER -> IF p # <<>> /\ isDir(fs, dirOf(p)) THEN meta_methods_dir_write_file
                ELSE <<>>

fsMethodNames == {"write", "delete", "mkfile", "mkdir", "rmdir", "lsfiles", "read",
                  "readCompressed", "hash", "size", "sizeCompressed"}

fsCall(fs, p, method, params, disk) ==
  CASE method = "write"   -> ndWrite(fs, p, params, disk)
    [] method = "delete"  -> ndDelete(fs, p)
    [] method = "mkfile"  -> ndMkfile(fs, p, params, disk)
    [] method = "mkdir"   -> ndMkdir(fs, p, params)
    [] method = "rmdir"   -> ndRmdir(fs, p, params = Bool(TRUE))
    [] method = "lsfiles" -> Gives(fs, ndLsDir(fs, p, params))
    [] method = "read"    -> Gives(fs, read(fs, p, params))
    [] method = "readCompressed" -> Gives(fs, readFileCompressed(fs, p, params))
    [] method = "hash"    -> Gives(fs, Hash(read(fs, p, params)))
    [] method = "size"    -> Gives(fs, ndSize(fs, p))
    [] OTHER              -> Gives(fs, SizeOf(readFileCompressed(fs, p, params)))
=============================================================================
