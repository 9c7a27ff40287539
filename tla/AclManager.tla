----------------------------- MODULE AclManager -----------------------------
(***************************************************************************)
(* The access control lists of the broker: their records, with the         *)
(* conversions from and to the RPC values they are stored and sent as      *)
(* (libshviotqt acl/), and the manager with its cache over a read-only     *)
(* store in configuration files or a store in a database (libshvbroker     *)
(* aclmanager.cpp, aclmanagersqlite.cpp).                                  *)
(*                                                                         *)
(* A path is the sequence of its segments, an access string the sequence   *)
(* of its comma separated parts.  A text used as a password is the record  *)
(* of itself or, if it is a hash, of what it was hashed from.              *)
(*                                                                         *)
(* The manager is the record a of its back end, the files, the tables db,  *)
(* the cache and the groups of users checked elsewhere.  An operation that *)
(* reads also fills the cache: it gives [a |-> the manager after it,       *)
(* v |-> its result], and ok |-> FALSE where it throws.                    *)
(***************************************************************************)
EXTENDS RpcBasics

CONSTANTS
  Alphabet,    \* the keys of maps in alphabetical order, as std::map lists them
  RuleKeys,    \* the keys "path:method" of the old form of rules, taken apart
  LongTexts,   \* passwords that happen to have the 40 characters of a SHA-1
  mergeMaps(_, _)  \* one profile over another, key by key and level by level

mapKeys(m) == SelectSeq(Alphabet, LAMBDA k : k \in DOMAIN m)

(***************************************************************************)
(* A login: the user, the kind of login and the text sent.  A kind that is *)
(* not named is SHA1.                                                      *)
(***************************************************************************)
LoginTypes == {"NONE", "PLAIN", "SHA1", "RSAOAEP", "AZURE", "TOKEN"}
loginTypeFromString(s) == IF s \in LoginTypes THEN s ELSE "INVALID"

userLogin(l) ==
  [user |-> l.user,
   type |-> IF l.type = "" THEN "SHA1" ELSE loginTypeFromString(l.type),
   password |-> l.password]

(***************************************************************************)
(* Passwords.  Hashing is exact and never gives the same text twice.       *)
(***************************************************************************)
Plain(p) == [text |-> p]
NoText == Plain("")
sha1Hex(x) == [hash |-> x]
IsSha1(x) == DOMAIN x = {"hash"}
Length(x) == IF IsSha1(x) \/ x.text \in LongTexts THEN 40 ELSE IF x = NoText THEN 0 ELSE 8

NoPassword == [password |-> NoText, format |-> "INVALID"]
formatFromString(s) == IF s \in {"PLAIN", "SHA1"} THEN s ELSE "INVALID"
Guess(x) == IF IsSha1(x) THEN "SHA1" ELSE "PLAIN"

PasswordToRpcValue(p) ==
  Map([password |-> Text(p.password), format |-> Text(p.format)])

PasswordFromRpcValue(v) ==
  CASE v.t = "String" -> [password |-> v.s, format |-> Guess(v.s)]
    [] v.t = "Map" ->
         LET x == asText(At(v, "password"), NoText)
             f == formatFromString(asText(At(v, "format"), ""))
         IN  [password |-> x,
              format |-> IF f = "INVALID" /\ x # NoText THEN Guess(x) ELSE f]
    [] OTHER -> NoPassword

(***************************************************************************)
(* Mount definitions, users, roles and access rules.                       *)
(***************************************************************************)
NoMountDef == [mountPoint |-> <<>>, description |-> ""]
IsMountDef(d) == d.mountPoint # <<>>

MountDefToRpcValue(d) ==
  LET ks == {"mountPoint"} \cup (IF d.description = "" THEN {} ELSE {"description"})
  IN  Map([k \in ks |-> Text(d[k])])

MountDefFromRpcValue(v) ==
  CASE v.t = "String" -> [mountPoint |-> v.s, description |-> ""]
    [] v.t = "Map" -> [mountPoint |-> asText(At(v, "mountPoint"), <<>>),
                       description |-> asText(At(v, "description"), "")]
    [] OTHER -> NoMountDef

NoUser == [password |-> NoPassword, roles |-> <<>>]
IsUser(u) == u.password.format # "INVALID"

UserToRpcValue(u) ==
  Map([password |-> PasswordToRpcValue(u.password), roles |-> NameList(u.roles)])

\* The roles of both keys, the old one was "grants".
RolesAndGrants(v) == Names(At(v, "roles")) \o Names(At(v, "grants"))

UserFromRpcValue(v) ==
  IF v.t = "Map"
  THEN [password |-> PasswordFromRpcValue(At(v, "password")),
        roles |-> RolesAndGrants(v)]
  ELSE NoUser

NoRole == [roles |-> <<>>, profile |-> Invalid]
MapOnly(v) == IF v.t = "Map" THEN v ELSE Invalid

RoleToRpcValue(r) ==
  LET ks == (IF r.roles = <<>> THEN {} ELSE {"roles"})
            \cup (IF r.profile.t = "Map" THEN {"profile"} ELSE {})
  IN  Map([k \in ks |-> IF k = "roles" THEN NameList(r.roles) ELSE r.profile])

\* A value that is neither a map nor null is refused by an exception.
IsRoleValue(v) == v.t \in {"Map", "Null"}
RoleFromRpcValue(v) ==
  IF v.t = "Map"
  THEN [roles |-> RolesAndGrants(v), profile |-> MapOnly(At(v, "profile"))]
  ELSE NoRole

IsRule(r) == r.path # <<>> /\ r.access # <<>>

RuleToRpcValue(r) ==
  Map([role |-> Text(r.access), method |-> Text(r.method), pathPattern |-> Text(r.path)])

RuleFromRpcValue(v) ==
  [access |-> asText(At(v, "role"), <<>>), method |-> asText(At(v, "method"), ""),
   path |-> asText(At(v, "pathPattern"), <<>>)]

isWildCardPattern(path) == path # <<>> /\ Last(path) = "**"

isPathMethodMatch(r, path, method) ==
  /\ IF isWildCardPattern(r.path)
     THEN IsPrefix(Front(r.path), path)
     ELSE r.path = path
  /\ r.method \in {"", method}

RulesToRpcValue(rules) == List([i \in DOMAIN rules |-> RuleToRpcValue(rules[i])])

\* The old form is a map, whose key has the path and, after a colon, the method.
RuleAtKey(v, k) ==
  LET r == RuleFromRpcValue(v.m[k])
  IN  IF k \in DOMAIN RuleKeys
      THEN [r EXCEPT !.path = RuleKeys[k].path,
                     !.method = IF RuleKeys[k].method = "" THEN @ ELSE RuleKeys[k].method]
      ELSE [r EXCEPT !.path = <<k>>]

RulesFromRpcValue(v) ==
  LET all == IF v.t = "Map"
             THEN LET ks == mapKeys(v.m) IN [i \in DOMAIN ks |-> RuleAtKey(v, ks[i])]
             ELSE [i \in DOMAIN asList(v) |-> RuleFromRpcValue(v.l[i])]
  IN  SelectSeq(all, IsRule)

Tables == {"mounts", "users", "roles", "access"}
FileNames == [mounts |-> <<"mounts.cpon", "fstab.cpon">>, users |-> <<"users.cpon">>,
              roles |-> <<"roles.cpon", "grants.cpon">>,
              access |-> <<"access.cpon", "paths.cpon">>]

EmptyCache == [mounts |-> <<>>, users |-> <<>>, roles |-> <<>>, access |-> <<>>,
               flat |-> <<>>, files |-> <<>>]
EmptyTables == [mounts |-> <<>>, users |-> <<>>, roles |-> <<>>, access |-> <<>>]

(***************************************************************************)
(* The configuration files.                                                *)
(***************************************************************************)
\* The file with the newer name, or else the one with the deprecated name.
configFile(files, tbl) ==
  IF Head(FileNames[tbl]) \in DOMAIN files THEN Head(FileNames[tbl]) ELSE Last(FileNames[tbl])
loadAclConfig(a, tbl) == a.files[configFile(a.files, tbl)]

aclConfig(a, tbl) ==
  IF tbl \in DOMAIN a.cache.files THEN a.cache.files[tbl] ELSE loadAclConfig(a, tbl)

Loaded(a, tbl) ==
  IF a.backend = "files"
  THEN [a EXCEPT !.cache.files = Put(@, tbl, aclConfig(a, tbl))] ELSE a

filesKeys(a, tbl) == DOMAIN asMap(aclConfig(a, tbl))
filesMountDef(a, id) == MountDefFromRpcValue(At(aclConfig(a, "mounts"), id))
filesUser(a, n) == UserFromRpcValue(At(aclConfig(a, "users"), n))
filesRoleValue(a, n) ==
  LET v == At(aclConfig(a, "roles"), n) IN IF v = Invalid THEN Null ELSE v
filesRole(a, n) == RoleFromRpcValue(filesRoleValue(a, n))
filesAccessRoleRules(a, n) == RulesFromRpcValue(At(aclConfig(a, "access"), n))

(***************************************************************************)
(* The tables of the database.                                             *)
(***************************************************************************)
sqlKeys(a, tbl) == DOMAIN a.db[tbl]
Row(a, tbl, k, default) == IF k \in DOMAIN a.db[tbl] THEN a.db[tbl][k] ELSE default
sqlMountDef(a, id) == Row(a, "mounts", id, NoMountDef)
sqlUser(a, n) == Row(a, "users", n, NoUser)
sqlRole(a, n) == Row(a, "roles", n, NoRole)
sqlAccessRoleRules(a, n) == Row(a, "access", n, <<>>)

sqlSetMountDef(a, id, d) ==
  [a EXCEPT !.db.mounts = IF IsMountDef(d) THEN Put(@, id, d) ELSE Del(@, id)]
sqlSetUser(a, n, u) ==
  [a EXCEPT !.db.users = IF IsUser(u) THEN Put(@, n, u) ELSE Del(@, n)]
sqlSetRole(a, n, exists, r) ==
  [a EXCEPT !.db.roles = IF exists THEN Put(@, n, r) ELSE Del(@, n)]

SameKey(r, s) == r.path = s.path /\ r.method = s.method

\* The rules go in one by one, outside of a transaction: the first one whose path
\* and method are there already is refused by the primary key.
Stored(rules) ==
  {n \in 0..Len(rules) : \A i, j \in 1..n : i < j => ~SameKey(rules[i], rules[j])}
Distinct(rules) == Highest(Stored(rules), 0)

sqlSetAccessRoleRules(a, n, rules) ==
  LET kept == SubSeq(rules, 1, Distinct(rules))
  IN  [a EXCEPT !.db.access = IF kept = <<>> THEN Del(@, n) ELSE Put(@, n, kept)]

(***************************************************************************)
(* Either store.                                                           *)
(***************************************************************************)
Keys(a, tbl) == IF a.backend = "files" THEN filesKeys(a, tbl) ELSE sqlKeys(a, tbl)
aclMountDef(a, id) == IF a.backend = "files" THEN filesMountDef(a, id) ELSE sqlMountDef(a, id)
aclUser(a, n) == IF a.backend = "files" THEN filesUser(a, n) ELSE sqlUser(a, n)
aclRole(a, n) == IF a.backend = "files" THEN filesRole(a, n) ELSE sqlRole(a, n)
RoleThrows(a, n) == a.backend = "files" /\ ~IsRoleValue(filesRoleValue(a, n))
aclAccessRoleRules(a, n) ==
  IF a.backend = "files" THEN filesAccessRoleRules(a, n) ELSE sqlAccessRoleRules(a, n)

(***************************************************************************)
(* The cache.  An empty table has not been loaded, an invalid entry of one *)
(* neither; roles are read from the store whenever they are asked for.     *)
(***************************************************************************)
NotLoaded == [rules |-> <<>>, loaded |-> FALSE]

Listed(a, tbl, unset) ==
  IF DOMAIN a.cache[tbl] # {} THEN a
  ELSE [Loaded(a, tbl) EXCEPT !.cache[tbl] = [n \in Keys(a, tbl) |-> unset]]

mountDeviceIds(a) == Listed(a, "mounts", NoMountDef)
users(a) == Listed(a, "users", NoUser)
roles(a) == Listed(a, "roles", NoRole)
accessRoles(a) == Listed(a, "access", NotLoaded)

Entry(b, tbl, n, default, fresh) ==
  IF n \in DOMAIN b.cache[tbl]
  THEN [a |-> [b EXCEPT !.cache[tbl][n] = fresh], v |-> fresh]
  ELSE [a |-> b, v |-> default]

MountDefIn(b, id) ==
  LET known == id \in DOMAIN b.cache.mounts /\ IsMountDef(b.cache.mounts[id])
  IN  Entry(b, "mounts", id, NoMountDef,
            IF known THEN b.cache.mounts[id] ELSE aclMountDef(b, id))
mountDef(a, id) == MountDefIn(mountDeviceIds(a), id)

UserIn(b, n) ==
  LET known == n \in DOMAIN b.cache.users /\ IsUser(b.cache.users[n])
  IN  Entry(b, "users", n, NoUser, IF known THEN b.cache.users[n] ELSE aclUser(b, n))
user(a, n) == UserIn(users(a), n)

\* What is stored with the name of a role is never read: only the names are kept here.
RoleIn(b, n) ==
  [a |-> b, v |-> IF n \in DOMAIN b.cache.roles THEN aclRole(b, n) ELSE NoRole]
role(a, n) == RoleIn(roles(a), n)

RulesOf(e) == [a |-> e.a, v |-> e.v.rules]
RulesIn(b, n) ==
  LET known == n \in DOMAIN b.cache.access /\ b.cache.access[n].loaded
  IN  Entry(b, "access", n, NotLoaded,
            IF known THEN b.cache.access[n]
            ELSE [rules |-> aclAccessRoleRules(b, n), loaded |-> TRUE])
accessRoleRules(a, n) == RulesOf(RulesIn(accessRoles(a), n))

clearCache(a) == [a EXCEPT !.cache = EmptyCache]
reload(a) == clearCache(a)

\* Files are read only: a change of them throws before anything else.
Refused(a) == [a |-> a, ok |-> FALSE]
Changed(a) == [a |-> a, ok |-> TRUE]

setMountDef(a, id, d) ==
  IF a.backend = "files" THEN Refused(a)
  ELSE Changed([sqlSetMountDef(a, id, d) EXCEPT !.cache.mounts = <<>>])

\* As setUser(), without forgetting the roles collected for the user.
SetUserKeepingFlattened(a, n, u) ==
  IF a.backend = "files" THEN Refused(a)
  ELSE Changed([sqlSetUser(a, n, u) EXCEPT !.cache.users = <<>>])

setUser(a, n, u) ==
  IF a.backend = "files" THEN Refused(a)
  ELSE Changed([sqlSetUser(a, n, u) EXCEPT !.cache.users = <<>>, !.cache.flat = <<>>])

\* As setRole(), without forgetting whose roles have been collected.
SetRoleKeepingFlattened(a, n, exists, r) ==
  IF a.backend = "files" THEN Refused(a)
  ELSE Changed([sqlSetRole(a, n, exists, r) EXCEPT !.cache.roles = <<>>])

setRole(a, n, exists, r) ==
  IF a.backend = "files" THEN Refused(a)
  ELSE Changed([sqlSetRole(a, n, exists, r) EXCEPT !.cache.roles = <<>>, !.cache.flat = <<>>])

setAccessRoleRules(a, n, rules) ==
  IF a.backend = "files" THEN Refused(a)
  ELSE IF Distinct(rules) < Len(rules) THEN Refused(sqlSetAccessRoleRules(a, n, rules))
  ELSE Changed([sqlSetAccessRoleRules(a, n, rules) EXCEPT !.cache.access = <<>>])

(***************************************************************************)
(* The roles of a user and the roles these stand for, nearest first.  They *)
(* are kept under the name of the user, with a prefix for a single role    *)
(* and for users checked elsewhere.  A role that cannot be read leaves the *)
(* roles collected until then in the cache.                                *)
(***************************************************************************)
Enqueue(queue, done, more) ==
  FoldLeft(LAMBDA q, r : IF r \in ToSet(q) \cup ToSet(done) THEN q ELSE Append(q, r),
           queue, more)

\* The roles as they are read: a role that is not there stands for nothing else.
RoleTable(a) ==
  [r \in Keys(a, "roles") |-> [roles |-> aclRole(a, r).roles, throws |-> RoleThrows(a, r)]]
Subroles(t, r) == IF r \in DOMAIN t THEN t[r].roles ELSE <<>>
Throws(t, r) == r \in DOMAIN t /\ t[r].throws
Mentioned(t, rs) == ToSet(rs) \cup UNION {ToSet(t[r].roles) : r \in DOMAIN t}

TakeRole(t, c, r, done) ==
  [v |-> done, ok |-> ~Throws(t, r), queue |-> Enqueue(Tail(c.queue), done, Subroles(t, r))]
TakeNext(t, c) ==
  IF c.queue = <<>> \/ ~c.ok THEN c
  ELSE TakeRole(t, c, Head(c.queue), Append(c.v, Head(c.queue)))

\* Every role that is mentioned is taken from the queue once at most.
Collect(t, rs) ==
  LET taken[n \in Nat] ==
        IF n = 0 THEN [v |-> <<>>, ok |-> TRUE, queue |-> Enqueue(<<>>, <<>>, rs)]
        ELSE TakeNext(t, taken[n - 1])
  IN  taken[Cardinality(Mentioned(t, rs))]

Flattened(a, key, c) ==
  [a |-> [(IF c.v = <<>> THEN a ELSE Loaded(a, "roles")) EXCEPT !.cache.flat = Put(@, key, c.v)],
   v |-> c.v, ok |-> c.ok]

userFlattenRoles(a, key, rs) ==
  IF key \in DOMAIN a.cache.flat THEN [a |-> a, v |-> a.cache.flat[key], ok |-> TRUE]
  ELSE Flattened(a, key, Collect(RoleTable(a), rs))

UserKey(n) == <<"", n>>
flattenRole(a, r) == userFlattenRoles(a, <<"role", r>>, <<r>>)
ldapUserFlattenRoles(a, n, rs) == userFlattenRoles(a, <<"ldap", n>>, rs)
azureUserFlattenRoles(a, n, rs) == userFlattenRoles(a, <<"azure", n>>, rs)

MergedProfiles(a, rs) ==
  FoldLeft(LAMBDA p, r : mergeMaps(p, role(a, r).v.profile), Invalid, rs)

UserRoles(u, n) == userFlattenRoles(u.a, UserKey(n), u.v.roles)
ProfileOf(f) ==
  [a |-> IF f.v = <<>> THEN f.a ELSE roles(f.a), ok |-> f.ok,
   v |-> MergedProfiles(f.a, f.v)]
userProfile(a, n) == ProfileOf(UserRoles(user(a, n), n))

\* The first groups reported for a user stay until the broker stops.
FirstOnly(f, k, v) == IF k \in DOMAIN f THEN f ELSE Put(f, k, v)

setGroupForAzureUser(a, n, g) == [a EXCEPT !.azure = FirstOnly(@, n, g)]
setGroupForLdapUser(a, n, g) == [a EXCEPT !.ldap = FirstOnly(@, n, g)]

(***************************************************************************)
(* The grant of a user for a method: that of the first rule that matches,  *)
(* role by role.                                                           *)
(***************************************************************************)
Matching(rules, path, method) ==
  SelectSeq(rules, LAMBDA r : isPathMethodMatch(r, path, method))

\* The rules of the roles up to the one that decides are read.
WithRules(b, rs) ==
  [b EXCEPT !.cache.access = [r \in DOMAIN @ |-> IF r \in rs THEN RulesIn(b, r).v ELSE @[r]]]
RuleAmong(b, rs, path, method) ==
  LET hits == [i \in DOMAIN rs |-> Matching(RulesIn(b, rs[i]).v.rules, path, method)]
      at == {i \in DOMAIN rs : hits[i] # <<>>}
  IN  IF at = {} THEN [a |-> WithRules(b, ToSet(rs)), v |-> NoGrant, ok |-> TRUE]
      ELSE [a |-> WithRules(b, ToSet(SubSeq(rs, 1, Min(at)))),
            v |-> fromShv2Access(Head(hits[Min(at)]).access, None), ok |-> TRUE]
FirstRule(a, rs, path, method) ==
  IF rs = <<>> THEN [a |-> a, v |-> NoGrant, ok |-> TRUE]
  ELSE RuleAmong(accessRoles(a), rs, path, method)

\* Of a user, of a user of LDAP, of a user of Azure.
KeptRoles(u, n) ==
  CASE IsUser(u.v) -> <<UserKey(n), u.v.roles>>
    [] ~IsUser(u.v) /\ n \in DOMAIN u.a.ldap -> <<<<"ldap", n>>, u.a.ldap[n]>>
    [] ~IsUser(u.v) /\ n \notin DOMAIN u.a.ldap /\ n \in DOMAIN u.a.azure ->
         <<<<"azure", n>>, u.a.azure[n]>>
    [] OTHER -> <<>>

RolesFor(u, k) ==
  IF k = <<>> THEN [a |-> u.a, v |-> <<>>, ok |-> TRUE] ELSE userFlattenRoles(u.a, k[1], k[2])
RolesOfUser(u, n) == RolesFor(u, KeptRoles(u, n))
RolesForGrant(a, n, master) ==
  IF master THEN flattenRole(a, "masterBroker") ELSE RolesOfUser(user(a, n), n)

AppPath == <<".broker", "app">>
CurrentClientPath == <<".broker", "currentClient">>

GrantAmong(f, path, method) ==
  IF ~f.ok THEN [f EXCEPT !.v = NoGrant]
  ELSE IF path = CurrentClientPath THEN [f EXCEPT !.v = GrantOf(Write)]
  ELSE FirstRule(f.a, f.v, path, method)

accessGrantForShvPath(a, n, path, method, master, given) ==
  IF master /\ given.level > None THEN [a |-> a, v |-> given, ok |-> TRUE]
  ELSE IF master /\ path = AppPath THEN [a |-> a, v |-> GrantOf(Write), ok |-> TRUE]
  ELSE GrantAmong(RolesForGrant(a, n, master), path, method)

(***************************************************************************)
(* A login: the text sent for SHA1 is a digest of the nonce of the server  *)
(* and of the hash of the password.  nonce = 0: no hello was said.         *)
(***************************************************************************)
Fits(p, l, nonce, type, hash) ==
  /\ p.password # NoText
  /\ \/ /\ type = "PLAIN" /\ l.password.nonce = 0
        /\ p.password = IF p.format = "PLAIN" THEN l.password.text ELSE sha1Hex(l.password.text)
     \/ /\ type = "SHA1" /\ nonce # 0
        /\ l.password = [nonce |-> nonce, text |-> hash]

\* As PasswordFits(), but what is stored in plain is not hashed for SHA1.
FitsUnhashed(u, l, nonce) ==
  [a |-> u.a, v |-> IsUser(u.v) /\ Fits(u.v.password, l, nonce, l.type, u.v.password.password)]

PasswordFits(u, l, nonce) ==
  LET p == u.v.password
  IN  [a |-> u.a,
       v |-> IsUser(u.v) /\ Fits(p, l, nonce, IF l.type = "INVALID" THEN "SHA1" ELSE l.type,
                                 IF p.format = "PLAIN" THEN sha1Hex(p.password) ELSE p.password)]

checkPassword(a, l, nonce) == PasswordFits(user(a, l.user), l, nonce)

mountPointForDevice(a, id) == mountDef(a, id).v.mountPoint

(***************************************************************************)
(* The first start on a database imports the configuration files.          *)
(***************************************************************************)
importAclConfigFiles(a) ==
  LET f == [a EXCEPT !.backend = "files", !.cache = EmptyCache]
      mounts == {id \in filesKeys(f, "mounts") : IsMountDef(filesMountDef(f, id))}
      people == {n \in filesKeys(f, "users") : IsUser(filesUser(f, n))}
      ruled == {r \in filesKeys(f, "access") : filesAccessRoleRules(f, r) # <<>>}
  IN  [a EXCEPT !.db =
         [mounts |-> [id \in mounts |-> filesMountDef(f, id)],
          users |-> [n \in people |-> filesUser(f, n)],
          roles |-> [r \in filesKeys(f, "roles") |-> filesRole(f, r)],
          access |-> [r \in ruled |-> filesAccessRoleRules(f, r)]]]

ImportFails(a) ==
  LET f == [a EXCEPT !.backend = "files", !.cache = EmptyCache]
  IN  \/ \E r \in filesKeys(f, "roles") : RoleThrows(f, r)
      \/ \E r \in filesKeys(f, "access") :
            Distinct(filesAccessRoleRules(f, r)) < Len(filesAccessRoleRules(f, r))
=============================================================================
