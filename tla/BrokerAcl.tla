------------------------------ MODULE BrokerAcl ------------------------------
(***************************************************************************)
(* The broker under its access control lists: clients log in, are granted  *)
(* a level for every call and change the lists they are granted by through *)
(* the nodes below .broker (libshvbroker brokeraclnode.cpp,                *)
(* currentclientshvnode.cpp, brokerappnode.cpp, brokerapp.cpp).            *)
(*                                                                         *)
(* A call is handled to its end before the next one; the checks of LDAP    *)
(* and Azure answer later.                                                 *)
(***************************************************************************)
EXTENDS AclManager

CONSTANTS
  Clients,      \* connections
  Logins,       \* the logins clients try: [user, type, password]
  Calls,        \* the calls clients make: [path, method, params]
  FileSets,     \* the contents the configuration files may have
  Starts,       \* the configurations: [backend : {"files", "sqlite"},
                \* directory : {"ldap", "azure"}, files : FileSets]
  LdapName,     \* the name at the broker of a user of LDAP
  AzureNames,   \* the names at the broker of the users of Azure
  GroupLists,   \* the groups a directory reports for a user
  MaxNonce,     \* bound of the hellos of a connection
  MaxChanges    \* bound of the calls that change the manager or its cache and of
                \* the edits of the files

\* Every table has its file: the broker can do nothing without.
ASSUME FilesAssumption ==
  /\ \A f \in FileSets : \A tbl \in Tables : configFile(f, tbl) \in DOMAIN f
  /\ \A s \in Starts : s.files \in FileSets

VARIABLES
  acl,       \* the manager
  conn,      \* the connections
  reloading, \* reloadConfig() was called, its timer runs
  changes,   \* changes so far
  edited,    \* the files were edited after the cache was cleared
  torn,      \* rules were stored in part after their cache was cleared
  saved,     \* the lists are those last saved to the files
  did,       \* the last change made by a call
  disagreed  \* names the directories have reported different groups for

vars == <<acl, conn, reloading, changes, edited, torn, saved, did, disagreed>>

AclPath == <<".broker", "etc", "acl">>
DevicePath == <<"dev">>
Result(a, ok, v) == [a |-> a, ok |-> ok, v |-> v]
Throw(a) == Result(a, FALSE, Invalid)
Set(r) == Result(r.a, r.ok, Bool(TRUE))

(***************************************************************************)
(* The nodes of the lists.                                                 *)
(***************************************************************************)
\* Everything that is saved has been loaded.
Written(tbl, x) ==
  CASE tbl = "mounts" -> MountDefToRpcValue(x)
    [] tbl = "users"  -> UserToRpcValue(x)
    [] tbl = "access" -> RulesToRpcValue(x.rules)
Saved(a, tbl, entries) ==
  Result([a EXCEPT !.cache[tbl] = entries,
                   !.files = Put(@, Head(FileNames[tbl]),
                                 Map([n \in DOMAIN entries |-> Written(tbl, entries[n])]))],
         TRUE, Bool(TRUE))

NoEntry(a) == [a |-> a, v |-> Invalid]

setMountValue(a, params) ==
  LET rv == Item(params, 2) d == MountDefFromRpcValue(rv)
  IN  IF params.t # "List" \/ (rv.t \notin {"Invalid", "Null"} /\ ~IsMountDef(d)) THEN Throw(a)
      ELSE Set(setMountDef(a, Item(params, 1).s, d))

SavedMounts(b) ==
  Saved(b, "mounts", [n \in DOMAIN b.cache.mounts |-> mountDef(b, n).v])
saveMounts(a) == SavedMounts(mountDeviceIds(a))

MountsNodeCall(a, e, rest, method, params) ==
  CASE rest = <<>> /\ method = "setValue" -> setMountValue(a, params)
    [] rest = <<>> /\ method = "saveToConfigFile" -> saveMounts(a)
    [] Len(rest) = 1 /\ method = "value" -> Result(e.a, TRUE, MountDefToRpcValue(e.v))
    [] Len(rest) = 2 /\ method = "get" -> Result(e.a, TRUE, Text(e.v[rest[2]]))
    [] Len(rest) = 2 /\ method = "set" ->
         setMountValue(e.a, List(<<Text(rest[1]),
                          MountDefToRpcValue([e.v EXCEPT ![rest[2]] = params.s])>>))
    [] OTHER -> Throw(a)

MountsCall(a, rest, method, params) ==
  MountsNodeCall(a, IF rest = <<>> THEN NoEntry(a) ELSE mountDef(a, Head(rest)), rest, method, params)

setRoleValue(a, params) ==
  LET rv == Item(params, 2)
  IN  IF params.t # "List" \/ ~IsRoleValue(rv) THEN Throw(a)
      ELSE Set(setRole(a, Item(params, 1).s, rv.t # "Null", RoleFromRpcValue(rv)))

SavedRoles(b) ==
  Result([b EXCEPT !.files = Put(@, "roles.cpon", Map([n \in DOMAIN b.cache.roles |->
                                                        RoleToRpcValue(role(b, n).v)]))],
         TRUE, Bool(TRUE))
saveRoles(a) == SavedRoles(roles(a))

RolesNodeCall(a, e, rest, method, params) ==
  CASE rest = <<>> /\ method = "setValue" -> setRoleValue(a, params)
    [] rest = <<>> /\ method = "saveToConfigFile" -> saveRoles(a)
    [] Len(rest) = 1 /\ method = "value" -> Result(e.a, TRUE, RoleToRpcValue(e.v))
    [] Len(rest) = 2 /\ method = "get" ->
         Result(e.a, TRUE, IF rest[2] = "roles" THEN NameList(e.v.roles) ELSE e.v.profile)
    [] Len(rest) = 2 /\ method = "set" ->
         setRoleValue(e.a, List(<<Text(rest[1]), RoleToRpcValue(
           IF rest[2] = "roles" THEN [e.v EXCEPT !.roles = Names(params)]
           ELSE [e.v EXCEPT !.profile = params])>>))
    [] OTHER -> Throw(a)

RolesCall(a, rest, method, params) ==
  RolesNodeCall(a, IF rest = <<>> THEN NoEntry(a) ELSE role(a, Head(rest)), rest, method, params)

setUserValue(a, params) ==
  LET rv == Item(params, 2) u == UserFromRpcValue(rv)
  IN  IF params.t # "List" \/ (rv.t \notin {"Invalid", "Null"} /\ ~IsUser(u)) THEN Throw(a)
      ELSE Set(setUser(a, Item(params, 1).s, u))

\* As SavedUsers(), but users not asked for yet are saved as they are in the cache.
SavedUsersAsCached(b) == Saved(b, "users", b.cache.users)

SavedUsers(b) == Saved(b, "users", [n \in DOMAIN b.cache.users |-> user(b, n).v])
saveUsers(a) == SavedUsers(users(a))

WithProperty(u, name, params) ==
  CASE name = "password" -> [u EXCEPT !.password.password = params.s]
    [] name = "passwordFormat" -> [u EXCEPT !.password.format = formatFromString(params.s)]
    [] name = "roles" -> [u EXCEPT !.roles = Names(params)]

UsersNodeCall(a, e, rest, method, params) ==
  CASE rest = <<>> /\ method = "setValue" -> setUserValue(a, params)
    [] rest = <<>> /\ method = "saveToConfigFile" -> saveUsers(a)
    [] Len(rest) = 1 /\ method = "value" -> Result(e.a, TRUE, UserToRpcValue(e.v))
    [] Len(rest) = 2 /\ method = "get" ->
         Result(e.a, TRUE, CASE rest[2] = "password" -> Text(e.v.password.password)
                         [] rest[2] = "passwordFormat" -> Text(e.v.password.format)
                         [] rest[2] = "roles" -> NameList(e.v.roles))
    [] Len(rest) = 2 /\ method = "set" ->
         setUserValue(e.a, List(<<Text(rest[1]),
                         UserToRpcValue(WithProperty(e.v, rest[2], params))>>))
    [] OTHER -> Throw(a)

UsersCall(a, rest, method, params) ==
  UsersNodeCall(a, IF rest = <<>> THEN NoEntry(a) ELSE user(a, Head(rest)), rest, method, params)

InvalidIndex == 1000
RuleIndex == [i \in {"[0]", "[1]", "[2]"} |-> IF i = "[0]" THEN 0 ELSE IF i = "[1]" THEN 1 ELSE 2]
keyToRuleIndex(key) == IF key \in DOMAIN RuleIndex THEN RuleIndex[key] ELSE InvalidIndex

setAccessValue(a, params) ==
  IF params.t # "List" THEN Throw(a)
  ELSE Set(setAccessRoleRules(a, Item(params, 1).s, RulesFromRpcValue(Item(params, 2))))

SavedAccess(b) ==
  Saved(b, "access", [n \in DOMAIN b.cache.access |->
                        [rules |-> accessRoleRules(b, n).v, loaded |-> TRUE]])
saveAccess(a) == SavedAccess(accessRoles(a))

Get(a, x) == Result(a, TRUE, Text(x))
RuleFields == [pathPattern |-> "path", method |-> "method", grant |-> "access"]
RuleSetters == [setPathPattern |-> "path", setMethod |-> "method", setGrant |-> "access"]

\* A setter gives the one changed rule where setValue() expects all of them.
RuleCall(e, name, i, method, params) ==
  CASE i < Len(e.v) /\ method \in DOMAIN RuleFields -> Get(e.a, e.v[i + 1][RuleFields[method]])
    [] i < Len(e.v) /\ method \in DOMAIN RuleSetters ->
         setAccessValue(e.a, List(<<Text(name),
           RuleToRpcValue([e.v[i + 1] EXCEPT ![RuleSetters[method]] = params.s])>>))
    [] OTHER -> Throw(e.a)

AccessNodeCall(a, e, rest, method, params) ==
  CASE rest = <<>> /\ method = "setValue" -> setAccessValue(a, params)
    [] rest = <<>> /\ method = "saveToConfigFile" -> saveAccess(a)
    [] Len(rest) = 1 /\ method = "value" -> Result(e.a, TRUE, RulesToRpcValue(e.v))
    [] Len(rest) = 2 -> RuleCall(e, rest[1], keyToRuleIndex(rest[2]), method, params)
    [] OTHER -> Throw(a)

AccessCall(a, rest, method, params) ==
  AccessNodeCall(a, IF rest = <<>> THEN NoEntry(a) ELSE accessRoleRules(a, Head(rest)), rest, method, params)

saveToConfigFiles(a) == saveAccess(saveRoles(saveUsers(saveMounts(a).a).a).a)

(***************************************************************************)
(* The node of the client itself and the one of the broker.                *)
(***************************************************************************)
GrantAnswer(g) == Result(g.a, g.ok, Text(accessLevelToAccessString(g.v.level)))
Ask(a, n, params) ==
  IF Item(params, 1).t # "String" \/ Item(params, 2).t # "String" THEN Throw(a)
  ELSE GrantAnswer(accessGrantForShvPath(a, n, params.l[1].s, params.l[2].s, FALSE, NoGrant))

Joined(f, l, z) == IF f.ok THEN Result(z.a, TRUE, NameList(f.v \o l.v \o z.v)) ELSE Throw(f.a)
WithAzure(f, l, n, rs) == Joined(f, l, azureUserFlattenRoles(l.a, n, rs))
WithLdap(f, n, rs) == WithAzure(f, ldapUserFlattenRoles(f.a, n, rs), n, rs)
OwnAndDirectoryRoles(u, n) == WithLdap(UserRoles(u, n), n, u.v.roles)
userRoles(a, n) == OwnAndDirectoryRoles(user(a, n), n)

IsExternal(n) == n \in AzureNames \/ \E u \in DOMAIN LdapName : LdapName[u] = n

\* Texts of the same length as the hash are taken to be hashes already.
Hashed(x, like) == IF Length(x) # Length(like) THEN sha1Hex(x) ELSE x

SetPassword(a, u, n, password) == Set(setUser(a, n, [u EXCEPT !.password = password]))

ChangeKnown(u, n, old, new, current) ==
  IF Hashed(old, current) # current THEN Throw(u.a)
  ELSE SetPassword(u.a, u.v, n, [password |-> Hashed(new, current), format |-> "SHA1"])

Current(p) == IF p.format = "PLAIN" THEN sha1Hex(p.password) ELSE p.password
ChangeOf(u, n, old, new) == ChangeKnown(u, n, old, new, Current(u.v.password))
changePassword(a, n, params) ==
  IF \/ params.t # "List" \/ IsExternal(n)
     \/ Item(params, 1).s = NoText \/ Item(params, 2).s = NoText
  THEN Throw(a)
  ELSE ChangeOf(user(a, n), n, params.l[1].s, params.l[2].s)

Profile(p) == Result(p.a, p.ok, IF p.v = Invalid THEN Null ELSE p.v)

CurrentClientCall(a, n, method, params) ==
  CASE method = "userRoles" -> userRoles(a, n)
    [] method = "userProfile" -> Profile(userProfile(a, n))
    [] method \in {"accessGrantForMethodCall", "accessLevelForMethodCall"} -> Ask(a, n, params)
    [] method = "changePassword" -> changePassword(a, n, params)
    [] OTHER -> Result(a, TRUE, Bool(TRUE))

\* Subscribing needs Read on the path of the signals.
Subscribed(g) == Result(g.a, g.ok /\ g.v.level >= Read, Bool(TRUE))
FirstText(params, ks, default) ==
  LET found == SelectSeq(ks, LAMBDA k : At(params, k).t = "String")
  IN  IF found = <<>> THEN default ELSE params.m[Head(found)].s
createSubscription(a, n, params) ==
  Subscribed(accessGrantForShvPath(a, n, FirstText(params, <<"paths", "path">>, <<>>),
                                   FirstText(params, <<"signal", "methods", "method">>, ""),
                                   FALSE, NoGrant))

AppGetters == {"appVersion", "gitCommit", "shvVersion", "shvGitCommit", "brokerId"}
AppCall(a, n, method, params) ==
  CASE method = "subscribe" -> createSubscription(a, n, params)
    [] method = "echo" -> Result(a, TRUE, IF params = Invalid THEN Null ELSE params)
    [] OTHER -> Result(a, TRUE, Bool(TRUE))

\* The node of any connection, for the service.
IsClient(path) == Len(path) = 3 /\ SubSeq(path, 1, 2) = <<".broker", "clients">>

RoleAnswer(f) == Result(f.a, f.ok, NameList(f.v))
ClientConnectionCall(a, n, method) ==
  CASE method = "userRoles" -> RoleAnswer(UserRoles(user(a, n), n))
    [] method = "userProfile" -> Profile(userProfile(a, n))
    [] method = "userName" -> Result(a, TRUE, Text(n))
    [] OTHER -> Result(a, TRUE, Bool(TRUE))

(***************************************************************************)
(* A node runs the methods it has at the level they ask for.               *)
(***************************************************************************)
DirLs == [dir |-> Level.bws, ls |-> Level.bws]
AllAdmin(ms) == [m \in ms |-> Admin]
Both(f, g) == [m \in DOMAIN f \cup DOMAIN g |-> IF m \in DOMAIN f THEN f[m] ELSE g[m]]

aclMethods(tbl, rest) ==
  CASE Len(rest) = 0 -> AllAdmin({"setValue", "saveToConfigFile"})
    [] Len(rest) = 1 -> AllAdmin({"value"})
    [] Len(rest) = 2 /\ tbl # "access" -> AllAdmin({"get", "set"})
    [] Len(rest) = 2 /\ tbl = "access" ->
         AllAdmin({"pathPattern", "setPathPattern", "method", "setMethod", "grant", "setGrant"})
    [] OTHER -> <<>>

currentClientMethods ==
  [m \in {"clientId", "mountPoint", "userRoles", "userProfile", "accessGrantForMethodCall",
          "accessLevelForMethodCall", "changePassword"} |->
     IF m = "changePassword" THEN Write ELSE Read]
appMethods ==
  [m \in AppGetters \cup {"masterBrokerId", "ping", "echo", "subscribe", "unsubscribe",
                         "rejectNotSubscribed", "reloadConfig", "restart"} |->
     CASE m \in {"ping", "echo", "appVersion"} -> Level.bws
       [] m \in {"reloadConfig", "restart"} -> Level.srv
       [] OTHER -> Read]
clientMethods ==
  [m \in {"userName", "userRoles", "userProfile", "mountPoint", "dropClient", "idleTime",
          "idleTimeMax"} |-> Level.srv]
deviceMethods == [get |-> Read, set |-> Write, reset |-> Level.cmd]

Below(path) == SubSeq(path, Len(AclPath) + 1, Len(path))
IsAcl(path) == IsPrefix(AclPath, path) /\ path # AclPath /\ Below(path)[1] \in Tables

metaMethods(path) ==
  Both(DirLs, CASE path = AclPath -> AllAdmin({"saveToConfigFiles"})
                [] IsAcl(path) -> aclMethods(Below(path)[1], Tail(Below(path)))
                [] path = CurrentClientPath -> currentClientMethods
                [] path = AppPath -> appMethods
                [] IsClient(path) /\ conn[path[3]].phase # "gone" -> clientMethods
                [] path = DevicePath -> deviceMethods
                [] OTHER -> <<>>)

\* To list the names of a node is to load them.
childNames(a, tbl, rest) ==
  CASE rest = <<>> /\ tbl = "mounts" -> mountDeviceIds(a)
    [] rest = <<>> /\ tbl = "users" -> users(a)
    [] rest = <<>> /\ tbl = "roles" -> roles(a)
    [] rest = <<>> /\ tbl = "access" -> accessRoles(a)
    [] Len(rest) = 1 /\ tbl = "access" -> accessRoleRules(a, rest[1]).a
    [] OTHER -> a

AclNodeCall(a, tbl, rest, method, params) ==
  CASE tbl = "mounts" -> MountsCall(a, rest, method, params)
    [] tbl = "roles" -> RolesCall(a, rest, method, params)
    [] tbl = "users" -> UsersCall(a, rest, method, params)
    [] tbl = "access" -> AccessCall(a, rest, method, params)

callMethod(a, n, k) ==
  CASE k.method = "ls" /\ IsAcl(k.path) ->
         Result(childNames(a, Below(k.path)[1], Tail(Below(k.path))), TRUE, Bool(TRUE))
    [] (k.method \in DOMAIN DirLs /\ ~IsAcl(k.path)) \/ k.method = "dir" \/ k.path = DevicePath ->
         Result(a, TRUE, Bool(TRUE))
    [] k.method \notin DOMAIN DirLs /\ k.path = AclPath -> saveToConfigFiles(a)
    [] k.method \notin DOMAIN DirLs /\ IsAcl(k.path) ->
         AclNodeCall(a, Below(k.path)[1], Tail(Below(k.path)), k.method, k.params)
    [] k.path = CurrentClientPath -> CurrentClientCall(a, n, k.method, k.params)
    [] k.path = AppPath -> AppCall(a, n, k.method, k.params)
    [] OTHER -> ClientConnectionCall(a, conn[k.path[3]].user, k.method)

Need(k) == metaMethods(k.path)[k.method]

\* As processRpcRequest(), without the comparison of levels.
ProcessUnchecked(a, n, k, grant) ==
  IF k.method \notin DOMAIN metaMethods(k.path) THEN Throw(a) ELSE callMethod(a, n, k)

processRpcRequest(a, n, k, grant) ==
  IF k.method \notin DOMAIN metaMethods(k.path) THEN Throw(a)
  ELSE IF Need(k) > fromShv2Access(toShv2Access(grant), grant.level).level THEN Throw(a)
  ELSE callMethod(a, n, k)

WithGrant(g, n, k) ==
  IF g.v.level > None THEN processRpcRequest(g.a, n, k, g.v) ELSE Throw(g.a)
onRpcFrameReceived(a, n, k, master, given) ==
  WithGrant(accessGrantForShvPath(a, n, k.path, k.method, master, given), n, k)

(***************************************************************************)
(* The connections.  A login is checked at once against the lists, or by a *)
(* directory, whose answer finds the connection still there or is dropped. *)
(***************************************************************************)
Gone == [phase |-> "gone", nonce |-> 0, user |-> "", groups |-> <<>>]
NoCall == [who |-> "", given |-> None, path |-> <<>>, method |-> "", params |-> Invalid]

Unchanged ==
  /\ did' = NoCall
  /\ UNCHANGED <<reloading, changes, edited, torn, saved, disagreed>>

Connect(c) ==
  /\ conn[c].phase = "gone"
  /\ conn' = [conn EXCEPT ![c] = [Gone EXCEPT !.phase = "new"]]
  /\ UNCHANGED acl /\ Unchanged

Hello(c) ==
  /\ conn[c].phase = "new" /\ conn[c].nonce < MaxNonce
  /\ conn' = [conn EXCEPT ![c].nonce = @ + 1]
  /\ UNCHANGED acl /\ Unchanged

AzureToken == Plain("oauth2-azure:token")
IsAzure(l) ==
  /\ l.type = "AZURE" \/ (l.type = "TOKEN" /\ l.password.text = AzureToken)
  /\ acl.directory = "azure"
IsLdap(l) == l.type = "PLAIN" /\ acl.directory = "ldap" /\ l.user \in DOMAIN LdapName

\* The connection after the check; its nonce is not used any more.
Checked(c, l, phase) ==
  conn' = [conn EXCEPT ![c] = [@ EXCEPT !.user = l.user, !.phase = phase, !.nonce = 0]]

\* A user in the lists is not looked for in the directory.  A token that is not one
\* of Azure is refused before the lists are asked.
checkLogin(c, l) ==
  LET r == checkPassword(acl, l, conn[c].nonce)
      asked == ~IsAzure(l) /\ (l.type = "TOKEN" => l.password.text = AzureToken)
  IN  /\ acl' = IF asked THEN r.a ELSE acl
      /\ Checked(c, l, IF IsAzure(l) THEN "azure"
                       ELSE IF asked /\ IsLdap(l) /\ ~IsUser(user(acl, l.user).v) THEN "ldap"
                       ELSE IF asked /\ r.v THEN "in" ELSE "refused")

Login(c, l) ==
  /\ conn[c].phase = "new"
  /\ checkLogin(c, userLogin(l))
  /\ Unchanged

Reports(n, g) ==
  disagreed' = IF \/ n \in DOMAIN acl.ldap /\ acl.ldap[n] # g
                  \/ n \in DOMAIN acl.azure /\ acl.azure[n] # g
               THEN disagreed \cup {n} ELSE disagreed

\* The answer has the groups of the user; a user of no group is refused.
Accepted(c, n, mapped) ==
  conn' = [conn EXCEPT ![c] = [@ EXCEPT
             !.user = n, !.groups = <<n>> \o mapped,
             !.phase = IF mapped = <<>> THEN "refused" ELSE "in"]]

ldapResult(c) ==
  LET n == LdapName[conn[c].user]
  IN  /\ conn[c].phase = "ldap"
      /\ \/ \E g \in GroupLists :
              /\ acl' = setGroupForLdapUser(acl, n, <<n>> \o g)
              /\ Accepted(c, n, g)
              /\ Reports(n, <<n>> \o g)
         \/ /\ acl' = setGroupForLdapUser(acl, n, <<>>)
            /\ conn' = [conn EXCEPT ![c].phase = "refused"]
            /\ Reports(n, <<>>)
      /\ did' = NoCall
  /\ UNCHANGED <<reloading, changes, edited, torn, saved>>

azureResult(c) ==
  /\ conn[c].phase = "azure"
  /\ \/ \E n \in AzureNames, g \in GroupLists :
          /\ acl' = setGroupForAzureUser(acl, n, <<n>> \o g)
          /\ Accepted(c, n, g)
          /\ Reports(n, <<n>> \o g)
     \/ \E n \in AzureNames \cup {""} :
          /\ acl' = setGroupForAzureUser(acl, n, <<>>)
          /\ conn' = [conn EXCEPT ![c].phase = "refused"]
          /\ Reports(n, <<>>)
  /\ did' = NoCall
  /\ UNCHANGED <<reloading, changes, edited, torn, saved>>

Disconnect(c) ==
  /\ conn[c].phase # "gone"
  /\ conn' = [conn EXCEPT ![c] = Gone]
  /\ UNCHANGED acl /\ Unchanged

(***************************************************************************)
(* Calls, the timer of reloadConfig(), edits of the files, a restart.      *)
(***************************************************************************)
Done(r, k, n, given) ==
  LET kept == r.a.db = acl.db /\ r.a.files = acl.files
  IN  /\ r.a = acl \/ changes < MaxChanges
      /\ acl' = r.a
      /\ changes' = IF r.a = acl THEN changes ELSE changes + 1
      /\ torn' = ((torn \/ (~r.ok /\ r.a.db # acl.db)) /\ DOMAIN r.a.cache.access # {})
      /\ edited' = (edited \/ (acl.backend = "files" /\ r.a.files # acl.files))
      /\ saved' = IF r.ok /\ k.method = "saveToConfigFiles" THEN ~torn ELSE saved /\ kept
      /\ did' = IF kept THEN NoCall
                ELSE [who |-> n, given |-> given.level, path |-> k.path,
                      method |-> k.method, params |-> k.params]
      /\ reloading' = (reloading \/ (r.ok /\ k.path = AppPath /\ k.method = "reloadConfig"))
      /\ conn' = IF r.ok /\ IsClient(k.path) /\ k.method = "dropClient"
                 THEN [conn EXCEPT ![k.path[3]] = Gone] ELSE conn
      /\ UNCHANGED disagreed

Do(k, n, master, given) ==
  \E r \in {onRpcFrameReceived(acl, n, k, master, given)} : Done(r, k, n, given)

Call(c, k) == conn[c].phase = "in" /\ Do(k, conn[c].user, FALSE, NoGrant)

MasterCall(k, given) == k.path # CurrentClientPath /\ Do(k, "", TRUE, given)

reloadConfig ==
  /\ reloading /\ reloading' = FALSE
  /\ acl' = reload(acl)
  /\ edited' = FALSE /\ torn' = FALSE /\ did' = NoCall
  /\ UNCHANGED <<conn, changes, saved, disagreed>>

EditFiles(f) ==
  /\ acl.backend = "files"
  /\ changes < MaxChanges /\ changes' = changes + 1
  /\ acl' = [acl EXCEPT !.files = f] /\ f # acl.files
  /\ edited' = TRUE /\ saved' = FALSE /\ did' = NoCall
  /\ UNCHANGED <<conn, reloading, torn, disagreed>>

Started(backend, dir, f, db) ==
  [backend |-> backend, directory |-> dir, files |-> f, db |-> db, cache |-> EmptyCache,
   azure |-> <<>>, ldap |-> <<>>]

\* A first start on a database whose files cannot be imported fails.
FirstStart(backend, dir, f) ==
  LET a == Started(backend, dir, f, EmptyTables)
  IN  IF backend = "files" \/ ImportFails(a) THEN a ELSE importAclConfigFiles(a)

Restart ==
  /\ acl' = Started(acl.backend, acl.directory, acl.files, acl.db)
  /\ conn' = [c \in Clients |-> Gone]
  /\ reloading' = FALSE /\ edited' = FALSE /\ torn' = FALSE
  /\ did' = NoCall /\ disagreed' = {}
  /\ UNCHANGED <<changes, saved>>

Init ==
  /\ \E s \in Starts : acl = FirstStart(s.backend, s.directory, s.files)
  /\ conn = [c \in Clients |-> Gone]
  /\ reloading = FALSE /\ changes = 0 /\ edited = FALSE /\ torn = FALSE
  /\ saved = FALSE /\ did = NoCall /\ disagreed = {}

Next ==
  \/ \E c \in Clients : \/ Connect(c) \/ Hello(c) \/ Disconnect(c)
                        \/ ldapResult(c) \/ azureResult(c)
  \/ \E c \in Clients, l \in Logins : Login(c, l)
  \/ \E c \in Clients, k \in Calls : Call(c, k)
  \/ \E k \in Calls, l \in {None, Read} : MasterCall(k, GrantOf(l))
  \/ \E f \in FileSets : EditFiles(f)
  \/ reloadConfig \/ Restart

Spec == Init /\ [][Next]_vars

-----------------------------------------------------------------------------
(***************************************************************************)
(* What the lists say, without the cache: the roles at each distance from  *)
(* a user, and the rules of the nearest that have one for a call.          *)
(***************************************************************************)
Store(a) == IF a.backend = "files" THEN importAclConfigFiles(a).db ELSE a.db

OwnRoles(a, s, n) ==
  CASE n = "" -> <<"masterBroker">>
    [] n \in DOMAIN s.users -> s.users[n].roles
    [] n # "" /\ n \notin DOMAIN s.users /\ n \in DOMAIN a.ldap -> a.ldap[n]
    [] n # "" /\ n \notin DOMAIN s.users \cup DOMAIN a.ldap /\ n \in DOMAIN a.azure -> a.azure[n]
    [] OTHER -> <<>>

SubRoles(s, rs) ==
  UNION {IF r \in DOMAIN s.roles THEN ToSet(s.roles[r].roles) ELSE {} : r \in rs}

WithSubRoles(s, rs) == rs \cup SubRoles(s, rs)
Within(s, rs, d) ==
  LET within[e \in 0..d] == IF e = 0 THEN rs ELSE WithSubRoles(s, within[e - 1]) IN within[d]

Depth == 4
Farther(s, rs) ==
  [d \in 0..Depth |-> IF d = 0 THEN rs ELSE Within(s, rs, d) \ Within(s, rs, d - 1)]

Hits(s, r, path, method) ==
  SelectSeq(IF r \in DOMAIN s.access THEN s.access[r] ELSE <<>>,
            LAMBDA x : isPathMethodMatch(x, path, method))

LevelsAt(s, rs, path, method) ==
  {fromShv2Access(Hits(s, r, path, method)[1].access, None).level :
     r \in {q \in rs : Hits(s, q, path, method) # <<>>}}

\* far are the roles at each distance.
RefLevels(s, far, path, method) ==
  LET at == {d \in 0..Depth : LevelsAt(s, far[d], path, method) # {}}
  IN  IF path = CurrentClientPath THEN {Write}
      ELSE IF at = {} THEN {None} ELSE LevelsAt(s, far[Min(at)], path, method)

\* The roles of the files that are not written as roles throw when they are read.
Readable(a, rs) == \A r \in rs : ~RoleThrows([a EXCEPT !.cache = EmptyCache], r)

Fresh == ~edited /\ ~torn

(***************************************************************************)
(* The level of every user for every call is the one the lists give: that  *)
(* of the first matching rule of the nearest of the roles the user has,    *)
(* directly or through other roles, whatever is in the cache, unless the   *)
(* files were edited or a change of rules failed midway after the cache    *)
(* was cleared (accessGrantForShvPath(), userFlattenRoles(), set...()).    *)
(***************************************************************************)
GrantFollowsStore ==
  Fresh =>
  \A s \in {Store(acl)} :
  \A n \in DOMAIN s.users \cup DOMAIN acl.ldap \cup DOMAIN acl.azure \cup {""} :
  \A own \in {ToSet(OwnRoles(acl, s, n))} :
    Readable(acl, Within(s, own, Depth)) =>
      \A far \in {Farther(s, own)}, k \in Calls :
        (n # "" \/ k.path # AppPath) =>
          accessGrantForShvPath(acl, n, k.path, k.method, n = "", NoGrant).v.level
            \in RefLevels(s, far, k.path, k.method)

\* The names nobody but a directory tells the broker.
LoginNames == {l.user : l \in Logins}
DirectoryNames(a) == (DOMAIN a.ldap \cup DOMAIN a.azure) \ LoginNames
ListedUsers(a) == {n \in Keys(a, "users") : IsUser(aclUser(a, n))}

GrantsAs(found, cached) ==
  found.ok => \A k \in Calls :
    GrantAmong(cached, k.path, k.method).v = GrantAmong(found, k.path, k.method).v
AnswersAs(u) ==
  /\ \A d \in Keys(u, "mounts") : mountPointForDevice(acl, d) = mountPointForDevice(u, d)
  /\ \A n \in Keys(u, "users") : user(acl, n).v = user(u, n).v
  /\ GrantsAs(flattenRole(u, "masterBroker"), flattenRole(acl, "masterBroker"))
  /\ \A n \in ListedUsers(u) \cup DirectoryNames(u) :
       GrantsAs(RolesOfUser(user(u, n), n), RolesOfUser(user(acl, n), n))

(***************************************************************************)
(* With its cache the manager answers as it would without: the mount point *)
(* of a device, a user of the lists, and every grant, that of the master   *)
(* broker included, which can be found without an error, whatever was      *)
(* asked, changed, saved and imported before (clearCache(), set...(),      *)
(* saveConfigFile(), userFlattenRoles()).                                  *)
(***************************************************************************)
CacheIsTransparent == Fresh => \A u \in {clearCache(acl)} : AnswersAs(u)

Logged(n, text, type, nonce) ==
  checkPassword(acl, [user |-> n, type |-> type,
                      password |-> [nonce |-> IF type = "SHA1" THEN nonce ELSE 0, text |-> text]],
                1).v

StandsFor(p, x) ==
  /\ p.password # NoText
  /\ p.password = IF p.format = "PLAIN" THEN x ELSE sha1Hex(x)

Texts == {l.password.text : l \in {m \in Logins : m.password.nonce = 0}}

(***************************************************************************)
(* A password opens the same way sent in plain or as a digest, whichever   *)
(* way it is stored, no other one does, and a digest of another nonce does *)
(* not (checkPassword()).                                                  *)
(***************************************************************************)
LoginsAgree ==
  ~edited =>
  \A s \in {Store(acl)} : \A n \in DOMAIN s.users, x \in Texts :
    /\ Logged(n, x, "PLAIN", 0) <=> StandsFor(s.users[n].password, x)
    /\ Logged(n, sha1Hex(x), "SHA1", 1) <=> StandsFor(s.users[n].password, x)
    /\ ~Logged(n, sha1Hex(x), "SHA1", 2)

(***************************************************************************)
(* The lists saved to the files and read again as files are the lists,     *)
(* unless rules were stored in part, when the older ones in the cache are  *)
(* saved (saveConfigFile() of the four nodes, the fromRpcValue()).         *)
(***************************************************************************)
SavedFilesReadBack ==
  (saved /\ acl.backend = "sqlite") => importAclConfigFiles(acl).db = acl.db

(***************************************************************************)
(* A user let in by a directory has the grants of the groups reported with *)
(* that login, unless another answer for the same name, even a refusal,    *)
(* has reported others: the first answer stays (setGroupForLdapUser(),     *)
(* setGroupForAzureUser()).                                                *)
(***************************************************************************)
DirectoryGroupsHold ==
  Fresh =>
  \A s \in {Store(acl)} : \A c \in Clients :
    (/\ conn[c].phase = "in" /\ conn[c].groups # <<>>
     /\ conn[c].user \notin disagreed \cup DOMAIN s.users
     /\ Readable(acl, Within(s, ToSet(conn[c].groups), Depth))) =>
       \A far \in {Farther(s, ToSet(conn[c].groups))}, k \in Calls :
         accessGrantForShvPath(acl, conn[c].user, k.path, k.method, FALSE, NoGrant).v.level
           \in RefLevels(s, far, k.path, k.method)

(***************************************************************************)
(* Whatever a call changes, in the lists or in the files, its caller had   *)
(* the level the method asks for by the lists as they were stored, or was  *)
(* given it by the master broker (onRpcFrameReceived(),                    *)
(* processRpcRequest(), metaMethod() of the nodes).                        *)
(***************************************************************************)
EffectIsGranted ==
  (did' # NoCall /\ did' # did /\ Fresh) =>
    \A need \in {metaMethods(did'.path)[did'.method]}, s \in {Store(acl)} :
      \/ did'.given >= need
      \/ did'.who = "" /\ did'.path = AppPath /\ need <= Write
      \/ \E l \in RefLevels(s, Farther(s, ToSet(OwnRoles(acl, s, did'.who))), did'.path, did'.method) :
            l >= need

Unhashed(x) == IF IsSha1(x) THEN x.hash ELSE x

(***************************************************************************)
(* After changePassword() the new password logs its user in and the old    *)
(* one does not, each given in plain or hashed, and nobody else's password *)
(* has changed; a new password of 40 characters is taken to be a hash.     *)
(***************************************************************************)
PasswordChangeTakesEffect ==
  (did' # did /\ did'.method = "changePassword") =>
    \A old \in {did'.params.l[1].s}, new \in {did'.params.l[2].s}, n \in {did'.who} :
      /\ IsSha1(new) \/ new.text \notin LongTexts =>
           /\ Logged(n, Unhashed(new), "PLAIN", 0)'
           /\ Unhashed(old) # Unhashed(new) => ~Logged(n, Unhashed(old), "PLAIN", 0)'
      /\ acl'.db = [acl.db EXCEPT !.users[n].password = acl'.db.users[n].password]

\* No call changes anything without the right to, and a password that is
\* changed is the new one from then on.
ChangesAreRightful == [][EffectIsGranted /\ PasswordChangeTakesEffect]_vars

TypeOK ==
  /\ acl.backend \in {"files", "sqlite"}
  /\ \A t \in Tables : acl.backend = "files" => acl.db[t] = <<>>
  /\ conn \in [Clients -> [phase : {"gone", "new", "ldap", "azure", "in", "refused"},
                          nonce : 0..MaxNonce, user : STRING, groups : Seq(STRING)]]
  /\ changes \in 0..MaxChanges
  /\ {reloading, edited, torn, saved} \subseteq BOOLEAN

\* Every grant is the one the lists, or the groups of a directory, give,
\* whatever is cached.
GrantsFollowTheLists == TypeOK /\ GrantFollowsStore /\ DirectoryGroupsHold
=============================================================================
