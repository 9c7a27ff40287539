-------------------------- MODULE BrokerAclProofs --------------------------
(***************************************************************************)
(* What the manager of the access control lists keeps in its cache is what *)
(* the files or the tables say, so that it answers as it would without.    *)
(***************************************************************************)
EXTENDS BrokerAcl, TLAPS

(***************************************************************************)
(* The manager as a record.                                                *)
(***************************************************************************)
Fields == {"backend", "directory", "files", "db", "cache", "azure", "ldap"}
CacheFields == Tables \cup {"flat", "files"}
IsManager(a) ==
  /\ DOMAIN a = Fields /\ DOMAIN a.cache = CacheFields /\ DOMAIN a.db = Tables

\* Everything but the cache, the files and the tables.
SameRest(a, b) ==
  b.backend = a.backend /\ b.directory = a.directory /\ b.azure = a.azure /\ b.ldap = a.ldap

\* One part of the cache has changed.
WithPart(a, p, x) == [a EXCEPT !.cache[p] = x]
WithFlat(a, x) == [a EXCEPT !.cache.flat = x]
WithFiles(a, x) == [a EXCEPT !.cache.files = x]

LEMMA CachePart ==
  ASSUME NEW a, IsManager(a), NEW p \in CacheFields, NEW x, NEW b, b = WithPart(a, p, x)
  PROVE  /\ IsManager(b) /\ SameRest(a, b) /\ b.files = a.files /\ b.db = a.db
         /\ b.cache[p] = x /\ \A q \in CacheFields \ {p} : b.cache[q] = a.cache[q]
  BY DEF WithPart, WithFlat, WithFiles, IsManager, SameRest, Fields, CacheFields

LEMMA CacheFiles ==
  ASSUME NEW a, IsManager(a), NEW x, NEW b, b = WithFiles(a, x)
  PROVE  /\ IsManager(b) /\ SameRest(a, b) /\ b.files = a.files /\ b.db = a.db
         /\ b.cache["files"] = x /\ \A q \in CacheFields \ {"files"} : b.cache[q] = a.cache[q]
  BY DEF WithPart, WithFlat, WithFiles, IsManager, SameRest, Fields, CacheFields

LEMMA CacheFlat ==
  ASSUME NEW a, IsManager(a), NEW x, NEW b, b = WithFlat(a, x)
  PROVE  /\ IsManager(b) /\ SameRest(a, b) /\ b.files = a.files /\ b.db = a.db
         /\ b.cache["flat"] = x /\ \A q \in CacheFields \ {"flat"} : b.cache[q] = a.cache[q]
  BY DEF WithPart, WithFlat, WithFiles, IsManager, SameRest, Fields, CacheFields

(***************************************************************************)
(* The lists as they are stored, in files f or in tables.                  *)
(***************************************************************************)
StoreOf(a, f) ==
  [backend |-> a.backend, files |-> IF a.backend = "files" THEN f ELSE <<>>, db |-> a.db,
   cache |-> EmptyCache]

\* The managers a and b read the same.
SameStore(a, b) ==
  /\ a.backend = b.backend
  /\ a.backend = "files" => \A tbl \in Tables : aclConfig(a, tbl) = aclConfig(b, tbl)
  /\ a.backend # "files" => a.db = b.db

LEMMA SameAnswers ==
  ASSUME NEW a, NEW b, SameStore(a, b)
  PROVE  /\ \A tbl \in Tables : Keys(a, tbl) = Keys(b, tbl)
         /\ \A n : aclMountDef(a, n) = aclMountDef(b, n) /\ aclUser(a, n) = aclUser(b, n)
         /\ \A n : aclRole(a, n) = aclRole(b, n) /\ RoleThrows(a, n) = RoleThrows(b, n)
         /\ \A n : aclAccessRoleRules(a, n) = aclAccessRoleRules(b, n)
<1>0. Tables = {"mounts", "users", "roles", "access"}
  BY DEF Tables
<1>1. CASE a.backend = "files"
  <2>1. \A tbl \in Tables : aclConfig(a, tbl) = aclConfig(b, tbl)
    BY <1>1 DEF SameStore
  <2>2. b.backend = "files"
    BY <1>1 DEF SameStore
  <2>3. /\ aclConfig(a, "mounts") = aclConfig(b, "mounts") /\ aclConfig(a, "users") = aclConfig(b, "users")
        /\ aclConfig(a, "roles") = aclConfig(b, "roles") /\ aclConfig(a, "access") = aclConfig(b, "access")
    BY <1>0, <2>1
  <2>4. \A n : filesRoleValue(a, n) = filesRoleValue(b, n)
    BY <2>3 DEF filesRoleValue
  <2> QED BY <1>1, <2>1, <2>2, <2>3, <2>4
       DEF Keys, filesKeys, aclMountDef, filesMountDef, aclUser, filesUser, aclRole, filesRole, RoleThrows,
           aclAccessRoleRules, filesAccessRoleRules
<1>2. CASE a.backend # "files"
  BY <1>2 DEF SameStore, Keys, sqlKeys, aclMountDef, sqlMountDef, aclUser, sqlUser, aclRole, sqlRole,
              RoleThrows, aclAccessRoleRules, sqlAccessRoleRules, Row
<1> QED BY <1>1, <1>2

LEMMA SameTable ==
  ASSUME NEW a, NEW b, SameStore(a, b)
  PROVE  RoleTable(a) = RoleTable(b)
<1>1. Keys(a, "roles") = Keys(b, "roles")
  BY SameAnswers DEF Tables
<1>2. \A r : aclRole(a, r) = aclRole(b, r) /\ RoleThrows(a, r) = RoleThrows(b, r)
  BY SameAnswers
<1> QED BY <1>1, <1>2, Zenon DEF RoleTable

(***************************************************************************)
(* What the cache has of the lists is what is stored.                      *)
(***************************************************************************)
Known(tbl, x) ==
  \/ tbl = "mounts" /\ IsMountDef(x)
  \/ tbl = "users" /\ IsUser(x)
  \/ tbl = "access" /\ x.loaded
InStore(st, tbl, n) ==
  CASE tbl = "mounts" -> aclMountDef(st, n)
    [] tbl = "users" -> aclUser(st, n)
    [] tbl = "access" -> [rules |-> aclAccessRoleRules(st, n), loaded |-> TRUE]
    [] OTHER -> NoRole

MountOf(st, d) == IF d \in Keys(st, "mounts") THEN aclMountDef(st, d) ELSE NoMountDef
UserOf(st, n) == IF n \in Keys(st, "users") THEN aclUser(st, n) ELSE NoUser
RulesOfRole(st, r) == IF r \in Keys(st, "access") THEN aclAccessRoleRules(st, r) ELSE <<>>
RolesOf(st, rs) == Collect(RoleTable(st), rs)

\* Files are there and are read before a list of names is made of them.
FilesAreThere(a) ==
  a.backend = "files" =>
    \A tbl \in Tables : /\ configFile(a.files, tbl) \in DOMAIN a.files
                        /\ DOMAIN a.cache[tbl] # {} => tbl \in DOMAIN a.cache.files

\* A list of names is complete, and what is known of one of them is so.
ListsAreRight(a, st, T) ==
  \A tbl \in T :
    /\ DOMAIN a.cache[tbl] # {} => DOMAIN a.cache[tbl] = Keys(st, tbl)
    /\ \A n \in DOMAIN a.cache[tbl] :
         Known(tbl, a.cache[tbl][n]) => a.cache[tbl][n] = InStore(st, tbl, n)

\* What the roles kept under a key are those of, if it is known: those of a name
\* somebody has logged in with may have been asked for before a directory knew it.
StandFor(a, st, key, rs) ==
  /\ \A n : key = UserKey(n) => rs = RolesOf(st, UserOf(st, n).roles).v
  /\ \A r : key = <<"role", r>> => rs = RolesOf(st, <<r>>).v
  /\ \A n : key = <<"ldap", n>> /\ n \notin LoginNames =>
       /\ n \in DOMAIN a.ldap \cup DOMAIN a.azure
       /\ n \in DOMAIN a.ldap /\ ~IsUser(UserOf(st, n)) => rs = RolesOf(st, a.ldap[n]).v
  /\ \A n : key = <<"azure", n>> /\ n \notin LoginNames =>
       /\ n \in DOMAIN a.ldap \cup DOMAIN a.azure
       /\ n \in DOMAIN a.azure \ DOMAIN a.ldap /\ ~IsUser(UserOf(st, n)) =>
            rs = RolesOf(st, a.azure[n]).v
FlatIsRight(a, st) ==
  \A key \in DOMAIN a.cache.flat : StandFor(a, st, key, a.cache.flat[key])

UsersAreUsers(a) == \A n \in DOMAIN a.db.users : IsUser(a.db.users[n])

\* The cache of a is that of a store with files f; T are the tables it is right for,
\* none of them after an edit of the files.
Sound(a, f, T) ==
  /\ IsManager(a) /\ T \subseteq Tables /\ (T # {} => "users" \in T)
  /\ FilesAreThere(a) /\ UsersAreUsers(a)
  /\ ListsAreRight(a, StoreOf(a, f), T)
  /\ T # {} => SameStore(a, StoreOf(a, f)) /\ FlatIsRight(a, StoreOf(a, f))

\* b is a after something was read.
Reads(a, b, f, T) ==
  SameRest(a, b) /\ b.files = a.files /\ b.db = a.db /\ Sound(b, f, T)

LEMMA ReadsStore ==
  ASSUME NEW a, NEW b, NEW f, NEW T, Reads(a, b, f, T)
  PROVE  StoreOf(b, f) = StoreOf(a, f)
  BY DEF Reads, SameRest, StoreOf

LEMMA ReadsAgain ==
  ASSUME NEW a, NEW b, NEW c, NEW f, NEW T, Reads(a, b, f, T), Reads(b, c, f, T)
  PROVE  Reads(a, c, f, T)
  BY DEF Reads, SameRest

LEMMA ReadsNothing ==
  ASSUME NEW a, NEW f, NEW T, Sound(a, f, T)
  PROVE  Reads(a, a, f, T)
  BY DEF Reads, SameRest

\* What is read of a store does not depend on the names of its roles, ...
LEMMA SameStand ==
  ASSUME NEW a, NEW b, SameRest(a, b), NEW st, NEW key, NEW rs, StandFor(a, st, key, rs)
  PROVE  StandFor(b, st, key, rs)
<1>1. a.ldap = b.ldap /\ a.azure = b.azure
  BY DEF SameRest
<1> QED BY <1>1 DEF StandFor

LEMMA LoadedReads ==
  ASSUME NEW a, NEW f, NEW T, Sound(a, f, T), NEW tbl \in Tables, NEW b, b = Loaded(a, tbl)
  PROVE  /\ Reads(a, b, f, T)
         /\ \A p \in CacheFields \ {"files"} : b.cache[p] = a.cache[p]
         /\ a.backend = "files" => tbl \in DOMAIN b.cache.files
<1>1. CASE a.backend # "files"
  <2>1. b = a
    BY <1>1 DEF Loaded
  <2> QED BY <1>1, <2>1, ReadsNothing
<1>2. CASE a.backend = "files"
  <2> DEFINE st == StoreOf(a, f)
  <2>1. "files" \in CacheFields /\ IsManager(a)
    BY DEF CacheFields, Sound
  <2>2. PICK x : x = Put(a.cache.files, tbl, aclConfig(a, tbl))
    OBVIOUS
  <2>3. b = WithFiles(a, x)
    BY <1>2, <2>2 DEF Loaded, WithFiles
  <2>4. /\ IsManager(b) /\ SameRest(a, b) /\ b.files = a.files /\ b.db = a.db
        /\ b.cache["files"] = x /\ \A q \in CacheFields \ {"files"} : b.cache[q] = a.cache[q]
    BY <2>1, <2>3, CacheFiles
  <2>5. /\ tbl \in DOMAIN x /\ x[tbl] = aclConfig(a, tbl)
        /\ \A t : t # tbl => (t \in DOMAIN x <=> t \in DOMAIN a.cache.files)
        /\ \A t \in DOMAIN a.cache.files : t # tbl => x[t] = a.cache.files[t]
        /\ \A t \in DOMAIN a.cache.files : t \in DOMAIN x
    BY <2>2 DEF Put
  <2>6. \A t \in Tables : aclConfig(b, t) = aclConfig(a, t)
    <3>1. aclConfig(b, tbl) = aclConfig(a, tbl)
      BY <2>4, <2>5 DEF aclConfig
    <3>2. ASSUME NEW t \in Tables, t # tbl PROVE aclConfig(b, t) = aclConfig(a, t)
      BY <2>4, <2>5, <3>2 DEF aclConfig, loadAclConfig
    <3> QED BY <3>1, <3>2
  <2>7. StoreOf(b, f) = st
    BY <2>4 DEF StoreOf, SameRest
  <2>8. T # {} => SameStore(b, st)
    BY <1>2, <2>4, <2>6 DEF Sound, SameStore, SameRest
  <2>9. \A q \in Tables \cup {"flat"} : b.cache[q] = a.cache[q]
    BY <2>4 DEF CacheFields, Tables
  <2>10. FilesAreThere(b)
    BY <1>2, <2>4, <2>5, <2>9 DEF Sound, FilesAreThere, SameRest
  <2>11. ListsAreRight(b, st, T)
    BY <2>9 DEF Sound, ListsAreRight
  <2>12. T # {} => FlatIsRight(b, st)
    <3>1. b.cache.flat = a.cache.flat
      BY <2>9
    <3> QED BY <2>4, <3>1, SameStand DEF Sound, FlatIsRight
  <2>13. Sound(b, f, T)
    BY <2>4, <2>7, <2>8, <2>10, <2>11, <2>12 DEF Sound, UsersAreUsers
  <2> QED BY <2>4, <2>5, <2>13 DEF Reads
<1> QED BY <1>1, <1>2

\* x may be put into the cache as the list tbl.
IsList(a, f, T, tbl, x) ==
  /\ a.backend = "files" => tbl \in DOMAIN a.cache.files
  /\ tbl \in T =>
       /\ DOMAIN x # {} => DOMAIN x = Keys(StoreOf(a, f), tbl)
       /\ \A n \in DOMAIN x : Known(tbl, x[n]) => x[n] = InStore(StoreOf(a, f), tbl, n)

\* A list that is right is put into the cache.
LEMMA TableReads ==
  ASSUME NEW a, NEW f, NEW T, Sound(a, f, T), NEW tbl \in Tables, NEW x,
         IsList(a, f, T, tbl, x), NEW b, b = WithPart(a, tbl, x)
  PROVE  /\ Reads(a, b, f, T) /\ b.cache[tbl] = x
         /\ \A p \in CacheFields \ {tbl} : b.cache[p] = a.cache[p]
<1> DEFINE st == StoreOf(a, f)
<1>1. tbl \in CacheFields /\ IsManager(a)
  BY DEF CacheFields, Sound
<1>2. /\ IsManager(b) /\ SameRest(a, b) /\ b.files = a.files /\ b.db = a.db
      /\ b.cache[tbl] = x /\ \A q \in CacheFields \ {tbl} : b.cache[q] = a.cache[q]
  BY <1>1, CachePart
<1>3. b.cache.files = a.cache.files /\ b.cache.flat = a.cache.flat
  BY <1>2 DEF CacheFields, Tables
<1>4. StoreOf(b, f) = st
  BY <1>2 DEF StoreOf, SameRest
<1>5. T # {} => SameStore(b, st)
  BY <1>2, <1>3 DEF Sound, SameStore, SameRest, aclConfig, loadAclConfig
<1>6. \A q \in Tables \ {tbl} : b.cache[q] = a.cache[q]
  BY <1>2 DEF CacheFields
<1>7. FilesAreThere(b)
  BY <1>2, <1>3, <1>6 DEF Sound, FilesAreThere, SameRest, IsList
<1>8. ListsAreRight(b, st, T)
  BY <1>2, <1>6 DEF Sound, ListsAreRight, IsList
<1>9. T # {} => FlatIsRight(b, st)
  BY <1>2, <1>3, SameStand DEF Sound, FlatIsRight
<1>10. Sound(b, f, T)
  BY <1>2, <1>4, <1>5, <1>7, <1>8, <1>9 DEF Sound, UsersAreUsers
<1> QED BY <1>2, <1>10 DEF Reads

\* Roles that are right are put into the cache.
LEMMA FlatReads ==
  ASSUME NEW a, NEW f, NEW T, Sound(a, f, T), NEW key, NEW rs,
         T # {} => StandFor(a, StoreOf(a, f), key, rs),
         NEW b, b = WithFlat(a, Put(a.cache.flat, key, rs))
  PROVE  /\ Reads(a, b, f, T) /\ key \in DOMAIN b.cache.flat /\ b.cache.flat[key] = rs
         /\ \A k \in DOMAIN a.cache.flat : k \in DOMAIN b.cache.flat
         /\ \A p \in CacheFields \ {"flat"} : b.cache[p] = a.cache[p]
<1> DEFINE st == StoreOf(a, f)
<1>1. IsManager(a)
  BY DEF Sound
<1>2. PICK x : x = Put(a.cache.flat, key, rs)
  OBVIOUS
<1>3. b = WithFlat(a, x)
  BY <1>2
<1>4. /\ IsManager(b) /\ SameRest(a, b) /\ b.files = a.files /\ b.db = a.db
      /\ b.cache["flat"] = x /\ \A q \in CacheFields \ {"flat"} : b.cache[q] = a.cache[q]
  BY <1>1, <1>3, CacheFlat
<1>5. /\ key \in DOMAIN x /\ x[key] = rs
      /\ \A k \in DOMAIN a.cache.flat : k \in DOMAIN x
      /\ \A k \in DOMAIN x : k = key \/ (k \in DOMAIN a.cache.flat /\ x[k] = a.cache.flat[k])
  BY <1>2 DEF Put
<1>6. b.cache.files = a.cache.files /\ \A q \in Tables : b.cache[q] = a.cache[q]
  BY <1>4 DEF CacheFields, Tables
<1>7. StoreOf(b, f) = st
  BY <1>4 DEF StoreOf, SameRest
<1>8. T # {} => SameStore(b, st)
  BY <1>4, <1>6 DEF Sound, SameStore, SameRest, aclConfig, loadAclConfig
<1>9. FilesAreThere(b)
  BY <1>4, <1>6 DEF Sound, FilesAreThere, SameRest
<1>10. ListsAreRight(b, st, T)
  BY <1>6 DEF Sound, ListsAreRight
<1>11. T # {} => FlatIsRight(b, st)
  <2> SUFFICES ASSUME T # {}, NEW k \in DOMAIN b.cache.flat PROVE StandFor(b, st, k, b.cache.flat[k])
    BY DEF FlatIsRight
  <2>1. StandFor(a, st, k, b.cache.flat[k])
    BY <1>4, <1>5 DEF Sound, FlatIsRight
  <2> QED BY <1>4, <2>1, SameStand
<1>12. Sound(b, f, T)
  BY <1>4, <1>7, <1>8, <1>9, <1>10, <1>11 DEF Sound, UsersAreUsers
<1> QED BY <1>4, <1>5, <1>12 DEF Reads

\* Names are listed: mountDeviceIds(), users(), roles(), accessRoles().
LEMMA ListedReads ==
  ASSUME NEW a, NEW f, NEW T, Sound(a, f, T), NEW tbl \in Tables, NEW unset, ~Known(tbl, unset),
         NEW b, b = Listed(a, tbl, unset)
  PROVE  /\ Reads(a, b, f, T)
         /\ \A p \in CacheFields \ {"files", tbl} : b.cache[p] = a.cache[p]
         /\ a.backend = "files" => tbl \in DOMAIN b.cache.files
         /\ tbl \in T => DOMAIN b.cache[tbl] = Keys(StoreOf(a, f), tbl)
<1> DEFINE st == StoreOf(a, f)
<1>1. CASE DOMAIN a.cache[tbl] # {}
  <2>1. b = a
    BY <1>1 DEF Listed
  <2>2. Reads(a, b, f, T)
    BY <2>1, ReadsNothing
  <2> QED BY <1>1, <2>1, <2>2 DEF Sound, FilesAreThere, ListsAreRight
<1>2. CASE ~(DOMAIN a.cache[tbl] # {})
  <2>1. PICK c : c = Loaded(a, tbl)
    OBVIOUS
  <2>2. PICK x : x = [n \in Keys(a, tbl) |-> unset]
    OBVIOUS
  <2>3. b = WithPart(c, tbl, x)
    BY <1>2, <2>1, <2>2 DEF Listed, WithPart
  <2>4. /\ Reads(a, c, f, T)
        /\ \A p \in CacheFields \ {"files"} : c.cache[p] = a.cache[p]
        /\ a.backend = "files" => tbl \in DOMAIN c.cache.files
    BY <2>1, LoadedReads
  <2>5. StoreOf(c, f) = st /\ Sound(c, f, T) /\ c.backend = a.backend
    BY <2>4, ReadsStore DEF Reads, SameRest
  <2>6. tbl \in T => DOMAIN x = Keys(st, tbl) /\ \A n \in DOMAIN x : ~Known(tbl, x[n])
    BY <2>2, SameAnswers DEF Sound
  <2>7. IsList(c, f, T, tbl, x)
    BY <2>4, <2>5, <2>6 DEF IsList
  <2>8. /\ Reads(c, b, f, T) /\ b.cache[tbl] = x
        /\ \A p \in CacheFields \ {tbl} : b.cache[p] = c.cache[p]
    BY <2>3, <2>5, <2>7, TableReads
  <2>9. Reads(a, b, f, T)
    BY <2>4, <2>8, ReadsAgain
  <2>10. b.cache.files = c.cache.files
    BY <2>8 DEF CacheFields, Tables
  <2> QED BY <2>4, <2>6, <2>8, <2>9, <2>10
<1> QED BY <1>1, <1>2

\* One name of a list is read: Cache of cached_mountDef(), cached_user() and so on.
LEMMA EntryReads ==
  ASSUME NEW a, NEW f, NEW T, Sound(a, f, T), NEW tbl \in Tables, NEW n, NEW default, NEW fresh,
         a.backend = "files" => tbl \in DOMAIN a.cache.files,
         tbl \in T /\ Known(tbl, fresh) => fresh = InStore(StoreOf(a, f), tbl, n),
         NEW e, e = Entry(a, tbl, n, default, fresh)
  PROVE  /\ Reads(a, e.a, f, T)
         /\ e.v = IF n \in DOMAIN a.cache[tbl] THEN fresh ELSE default
         /\ \A p \in CacheFields \ {tbl} : e.a.cache[p] = a.cache[p]
         /\ DOMAIN e.a.cache[tbl] = DOMAIN a.cache[tbl]
<1> DEFINE st == StoreOf(a, f)
<1>1. CASE n \notin DOMAIN a.cache[tbl]
  <2>1. e.a = a /\ e.v = default
    BY <1>1 DEF Entry
  <2> QED BY <1>1, <2>1, ReadsNothing
<1>2. CASE n \in DOMAIN a.cache[tbl]
  <2>1. PICK x : x = [a.cache[tbl] EXCEPT ![n] = fresh]
    OBVIOUS
  <2>2. PICK b : b = WithPart(a, tbl, x)
    OBVIOUS
  <2>3. e.a = b /\ e.v = fresh
    BY <1>2, <2>1, <2>2 DEF Entry, WithPart
  <2>4. DOMAIN x = DOMAIN a.cache[tbl] /\ x[n] = fresh
        /\ \A m \in DOMAIN x : m # n => x[m] = a.cache[tbl][m]
    BY <1>2, <2>1
  <2>5. IsList(a, f, T, tbl, x)
    BY <2>4 DEF IsList, Sound, ListsAreRight
  <2>6. /\ Reads(a, b, f, T) /\ b.cache[tbl] = x
        /\ \A p \in CacheFields \ {tbl} : b.cache[p] = a.cache[p]
    BY <2>2, <2>5, TableReads
  <2> QED BY <1>2, <2>3, <2>4, <2>6
<1> QED BY <1>1, <1>2

LEMMA NameIsRead ==
  ASSUME NEW a, NEW f, NEW T, Sound(a, f, T), NEW tbl \in Tables, NEW unset, ~Known(tbl, unset),
         NEW n, NEW b, b = Listed(a, tbl, unset), NEW x,
         x = IF n \in DOMAIN b.cache[tbl] /\ Known(tbl, b.cache[tbl][n])
             THEN b.cache[tbl][n] ELSE InStore(b, tbl, n),
         NEW e, e = Entry(b, tbl, n, unset, x)
  PROVE  /\ Reads(a, e.a, f, T) /\ e.a.cache.flat = a.cache.flat
         /\ tbl \in T => e.v = IF n \in Keys(StoreOf(a, f), tbl)
                               THEN InStore(StoreOf(a, f), tbl, n) ELSE unset
<1> DEFINE st == StoreOf(a, f)
<1>1. /\ Reads(a, b, f, T)
      /\ \A p \in CacheFields \ {"files", tbl} : b.cache[p] = a.cache[p]
      /\ a.backend = "files" => tbl \in DOMAIN b.cache.files
      /\ tbl \in T => DOMAIN b.cache[tbl] = Keys(st, tbl)
  BY ListedReads
<1>2. StoreOf(b, f) = st /\ Sound(b, f, T) /\ b.backend = a.backend
  BY <1>1, ReadsStore DEF Reads, SameRest
<1>3. tbl \in T => x = InStore(st, tbl, n)
  <2> SUFFICES ASSUME tbl \in T PROVE x = InStore(st, tbl, n)
    OBVIOUS
  <2>1. SameStore(b, st)
    BY <1>2 DEF Sound
  <2>2. InStore(b, tbl, n) = InStore(st, tbl, n)
    BY <2>1, SameAnswers, Zenon DEF InStore
  <2>3. n \in DOMAIN b.cache[tbl] /\ Known(tbl, b.cache[tbl][n]) => b.cache[tbl][n] = InStore(st, tbl, n)
    BY <1>2 DEF Sound, ListsAreRight
  <2> QED BY <2>2, <2>3
<1>4. tbl \in T /\ Known(tbl, x) => x = InStore(StoreOf(b, f), tbl, n)
  BY <1>2, <1>3
<1>5. /\ Reads(b, e.a, f, T)
      /\ e.v = IF n \in DOMAIN b.cache[tbl] THEN x ELSE unset
      /\ \A p \in CacheFields \ {tbl} : e.a.cache[p] = b.cache[p]
  BY <1>1, <1>2, <1>4, EntryReads
<1>6. Reads(a, e.a, f, T)
  BY <1>1, <1>5, ReadsAgain
<1>7. "flat" \in CacheFields \ {"files", tbl}
  BY DEF CacheFields, Tables
<1> QED BY <1>1, <1>3, <1>5, <1>6, <1>7

LEMMA MountIsRead ==
  ASSUME NEW a, NEW f, NEW T, Sound(a, f, T), NEW d, NEW e, e = mountDef(a, d)
  PROVE  /\ Reads(a, e.a, f, T)
         /\ "mounts" \in T => e.v = MountOf(StoreOf(a, f), d)
<1>1. "mounts" \in Tables /\ ~Known("mounts", NoMountDef)
  BY DEF Tables, Known, NoMountDef, IsMountDef
<1>2. PICK b : b = Listed(a, "mounts", NoMountDef)
  OBVIOUS
<1>3. PICK x : x = IF d \in DOMAIN b.cache["mounts"] /\ Known("mounts", b.cache["mounts"][d])
                   THEN b.cache["mounts"][d] ELSE InStore(b, "mounts", d)
  OBVIOUS
<1>4. e = Entry(b, "mounts", d, NoMountDef, x)
  BY <1>2, <1>3 DEF mountDef, MountDefIn, mountDeviceIds, Known, InStore
<1>5. /\ Reads(a, e.a, f, T)
      /\ "mounts" \in T => e.v = IF d \in Keys(StoreOf(a, f), "mounts")
                                 THEN InStore(StoreOf(a, f), "mounts", d) ELSE NoMountDef
  BY <1>1, <1>2, <1>3, <1>4, NameIsRead
<1> QED BY <1>5 DEF MountOf, InStore

LEMMA UserIsRead ==
  ASSUME NEW a, NEW f, NEW T, Sound(a, f, T), NEW n, NEW e, e = user(a, n)
  PROVE  /\ Reads(a, e.a, f, T) /\ e.a.cache.flat = a.cache.flat
         /\ "users" \in T => e.v = UserOf(StoreOf(a, f), n)
<1>1. "users" \in Tables /\ ~Known("users", NoUser)
  BY DEF Tables, Known, NoUser, NoPassword, IsUser
<1>2. PICK b : b = Listed(a, "users", NoUser)
  OBVIOUS
<1>3. PICK x : x = IF n \in DOMAIN b.cache["users"] /\ Known("users", b.cache["users"][n])
                   THEN b.cache["users"][n] ELSE InStore(b, "users", n)
  OBVIOUS
<1>4. e = Entry(b, "users", n, NoUser, x)
  BY <1>2, <1>3 DEF user, UserIn, users, Known, InStore
<1>5. /\ Reads(a, e.a, f, T) /\ e.a.cache.flat = a.cache.flat
      /\ "users" \in T => e.v = IF n \in Keys(StoreOf(a, f), "users")
                                THEN InStore(StoreOf(a, f), "users", n) ELSE NoUser
  BY <1>1, <1>2, <1>3, <1>4, NameIsRead
<1> QED BY <1>5 DEF UserOf, InStore

LEMMA RulesAreRead ==
  ASSUME NEW a, NEW f, NEW T, Sound(a, f, T), NEW n, NEW e, e = accessRoleRules(a, n)
  PROVE  /\ Reads(a, e.a, f, T)
         /\ "access" \in T => e.v = RulesOfRole(StoreOf(a, f), n)
<1>1. "access" \in Tables /\ ~Known("access", NotLoaded)
  BY DEF Tables, Known, NotLoaded
<1>2. PICK b : b = Listed(a, "access", NotLoaded)
  OBVIOUS
<1>3. PICK x : x = IF n \in DOMAIN b.cache["access"] /\ Known("access", b.cache["access"][n])
                   THEN b.cache["access"][n] ELSE InStore(b, "access", n)
  OBVIOUS
<1>4. PICK r : r = Entry(b, "access", n, NotLoaded, x)
  OBVIOUS
<1>5. r = RulesIn(b, n)
  BY <1>3, <1>4 DEF RulesIn, Known, InStore
<1>6. e.a = r.a /\ e.v = r.v.rules
  BY <1>2, <1>5 DEF accessRoleRules, RulesOf, accessRoles
<1>7. /\ Reads(a, r.a, f, T)
      /\ "access" \in T => r.v = IF n \in Keys(StoreOf(a, f), "access")
                                 THEN InStore(StoreOf(a, f), "access", n) ELSE NotLoaded
  BY <1>1, <1>2, <1>3, <1>4, NameIsRead
<1> QED BY <1>6, <1>7 DEF RulesOfRole, InStore, NotLoaded

LEMMA UnsetIsUnknown ==
  /\ Tables = {"mounts", "users", "roles", "access"}
  /\ ~Known("mounts", NoMountDef) /\ ~Known("users", NoUser) /\ ~Known("roles", NoRole)
  /\ ~Known("access", NotLoaded)
  BY DEF Tables, Known, NoMountDef, NoUser, NoPassword, NotLoaded, IsUser, IsMountDef

LEMMA NamesAreRead ==
  ASSUME NEW a, NEW f, NEW T, Sound(a, f, T)
  PROVE  /\ Reads(a, mountDeviceIds(a), f, T) /\ Reads(a, users(a), f, T)
         /\ Reads(a, roles(a), f, T) /\ Reads(a, accessRoles(a), f, T)
  BY UnsetIsUnknown, ListedReads DEF mountDeviceIds, users, roles, accessRoles

LEMMA RoleIsRead ==
  ASSUME NEW a, NEW f, NEW T, Sound(a, f, T), NEW r
  PROVE  Reads(a, role(a, r).a, f, T)
  BY NamesAreRead DEF role, RoleIn

(***************************************************************************)
(* The roles collected for a user.                                         *)
(***************************************************************************)
LEMMA FlattenReads ==
  ASSUME NEW a, NEW f, NEW T, Sound(a, f, T), NEW key, NEW rs,
         T # {} => StandFor(a, StoreOf(a, f), key, RolesOf(StoreOf(a, f), rs).v),
         NEW e, e = userFlattenRoles(a, key, rs)
  PROVE  /\ Reads(a, e.a, f, T) /\ key \in DOMAIN e.a.cache.flat
         /\ \A k \in DOMAIN a.cache.flat : k \in DOMAIN e.a.cache.flat
         /\ T # {} => /\ StandFor(a, StoreOf(a, f), key, e.v)
                      /\ RolesOf(StoreOf(a, f), rs).ok => e.ok
                      /\ DOMAIN a.cache.flat = {} /\ e.ok => RolesOf(StoreOf(a, f), rs).ok
<1> DEFINE st == StoreOf(a, f)
<1>1. CASE key \in DOMAIN a.cache.flat
  <2>1. e.a = a /\ e.v = a.cache.flat[key] /\ e.ok
    BY <1>1 DEF userFlattenRoles
  <2>2. T # {} => StandFor(a, st, key, e.v)
    BY <1>1, <2>1 DEF Sound, FlatIsRight
  <2> QED BY <1>1, <2>1, <2>2, ReadsNothing
<1>2. CASE key \notin DOMAIN a.cache.flat
  <2>1. PICK c : c = Collect(RoleTable(a), rs)
    OBVIOUS
  <2>2. PICK b : b = IF c.v = <<>> THEN a ELSE Loaded(a, "roles")
    OBVIOUS
  <2>3. e = [a |-> WithFlat(b, Put(b.cache.flat, key, c.v)), v |-> c.v, ok |-> c.ok]
    BY <1>2, <2>1, <2>2 DEF userFlattenRoles, Flattened, WithFlat
  <2>4. T # {} => c = RolesOf(st, rs)
    BY <2>1, SameTable DEF Sound, RolesOf
  <2>5. Reads(a, b, f, T) /\ b.cache.flat = a.cache.flat
    <3>1. CASE c.v = <<>>
      BY <2>2, <3>1, ReadsNothing
    <3>2. CASE c.v # <<>>
      BY <2>2, <3>2, LoadedReads DEF Tables, CacheFields
    <3> QED BY <3>1, <3>2
  <2>6. StoreOf(b, f) = st /\ Sound(b, f, T) /\ SameRest(a, b)
    BY <2>5, ReadsStore DEF Reads
  <2>7. T # {} => StandFor(b, StoreOf(b, f), key, c.v)
    BY <2>4, <2>6, SameStand
  <2>8. /\ Reads(b, e.a, f, T) /\ key \in DOMAIN e.a.cache.flat
        /\ \A k \in DOMAIN b.cache.flat : k \in DOMAIN e.a.cache.flat
    BY <2>3, <2>6, <2>7, FlatReads
  <2>9. Reads(a, e.a, f, T)
    BY <2>5, <2>8, ReadsAgain
  <2>10. T # {} => /\ StandFor(a, st, key, e.v) /\ (RolesOf(st, rs).ok <=> e.ok)
    BY <2>3, <2>4
  <2> QED BY <2>5, <2>8, <2>9, <2>10
<1> QED BY <1>1, <1>2

NoRoles == [v |-> <<>>, ok |-> TRUE]
\* The roles that decide what a user is granted.
RolesGranted(a, st, n) ==
  CASE IsUser(UserOf(st, n)) -> RolesOf(st, UserOf(st, n).roles)
    [] ~IsUser(UserOf(st, n)) /\ n \in DOMAIN a.ldap -> RolesOf(st, a.ldap[n])
    [] ~IsUser(UserOf(st, n)) /\ n \notin DOMAIN a.ldap /\ n \in DOMAIN a.azure ->
         RolesOf(st, a.azure[n])
    [] OTHER -> NoRoles

\* Roles have been collected for the user n of a directory.
HasRoles(a, st, n) ==
  ~IsUser(UserOf(st, n)) =>
    /\ n \in DOMAIN a.ldap => <<"ldap", n>> \in DOMAIN a.cache.flat
    /\ n \in DOMAIN a.azure \ DOMAIN a.ldap => <<"azure", n>> \in DOMAIN a.cache.flat

LEMMA UserRolesAreRead ==
  ASSUME NEW a, NEW f, NEW T, Sound(a, f, T), NEW n,
         NEW rs, T # {} => rs = UserOf(StoreOf(a, f), n).roles,
         NEW e, e = userFlattenRoles(a, UserKey(n), rs)
  PROVE  /\ Reads(a, e.a, f, T)
         /\ \A k \in DOMAIN a.cache.flat : k \in DOMAIN e.a.cache.flat
         /\ T # {} => /\ e.v = RolesOf(StoreOf(a, f), rs).v
                      /\ RolesOf(StoreOf(a, f), rs).ok => e.ok
                      /\ DOMAIN a.cache.flat = {} /\ e.ok => RolesOf(StoreOf(a, f), rs).ok
<1> DEFINE st == StoreOf(a, f)
<1>1. T # {} => StandFor(a, st, UserKey(n), RolesOf(st, rs).v)
  BY DEF StandFor, UserKey
<1>2. /\ Reads(a, e.a, f, T)
      /\ \A k \in DOMAIN a.cache.flat : k \in DOMAIN e.a.cache.flat
      /\ T # {} => /\ StandFor(a, st, UserKey(n), e.v)
                   /\ RolesOf(st, rs).ok => e.ok
                   /\ DOMAIN a.cache.flat = {} /\ e.ok => RolesOf(st, rs).ok
  BY <1>1, FlattenReads
<1>3. T # {} => e.v = RolesOf(st, rs).v
  BY <1>2 DEF StandFor
<1> QED BY <1>2, <1>3

LEMMA RoleRolesAreRead ==
  ASSUME NEW a, NEW f, NEW T, Sound(a, f, T), NEW r, NEW e, e = flattenRole(a, r)
  PROVE  /\ Reads(a, e.a, f, T)
         /\ T # {} => /\ e.v = RolesOf(StoreOf(a, f), <<r>>).v
                      /\ RolesOf(StoreOf(a, f), <<r>>).ok => e.ok
                      /\ DOMAIN a.cache.flat = {} /\ e.ok => RolesOf(StoreOf(a, f), <<r>>).ok
<1> DEFINE st == StoreOf(a, f)
<1>1. PICK key : key = <<"role", r>>
  OBVIOUS
<1>2. T # {} => StandFor(a, st, key, RolesOf(st, <<r>>).v)
  BY <1>1 DEF StandFor, UserKey
<1>3. e = userFlattenRoles(a, key, <<r>>)
  BY <1>1 DEF flattenRole
<1>4. /\ Reads(a, e.a, f, T)
      /\ T # {} => /\ StandFor(a, st, key, e.v)
                   /\ RolesOf(st, <<r>>).ok => e.ok
                   /\ DOMAIN a.cache.flat = {} /\ e.ok => RolesOf(st, <<r>>).ok
  BY <1>2, <1>3, FlattenReads
<1>5. T # {} => e.v = RolesOf(st, <<r>>).v
  BY <1>1, <1>4 DEF StandFor
<1> QED BY <1>4, <1>5

\* The key and the groups of a user only a directory knows.
DirectoryKey(a, n) == IF n \in DOMAIN a.ldap THEN <<"ldap", n>> ELSE <<"azure", n>>
DirectoryGroups(a, n) == IF n \in DOMAIN a.ldap THEN a.ldap[n] ELSE a.azure[n]

LEMMA DirectoryRolesAreRead ==
  ASSUME NEW a, NEW f, NEW T, Sound(a, f, T), NEW n \in DOMAIN a.ldap \cup DOMAIN a.azure,
         T # {} => ~IsUser(UserOf(StoreOf(a, f), n)),
         NEW e, e = userFlattenRoles(a, DirectoryKey(a, n), DirectoryGroups(a, n))
  PROVE  /\ Reads(a, e.a, f, T) /\ DirectoryKey(a, n) \in DOMAIN e.a.cache.flat
         /\ T # {} =>
              /\ n \notin LoginNames => e.v = RolesOf(StoreOf(a, f), DirectoryGroups(a, n)).v
              /\ RolesOf(StoreOf(a, f), DirectoryGroups(a, n)).ok => e.ok
              /\ DOMAIN a.cache.flat = {} /\ e.ok => RolesOf(StoreOf(a, f), DirectoryGroups(a, n)).ok
<1> DEFINE st == StoreOf(a, f)
<1>1. PICK key : key = DirectoryKey(a, n)
  OBVIOUS
<1>2. PICK rs : rs = DirectoryGroups(a, n)
  OBVIOUS
<1>3. T # {} => StandFor(a, st, key, RolesOf(st, rs).v)
  BY <1>1, <1>2 DEF StandFor, UserKey, DirectoryKey, DirectoryGroups
<1>4. /\ Reads(a, e.a, f, T) /\ key \in DOMAIN e.a.cache.flat
      /\ T # {} => /\ StandFor(a, st, key, e.v)
                   /\ RolesOf(st, rs).ok => e.ok
                   /\ DOMAIN a.cache.flat = {} /\ e.ok => RolesOf(st, rs).ok
  BY <1>1, <1>2, <1>3, FlattenReads
<1>5. T # {} /\ n \notin LoginNames => e.v = RolesOf(st, rs).v
  BY <1>1, <1>2, <1>4 DEF StandFor, DirectoryKey, DirectoryGroups
<1> QED BY <1>1, <1>2, <1>4, <1>5

LEMMA GrantRolesAreRead ==
  ASSUME NEW a, NEW f, NEW T, Sound(a, f, T), NEW n, NEW e, e = RolesOfUser(user(a, n), n),
         NEW R, R = RolesGranted(a, StoreOf(a, f), n)
  PROVE  /\ Reads(a, e.a, f, T)
         /\ T # {} => /\ R.ok => e.ok
                      /\ DOMAIN a.cache.flat = {} /\ e.ok => R.ok
                      /\ n \notin LoginNames \/ IsUser(UserOf(StoreOf(a, f), n)) => e.v = R.v
                      /\ HasRoles(e.a, StoreOf(a, f), n)
<1> DEFINE st == StoreOf(a, f)
<1>1. PICK u : u = user(a, n)
  OBVIOUS
<1>2. /\ Reads(a, u.a, f, T) /\ u.a.cache.flat = a.cache.flat
      /\ T # {} => u.v = UserOf(st, n)
  BY <1>1, UserIsRead DEF Sound
<1>3. StoreOf(u.a, f) = st /\ Sound(u.a, f, T) /\ u.a.ldap = a.ldap /\ u.a.azure = a.azure
  BY <1>2, ReadsStore DEF Reads, SameRest
<1>4. e = RolesFor(u, KeptRoles(u, n))
  BY <1>1 DEF RolesOfUser
<1>5. CASE IsUser(u.v)
  <2>1. e = userFlattenRoles(u.a, UserKey(n), u.v.roles)
    BY <1>4, <1>5 DEF RolesFor, KeptRoles
  <2>2. T # {} => R = RolesOf(st, u.v.roles) /\ IsUser(UserOf(st, n))
    BY <1>2, <1>5 DEF RolesGranted
  <2>3. /\ Reads(u.a, e.a, f, T)
        /\ T # {} => /\ e.v = RolesOf(st, u.v.roles).v
                     /\ RolesOf(st, u.v.roles).ok => e.ok
                     /\ DOMAIN u.a.cache.flat = {} /\ e.ok => RolesOf(st, u.v.roles).ok
    BY <1>2, <1>3, <2>1, UserRolesAreRead
  <2>4. Reads(a, e.a, f, T)
    BY <1>2, <2>3, ReadsAgain
  <2> QED BY <1>2, <2>2, <2>3, <2>4 DEF HasRoles
<1>6. CASE ~IsUser(u.v) /\ n \in DOMAIN a.ldap \cup DOMAIN a.azure
  <2>1. e = userFlattenRoles(u.a, DirectoryKey(u.a, n), DirectoryGroups(u.a, n))
    BY <1>3, <1>4, <1>6 DEF RolesFor, KeptRoles, DirectoryKey, DirectoryGroups
  <2>2. DirectoryGroups(u.a, n) = DirectoryGroups(a, n) /\ DirectoryKey(u.a, n) = DirectoryKey(a, n)
    BY <1>3 DEF DirectoryGroups, DirectoryKey
  <2>3. T # {} => R = RolesOf(st, DirectoryGroups(a, n)) /\ ~IsUser(UserOf(st, n))
    BY <1>2, <1>6 DEF RolesGranted, DirectoryGroups
  <2>4. PICK rs : rs = DirectoryGroups(a, n)
    OBVIOUS
  <2>5. /\ Reads(u.a, e.a, f, T) /\ DirectoryKey(a, n) \in DOMAIN e.a.cache.flat
        /\ T # {} => /\ n \notin LoginNames => e.v = RolesOf(st, rs).v
                     /\ RolesOf(st, rs).ok => e.ok
                     /\ DOMAIN u.a.cache.flat = {} /\ e.ok => RolesOf(st, rs).ok
    BY <1>3, <1>6, <2>1, <2>2, <2>3, <2>4, DirectoryRolesAreRead
  <2>6. Reads(a, e.a, f, T)
    BY <1>2, <2>5, ReadsAgain
  <2>7. HasRoles(e.a, st, n)
    BY <2>5, <2>6 DEF HasRoles, DirectoryKey, Reads, SameRest
  <2> QED BY <1>2, <2>3, <2>4, <2>5, <2>6, <2>7
<1>7. CASE ~IsUser(u.v) /\ n \notin DOMAIN a.ldap \cup DOMAIN a.azure
  <2>1. e = [a |-> u.a, v |-> <<>>, ok |-> TRUE]
    BY <1>3, <1>4, <1>7 DEF RolesFor, KeptRoles
  <2>2. T # {} => R = NoRoles
    BY <1>2, <1>7 DEF RolesGranted
  <2>3. HasRoles(e.a, st, n)
    BY <1>3, <1>7, <2>1 DEF HasRoles
  <2> QED BY <1>2, <2>1, <2>2, <2>3 DEF NoRoles
<1> QED BY <1>5, <1>6, <1>7

(***************************************************************************)
(* The rules that decide on a grant.                                       *)
(***************************************************************************)
LEMMA RulesAreStored ==
  ASSUME NEW b, NEW f, NEW T, Sound(b, f, T), "access" \in T, NEW r
  PROVE  RulesIn(b, r).v = IF r \in DOMAIN b.cache.access
                           THEN InStore(StoreOf(b, f), "access", r) ELSE NotLoaded
<1>1. PICK x : x = IF r \in DOMAIN b.cache.access /\ b.cache.access[r].loaded
                   THEN b.cache.access[r] ELSE [rules |-> aclAccessRoleRules(b, r), loaded |-> TRUE]
  OBVIOUS
<1>2. x = InStore(StoreOf(b, f), "access", r)
  <2>1. aclAccessRoleRules(b, r) = aclAccessRoleRules(StoreOf(b, f), r)
    BY SameAnswers DEF Sound
  <2>2. r \in DOMAIN b.cache["access"] /\ b.cache["access"][r].loaded =>
          b.cache["access"][r] = InStore(StoreOf(b, f), "access", r)
    BY DEF Sound, ListsAreRight, Known
  <2> QED BY <1>1, <2>1, <2>2 DEF InStore
<1>3. RulesIn(b, r) = Entry(b, "access", r, NotLoaded, x)
  BY <1>1 DEF RulesIn
<1> QED BY <1>2, <1>3 DEF Entry

LEMMA WithRulesReads ==
  ASSUME NEW b, NEW f, NEW T, Sound(b, f, T), b.backend = "files" => "access" \in DOMAIN b.cache.files,
         NEW rs
  PROVE  Reads(b, WithRules(b, rs), f, T)
<1>1. PICK x : x = [r \in DOMAIN b.cache["access"] |->
                      IF r \in rs THEN RulesIn(b, r).v ELSE b.cache["access"][r]]
  OBVIOUS
<1>2. WithRules(b, rs) = WithPart(b, "access", x)
  BY <1>1 DEF WithRules, WithPart
<1>3. ASSUME "access" \in T, NEW r \in DOMAIN x, Known("access", x[r])
      PROVE  x[r] = InStore(StoreOf(b, f), "access", r)
  <2>1. CASE r \in rs
    <3>1. x[r] = RulesIn(b, r).v /\ r \in DOMAIN b.cache.access
      BY <1>1, <1>3, <2>1
    <3> QED BY <1>3, <3>1, RulesAreStored
  <2>2. CASE r \notin rs
    <3>1. x[r] = b.cache["access"][r] /\ r \in DOMAIN b.cache["access"]
      BY <1>1, <1>3, <2>2
    <3> QED BY <1>3, <3>1 DEF Sound, ListsAreRight
  <2> QED BY <2>1, <2>2
<1>4. IsList(b, f, T, "access", x)
  BY <1>1, <1>3 DEF IsList, Sound, ListsAreRight
<1> QED BY <1>2, <1>4, TableReads DEF Tables

\* The grant the first matching rule of the nearest role gives.
HitsOf(st, rs, path, method) == [i \in DOMAIN rs |-> Matching(RulesOfRole(st, rs[i]), path, method)]
Deciding(hits) == {i \in DOMAIN hits : hits[i] # <<>>}
Decided(hits) ==
  IF Deciding(hits) = {} THEN NoGrant ELSE fromShv2Access(Head(hits[Min(Deciding(hits))]).access, None)

LEMMA FirstRuleReads ==
  ASSUME NEW a, NEW f, NEW T, Sound(a, f, T), NEW rs, NEW path, NEW method,
         NEW e, e = FirstRule(a, rs, path, method)
  PROVE  /\ Reads(a, e.a, f, T)
         /\ "access" \in T =>
              e.v = IF rs = <<>> THEN NoGrant ELSE Decided(HitsOf(StoreOf(a, f), rs, path, method))
<1> DEFINE st == StoreOf(a, f)
<1>1. CASE rs = <<>>
  <2>1. e.a = a /\ e.v = NoGrant
    BY <1>1 DEF FirstRule
  <2> QED BY <1>1, <2>1, ReadsNothing
<1>2. CASE rs # <<>>
  <2>1. PICK b : b = Listed(a, "access", NotLoaded)
    OBVIOUS
  <2>2. /\ Reads(a, b, f, T)
        /\ a.backend = "files" => "access" \in DOMAIN b.cache["files"]
        /\ "access" \in T => DOMAIN b.cache["access"] = Keys(st, "access")
    BY <2>1, ListedReads DEF Tables, Known, NotLoaded
  <2>3. StoreOf(b, f) = st /\ Sound(b, f, T) /\ b.backend = a.backend
    BY <2>2, ReadsStore DEF Reads, SameRest
  <2>4. e = RuleAmong(b, rs, path, method)
    BY <1>2, <2>1 DEF FirstRule, accessRoles
  <2>5. PICK hits : hits = [i \in DOMAIN rs |-> Matching(RulesIn(b, rs[i]).v.rules, path, method)]
    OBVIOUS
  <2>6. /\ e.a = WithRules(b, IF Deciding(hits) = {} THEN ToSet(rs)
                              ELSE ToSet(SubSeq(rs, 1, Min(Deciding(hits)))))
        /\ e.v = Decided(hits)
    <3>1. DOMAIN hits = DOMAIN rs
      BY <2>5
    <3>2. PICK at : at = {i \in DOMAIN rs : hits[i] # <<>>}
      OBVIOUS
    <3>3. at = Deciding(hits)
      BY <3>1, <3>2 DEF Deciding
    <3>4. e = IF at = {} THEN [a |-> WithRules(b, ToSet(rs)), v |-> NoGrant, ok |-> TRUE]
              ELSE [a |-> WithRules(b, ToSet(SubSeq(rs, 1, Min(at)))),
                    v |-> fromShv2Access(Head(hits[Min(at)]).access, None), ok |-> TRUE]
      BY <2>4, <2>5, <3>2, Zenon DEF RuleAmong
    <3> QED BY <3>3, <3>4 DEF Decided
  <2>7. Reads(b, e.a, f, T)
    BY <2>2, <2>3, <2>6, WithRulesReads
  <2>8. ASSUME "access" \in T PROVE hits = HitsOf(st, rs, path, method)
    <3>1. \A r : RulesIn(b, r).v.rules = RulesOfRole(st, r)
      <4> TAKE r
      <4>1. RulesIn(b, r).v = IF r \in DOMAIN b.cache["access"]
                              THEN InStore(StoreOf(b, f), "access", r) ELSE NotLoaded
        BY <2>3, <2>8, RulesAreStored
      <4> QED BY <2>2, <2>3, <2>8, <4>1 DEF RulesOfRole, InStore, NotLoaded
    <3> QED BY <2>5, <3>1, Zenon DEF HitsOf
  <2>9. Reads(a, e.a, f, T)
    BY <2>2, <2>7, ReadsAgain
  <2> QED BY <1>2, <2>6, <2>8, <2>9
<1> QED BY <1>1, <1>2

\* What is granted to somebody with the roles g.
GrantWith(st, g, path, method) ==
  IF ~g.ok THEN NoGrant
  ELSE IF path = CurrentClientPath THEN GrantOf(Write)
  ELSE IF g.v = <<>> THEN NoGrant ELSE Decided(HitsOf(st, g.v, path, method))

IsAnswer(g) == DOMAIN g = {"a", "v", "ok"}
LEMMA FoundRoles ==
  ASSUME NEW a, NEW n
  PROVE  IsAnswer(RolesOfUser(user(a, n), n)) /\ IsAnswer(flattenRole(a, n))
<1>1. \A b, key, rs : IsAnswer(userFlattenRoles(b, key, rs))
  BY DEF IsAnswer, userFlattenRoles, Flattened
<1> QED BY <1>1 DEF RolesOfUser, RolesFor, flattenRole, IsAnswer

LEMMA GrantIsRead ==
  ASSUME NEW a, NEW f, NEW T, NEW g, Sound(g.a, f, T), Reads(a, g.a, f, T), IsAnswer(g),
         NEW path, NEW method, NEW e, e = GrantAmong(g, path, method)
  PROVE  /\ Reads(a, e.a, f, T)
         /\ "access" \in T => e.v = GrantWith(StoreOf(a, f), g, path, method)
<1>1. CASE ~g.ok
  <2>1. e.a = g.a /\ e.v = NoGrant
    BY <1>1 DEF GrantAmong, IsAnswer
  <2> QED BY <1>1, <2>1 DEF GrantWith
<1>2. CASE g.ok /\ path = CurrentClientPath
  <2>1. e.a = g.a /\ e.v = GrantOf(Write)
    BY <1>2 DEF GrantAmong, IsAnswer
  <2> QED BY <1>2, <2>1 DEF GrantWith
<1>3. CASE g.ok /\ path # CurrentClientPath
  <2>1. e = FirstRule(g.a, g.v, path, method)
    BY <1>3 DEF GrantAmong
  <2>2. /\ Reads(g.a, e.a, f, T)
        /\ "access" \in T =>
              e.v = IF g.v = <<>> THEN NoGrant ELSE Decided(HitsOf(StoreOf(g.a, f), g.v, path, method))
    BY <2>1, FirstRuleReads
  <2>3. StoreOf(g.a, f) = StoreOf(a, f) /\ Reads(a, e.a, f, T)
    BY <2>2, ReadsStore, ReadsAgain
  <2> QED BY <1>3, <2>2, <2>3 DEF GrantWith
<1> QED BY <1>1, <1>2, <1>3

UserGrant(a, n, path, method, given) == accessGrantForShvPath(a, n, path, method, FALSE, given)
MasterGrant(a, n, path, method, given) == accessGrantForShvPath(a, n, path, method, TRUE, given)

LEMMA UserGrantReads ==
  ASSUME NEW a, NEW f, NEW T, Sound(a, f, T), NEW n, NEW path, NEW method, NEW given,
         NEW e, e = UserGrant(a, n, path, method, given)
  PROVE  /\ Reads(a, e.a, f, T)
         /\ T # {} /\ path = CurrentClientPath => HasRoles(e.a, StoreOf(a, f), n)
<1>1. PICK g : g = RolesOfUser(user(a, n), n)
  OBVIOUS
<1>2. e = GrantAmong(g, path, method)
  BY <1>1 DEF UserGrant, accessGrantForShvPath, RolesForGrant
<1>3. Reads(a, g.a, f, T) /\ (T # {} => HasRoles(g.a, StoreOf(a, f), n))
  BY <1>1, GrantRolesAreRead
<1>4. IsAnswer(g) /\ Sound(g.a, f, T)
  BY <1>1, <1>3, FoundRoles DEF Reads
<1>5. Reads(a, e.a, f, T)
  BY <1>2, <1>3, <1>4, GrantIsRead
<1>6. path = CurrentClientPath => e.a = g.a
  BY <1>2, <1>4 DEF GrantAmong, IsAnswer
<1> QED BY <1>3, <1>5, <1>6

LEMMA MasterGrantReads ==
  ASSUME NEW a, NEW f, NEW T, Sound(a, f, T), NEW n, NEW path, NEW method, NEW given,
         NEW e, e = MasterGrant(a, n, path, method, given)
  PROVE  Reads(a, e.a, f, T)
<1>1. CASE given.level > None \/ path = AppPath
  <2>1. e.a = a
    BY <1>1 DEF MasterGrant, accessGrantForShvPath
  <2> QED BY <2>1, ReadsNothing
<1>2. CASE ~(given.level > None \/ path = AppPath)
  <2>1. PICK g : g = flattenRole(a, "masterBroker")
    OBVIOUS
  <2>2. e = GrantAmong(g, path, method)
    BY <1>2, <2>1 DEF MasterGrant, accessGrantForShvPath, RolesForGrant
  <2>3. Reads(a, g.a, f, T) /\ IsAnswer(g)
    BY <2>1, RoleRolesAreRead, FoundRoles
  <2>4. Sound(g.a, f, T)
    BY <2>3 DEF Reads
  <2> QED BY <2>2, <2>3, <2>4, GrantIsRead
<1> QED BY <1>1, <1>2

(***************************************************************************)
(* A sound manager answers as one with an empty cache.                     *)
(***************************************************************************)
LEMMA EmptyIsSound ==
  ASSUME NEW b, IsManager(b), b.cache = EmptyCache, UsersAreUsers(b),
         b.backend = "files" => \A tbl \in Tables : configFile(b.files, tbl) \in DOMAIN b.files
  PROVE  Sound(b, b.files, Tables)
<1>1. /\ \A tbl \in Tables : DOMAIN b.cache[tbl] = {}
      /\ DOMAIN b.cache.files = {} /\ DOMAIN b.cache.flat = {}
  BY DEF EmptyCache, Tables
<1>2. SameStore(b, StoreOf(b, b.files))
  BY <1>1 DEF SameStore, StoreOf, aclConfig, loadAclConfig
<1>3. FilesAreThere(b) /\ ListsAreRight(b, StoreOf(b, b.files), Tables) /\ FlatIsRight(b, StoreOf(b, b.files))
  BY <1>1 DEF FilesAreThere, ListsAreRight, FlatIsRight
<1>4. "users" \in Tables
  BY DEF Tables
<1> QED BY <1>2, <1>3, <1>4 DEF Sound

LEMMA ClearedIsSound ==
  ASSUME NEW a, NEW f, NEW T, Sound(a, f, T), NEW b, b = clearCache(a)
  PROVE  /\ Sound(b, b.files, Tables) /\ SameRest(a, b) /\ b.files = a.files /\ b.db = a.db
         /\ DOMAIN b.cache.flat = {}
<1>1. IsManager(a) /\ FilesAreThere(a) /\ UsersAreUsers(a)
  BY DEF Sound
<1>2. b = [a EXCEPT !.cache = EmptyCache]
  BY DEF clearCache
<1>3. /\ IsManager(b) /\ SameRest(a, b) /\ b.files = a.files /\ b.db = a.db /\ b.cache = EmptyCache
  BY <1>1, <1>2 DEF IsManager, SameRest, Fields, CacheFields, Tables, EmptyCache
<1>4. /\ UsersAreUsers(b)
      /\ b.backend = "files" => \A tbl \in Tables : configFile(b.files, tbl) \in DOMAIN b.files
  BY <1>1, <1>3 DEF UsersAreUsers, FilesAreThere, SameRest
<1> QED BY <1>3, <1>4, EmptyIsSound DEF EmptyCache

\* Two managers of the same store grant the same, whatever each has in its cache.
SameManager(a, u, f) ==
  /\ Sound(a, f, Tables) /\ Sound(u, f, Tables) /\ SameRest(a, u) /\ a.db = u.db
  /\ DOMAIN u.cache.flat = {}
SameAnswersWith(cached, found) ==
  found.ok => \A path, method :
    GrantAmong(cached, path, method).v = GrantAmong(found, path, method).v

LEMMA SameRolesGrantTheSame ==
  ASSUME NEW a, NEW u, NEW f, SameManager(a, u, f), NEW cached, NEW found, NEW R,
         IsAnswer(cached), Reads(a, cached.a, f, Tables), R.ok => cached.ok, cached.v = R.v,
         IsAnswer(found), Reads(u, found.a, f, Tables), found.ok => R.ok, found.v = R.v
  PROVE  SameAnswersWith(cached, found)
<1> DEFINE st == StoreOf(a, f)
<1> SUFFICES ASSUME found.ok, NEW path, NEW method
             PROVE  GrantAmong(cached, path, method).v = GrantAmong(found, path, method).v
  BY DEF SameAnswersWith
<1>1. "access" \in Tables
  BY DEF Tables
<1>2. StoreOf(u, f) = st
  BY DEF StoreOf, SameRest, SameManager
<1>3. Sound(cached.a, f, Tables) /\ Sound(found.a, f, Tables)
  BY DEF Reads
<1>4. GrantAmong(cached, path, method).v = GrantWith(st, cached, path, method)
  BY <1>1, <1>3, GrantIsRead
<1>5. GrantAmong(found, path, method).v = GrantWith(st, found, path, method)
  BY <1>1, <1>2, <1>3, GrantIsRead
<1> QED BY <1>4, <1>5 DEF GrantWith

LEMMA SameGrants ==
  ASSUME NEW a, NEW u, NEW f, SameManager(a, u, f), NEW n,
         n \notin LoginNames \/ IsUser(UserOf(StoreOf(a, f), n)),
         NEW cached, cached = RolesOfUser(user(a, n), n),
         NEW found, found = RolesOfUser(user(u, n), n)
  PROVE  SameAnswersWith(cached, found)
<1> DEFINE st == StoreOf(a, f)
<1>1. Tables # {} /\ Sound(a, f, Tables) /\ Sound(u, f, Tables) /\ DOMAIN u.cache.flat = {}
  BY DEF SameManager, Tables
<1>2. StoreOf(u, f) = st /\ RolesGranted(u, st, n) = RolesGranted(a, st, n)
  BY DEF StoreOf, SameRest, RolesGranted, SameManager
<1>3. PICK R : R = RolesGranted(a, st, n)
  OBVIOUS
<1>4. Reads(a, cached.a, f, Tables) /\ (R.ok => cached.ok) /\ cached.v = R.v
  BY <1>1, <1>3, GrantRolesAreRead
<1>5. Reads(u, found.a, f, Tables) /\ (found.ok => R.ok) /\ found.v = R.v
  BY <1>1, <1>2, <1>3, GrantRolesAreRead
<1> QED BY <1>4, <1>5, FoundRoles, SameRolesGrantTheSame

LEMMA SameGrantsOfRole ==
  ASSUME NEW a, NEW u, NEW f, SameManager(a, u, f), NEW r,
         NEW cached, cached = flattenRole(a, r), NEW found, found = flattenRole(u, r)
  PROVE  SameAnswersWith(cached, found)
<1> DEFINE st == StoreOf(a, f)
<1>1. Tables # {} /\ Sound(a, f, Tables) /\ Sound(u, f, Tables) /\ DOMAIN u.cache.flat = {}
  BY DEF SameManager, Tables
<1>2. StoreOf(u, f) = st
  BY DEF StoreOf, SameRest, SameManager
<1>3. PICK R : R = RolesOf(st, <<r>>)
  OBVIOUS
<1>4. Reads(a, cached.a, f, Tables) /\ (R.ok => cached.ok) /\ cached.v = R.v
  BY <1>1, <1>3, RoleRolesAreRead
<1>5. Reads(u, found.a, f, Tables) /\ (found.ok => R.ok) /\ found.v = R.v
  BY <1>1, <1>2, <1>3, RoleRolesAreRead
<1> QED BY <1>4, <1>5, FoundRoles, SameRolesGrantTheSame

LEMMA SoundIsTransparent ==
  ASSUME NEW f, f = acl.files, Sound(acl, f, Tables)
  PROVE  CacheIsTransparent
<1>1. PICK u : u = clearCache(acl)
  OBVIOUS
<1>2. SUFFICES AnswersAs(u)
  BY <1>1 DEF CacheIsTransparent
<1>3. PICK st : st = StoreOf(acl, f)
  OBVIOUS
<1>4. /\ Sound(u, f, Tables) /\ SameRest(acl, u) /\ u.db = acl.db /\ DOMAIN u.cache.flat = {}
  BY <1>1, ClearedIsSound
<1>5. StoreOf(u, f) = st
  BY <1>3, <1>4 DEF StoreOf, SameRest
<1>6. "mounts" \in Tables /\ "users" \in Tables
  BY DEF Tables
<1>7. \A d : mountPointForDevice(acl, d) = mountPointForDevice(u, d)
  <2> TAKE d
  <2>1. mountDef(acl, d).v = MountOf(st, d)
    BY <1>3, <1>6, MountIsRead
  <2>2. mountDef(u, d).v = MountOf(st, d)
    BY <1>4, <1>5, <1>6, MountIsRead
  <2> QED BY <2>1, <2>2 DEF mountPointForDevice
<1>8. \A n : user(acl, n).v = user(u, n).v
  <2> TAKE n
  <2>1. user(acl, n).v = UserOf(st, n)
    BY <1>3, <1>6, UserIsRead
  <2>2. user(u, n).v = UserOf(st, n)
    BY <1>4, <1>5, <1>6, UserIsRead
  <2> QED BY <2>1, <2>2
<1>9. SameManager(acl, u, f)
  BY <1>4 DEF SameManager
<1>10. GrantsAs(flattenRole(u, "masterBroker"), flattenRole(acl, "masterBroker"))
  BY <1>9, SameGrantsOfRole DEF GrantsAs, SameAnswersWith
<1>11. ASSUME NEW n \in ListedUsers(u) \cup DirectoryNames(u)
       PROVE  GrantsAs(RolesOfUser(user(u, n), n), RolesOfUser(user(acl, n), n))
  <2>1. ASSUME n \in ListedUsers(u) PROVE IsUser(UserOf(st, n))
    <3>1. SameStore(u, st)
      BY <1>4, <1>5, <1>6 DEF Sound
    <3> QED BY <1>6, <2>1, <3>1, SameAnswers DEF ListedUsers, UserOf
  <2>2. n \notin LoginNames \/ IsUser(UserOf(StoreOf(acl, f), n))
    BY <1>3, <2>1 DEF DirectoryNames
  <2>3. SameAnswersWith(RolesOfUser(user(acl, n), n), RolesOfUser(user(u, n), n))
    BY <1>9, <2>2, SameGrants
  <2> QED BY <2>3 DEF GrantsAs, SameAnswersWith
<1> QED BY <1>7, <1>8, <1>10, <1>11 DEF AnswersAs

(***************************************************************************)
(* The logins.                                                             *)
(***************************************************************************)
LEMMA StoredUsers ==
  ASSUME NEW a, NEW T, Sound(a, a.files, T), NEW s, s = Store(a), NEW n \in DOMAIN s.users
  PROVE  UserOf(StoreOf(a, a.files), n) = s.users[n] /\ IsUser(s.users[n])
<1>1. PICK st : st = StoreOf(a, a.files)
  OBVIOUS
<1>2. CASE a.backend = "files"
  <2>1. PICK b : b = [a EXCEPT !.backend = "files", !.cache = EmptyCache]
    OBVIOUS
  <2>2. b.backend = "files" /\ b.files = a.files /\ DOMAIN b.cache.files = {}
    BY <2>1 DEF Sound, IsManager, Fields, EmptyCache
  <2>3. st.backend = "files" /\ st.files = a.files /\ DOMAIN st.cache.files = {}
    BY <1>1, <1>2 DEF StoreOf, EmptyCache
  <2>4. aclConfig(b, "users") = aclConfig(st, "users")
    BY <2>2, <2>3 DEF aclConfig, loadAclConfig
  <2>5. Keys(st, "users") = filesKeys(b, "users") /\ \A m : aclUser(st, m) = filesUser(b, m)
    BY <2>3, <2>4 DEF Keys, filesKeys, aclUser, filesUser
  <2>6. PICK people : people = {m \in filesKeys(b, "users") : IsUser(filesUser(b, m))}
    OBVIOUS
  <2>7. s.users = [m \in people |-> filesUser(b, m)]
    <3>1. s = importAclConfigFiles(a).db
      BY <1>2 DEF Store
    <3>2. DOMAIN a = Fields
      BY DEF Sound, IsManager
    <3> QED BY <2>1, <2>6, <3>1, <3>2 DEF importAclConfigFiles, Fields
  <2> QED BY <1>1, <2>5, <2>6, <2>7 DEF UserOf
<1>3. CASE a.backend # "files"
  <2>1. s = a.db /\ st.db = a.db /\ st.backend # "files"
    BY <1>1, <1>3 DEF Store, StoreOf
  <2> QED BY <1>1, <2>1 DEF UserOf, Keys, sqlKeys, aclUser, sqlUser, Row, Sound, UsersAreUsers
<1> QED BY <1>2, <1>3

LEMMA DigestFits ==
  ASSUME NEW p, NEW l, NEW k, NEW y, NEW h, l.password = [nonce |-> k, text |-> y]
  PROVE  Fits(p, l, 1, "SHA1", h) <=> (p.password # NoText /\ k = 1 /\ y = h)
<1>1. PICK pw : pw = l.password
  OBVIOUS
<1>2. pw = [nonce |-> 1, text |-> h] <=> (k = 1 /\ y = h)
  BY <1>1
<1> QED BY <1>1, <1>2 DEF Fits

LEMMA SoundLoginsAgree ==
  ASSUME NEW T, T # {}, Sound(acl, acl.files, T)
  PROVE  LoginsAgree
<1> SUFFICES ASSUME NEW s, s = Store(acl), NEW n \in DOMAIN s.users, NEW x
             PROVE  /\ Logged(n, x, "PLAIN", 0) <=> StandsFor(s.users[n].password, x)
                    /\ Logged(n, sha1Hex(x), "SHA1", 1) <=> StandsFor(s.users[n].password, x)
                    /\ ~Logged(n, sha1Hex(x), "SHA1", 2)
  BY DEF LoginsAgree
<1>1. PICK u : u = user(acl, n)
  OBVIOUS
<1>2. u.v = s.users[n] /\ IsUser(u.v)
  <2>1. UserOf(StoreOf(acl, acl.files), n) = s.users[n] /\ IsUser(s.users[n])
    BY StoredUsers
  <2> QED BY <1>1, <2>1, UserIsRead DEF Sound
<1>3. PICK p : p = s.users[n].password
  OBVIOUS
<1>4. Logged(n, x, "PLAIN", 0) <=> StandsFor(p, x)
  BY <1>1, <1>2, <1>3 DEF Logged, checkPassword, PasswordFits, Fits, StandsFor
<1>5. ASSUME NEW k
      PROVE  Logged(n, sha1Hex(x), "SHA1", k) <=> (k = 1 /\ StandsFor(p, x))
  <2>1. PICK h : h = IF p.format = "PLAIN" THEN sha1Hex(p.password) ELSE p.password
    OBVIOUS
  <2>2. PICK l : l = [user |-> n, type |-> "SHA1", password |-> [nonce |-> k, text |-> sha1Hex(x)]]
    OBVIOUS
  <2>3. l.user = n /\ l.type = "SHA1" /\ l.password = [nonce |-> k, text |-> sha1Hex(x)]
    BY <2>2
  <2>4. Logged(n, sha1Hex(x), "SHA1", k) <=> checkPassword(acl, l, 1).v
    BY <2>2 DEF Logged
  <2>5. checkPassword(acl, l, 1).v <=> Fits(p, l, 1, "SHA1", h)
    BY <1>1, <1>2, <1>3, <2>1, <2>3 DEF checkPassword, PasswordFits
  <2>6. Fits(p, l, 1, "SHA1", h) <=> (p.password # NoText /\ k = 1 /\ sha1Hex(x) = h)
    BY <2>3, DigestFits
  <2>7. sha1Hex(x) = h <=> p.password = IF p.format = "PLAIN" THEN x ELSE sha1Hex(x)
    BY <2>1 DEF sha1Hex
  <2> QED BY <2>4, <2>5, <2>6, <2>7 DEF StandsFor
<1> QED BY <1>3, <1>4, <1>5

(***************************************************************************)
(* Changes of the lists.                                                   *)
(***************************************************************************)
LEMMA SoundWeaker ==
  ASSUME NEW a, NEW f, NEW T, Sound(a, f, T)
  PROVE  Sound(a, f, T \ {"access"})
<1>1. ListsAreRight(a, StoreOf(a, f), T \ {"access"})
  BY DEF Sound, ListsAreRight
<1> QED BY <1>1 DEF Sound

LEMMA SoundAgain ==
  ASSUME NEW a, NEW f, NEW T, T \subseteq Tables, T # {} => "users" \in T,
         Sound(a, f, T \ {"access"}), DOMAIN a.cache.access = {}
  PROVE  Sound(a, f, T)
<1>1. ListsAreRight(a, StoreOf(a, f), T)
  <2> SUFFICES ASSUME NEW tbl \in T
               PROVE  /\ DOMAIN a.cache[tbl] # {} => DOMAIN a.cache[tbl] = Keys(StoreOf(a, f), tbl)
                      /\ \A n \in DOMAIN a.cache[tbl] :
                           Known(tbl, a.cache[tbl][n]) =>
                             a.cache[tbl][n] = InStore(StoreOf(a, f), tbl, n)
    BY DEF ListsAreRight
  <2>1. CASE tbl = "access"
    BY <2>1
  <2>2. CASE tbl # "access"
    BY <2>2 DEF Sound, ListsAreRight
  <2> QED BY <2>1, <2>2
<1> QED BY <1>1 DEF Sound

\* What a call has made of the manager a, its answer being r.  A call that fails after it
\* has changed the rules leaves those in the cache as they were.
Does(a, r, f, T) ==
  /\ SameRest(a, r.a) /\ Sound(r.a, f, T \ {"access"})
  /\ r.ok \/ r.a.db = a.db => Sound(r.a, f, T)

LEMMA ReadsDoes ==
  ASSUME NEW a, NEW f, NEW T, NEW r, Reads(a, r.a, f, T)
  PROVE  Does(a, r, f, T)
  BY SoundWeaker DEF Reads, Does

LEMMA DoesAfter ==
  ASSUME NEW a, NEW b, NEW f, NEW T, NEW r, Reads(a, b, f, T), Does(b, r, f, T)
  PROVE  Does(a, r, f, T)
  BY DEF Reads, Does, SameRest

\* One table has changed.
WithTable(a, p, x) == [a EXCEPT !.db[p] = x]
LEMMA TablePart ==
  ASSUME NEW a, IsManager(a), NEW p \in Tables, NEW x, NEW b, b = WithTable(a, p, x)
  PROVE  /\ IsManager(b) /\ SameRest(a, b) /\ b.files = a.files /\ b.cache = a.cache
         /\ b.db[p] = x /\ \A q \in Tables \ {p} : b.db[q] = a.db[q]
  BY DEF WithTable, IsManager, SameRest, Fields

LEMMA SameRolesStand ==
  ASSUME NEW a, NEW b, SameRest(a, b), NEW st, NEW su, st.backend # "files", su.backend # "files",
         su.db["users"] = st.db["users"], su.db["roles"] = st.db["roles"],
         NEW key, NEW rs, StandFor(a, st, key, rs)
  PROVE  StandFor(b, su, key, rs)
<1>1. \A n : UserOf(su, n) = UserOf(st, n)
  BY DEF UserOf, Keys, sqlKeys, aclUser, sqlUser, Row
<1>2. Keys(su, "roles") = Keys(st, "roles")
  BY DEF Keys, sqlKeys
<1>3. \A r : aclRole(su, r) = aclRole(st, r) /\ RoleThrows(su, r) = RoleThrows(st, r)
  BY DEF aclRole, sqlRole, Row, RoleThrows
<1>4. RoleTable(su) = RoleTable(st)
  BY <1>2, <1>3, Zenon DEF RoleTable
<1>5. \A q : RolesOf(su, q) = RolesOf(st, q)
  BY <1>4 DEF RolesOf
<1>6. StandFor(a, su, key, rs)
  BY <1>1, <1>5 DEF StandFor
<1> QED BY <1>6, SameStand

LEMMA TableChanged ==
  ASSUME NEW a, NEW f, NEW T, Sound(a, f, T), a.backend # "files", NEW tbl \in Tables,
         NEW b, IsManager(b), SameRest(a, b), b.files = a.files, UsersAreUsers(b),
         \A q \in Tables \ {tbl} : b.db[q] = a.db[q] /\ b.cache[q] = a.cache[q],
         NEW Q, Q = T \/ Q = T \ {"access"}, tbl \in Q => DOMAIN b.cache[tbl] = {},
         \/ DOMAIN b.cache.flat = {}
         \/ b.cache.flat = a.cache.flat /\ tbl \notin {"users", "roles"}
  PROVE  Sound(b, f, Q)
<1> DEFINE st == StoreOf(a, f)
          su == StoreOf(b, f)
<1>1. b.backend = a.backend /\ st.backend # "files" /\ su.backend # "files"
      /\ st.db = a.db /\ su.db = b.db
  BY DEF SameRest, StoreOf
<1>2. SameStore(b, su)
  BY <1>1 DEF SameStore, StoreOf
<1>3. FilesAreThere(b)
  BY <1>1 DEF FilesAreThere
<1>4. ListsAreRight(b, su, Q)
  <2> SUFFICES ASSUME NEW q \in Q
               PROVE  /\ DOMAIN b.cache[q] # {} => DOMAIN b.cache[q] = Keys(su, q)
                      /\ \A n \in DOMAIN b.cache[q] :
                           Known(q, b.cache[q][n]) => b.cache[q][n] = InStore(su, q, n)
    BY DEF ListsAreRight
  <2>1. CASE q = tbl
    BY <2>1
  <2>2. CASE q # tbl
    <3>1. q \in Tables \ {tbl} /\ q \in T
      BY <2>2 DEF Sound
    <3>2. su.db[q] = st.db[q] /\ b.cache[q] = a.cache[q]
      BY <1>1, <3>1
    <3>3. Keys(su, q) = Keys(st, q)
      BY <1>1, <3>2 DEF Keys, sqlKeys
    <3>4. \A n : InStore(su, q, n) = InStore(st, q, n)
      BY <1>1, <3>2 DEF InStore, aclMountDef, sqlMountDef, aclUser, sqlUser,
                        aclAccessRoleRules, sqlAccessRoleRules, Row
    <3> QED BY <3>1, <3>2, <3>3, <3>4 DEF Sound, ListsAreRight
  <2> QED BY <2>1, <2>2
<1>5. Q # {} => FlatIsRight(b, su)
  <2> SUFFICES ASSUME Q # {}, NEW key \in DOMAIN b.cache.flat
               PROVE  StandFor(b, su, key, b.cache.flat[key])
    BY DEF FlatIsRight
  <2>1. b.cache.flat = a.cache.flat /\ tbl \notin {"users", "roles"}
    OBVIOUS
  <2>2. T # {} /\ StandFor(a, st, key, b.cache.flat[key])
    BY <2>1 DEF Sound, FlatIsRight
  <2>3. su.db["users"] = st.db["users"] /\ su.db["roles"] = st.db["roles"]
    BY <1>1, <2>1 DEF Tables
  <2> QED BY <1>1, <2>2, <2>3, SameRolesStand
<1>6. Q \subseteq Tables /\ (Q # {} => "users" \in Q)
  BY DEF Sound
<1> QED BY <1>2, <1>3, <1>4, <1>5, <1>6 DEF Sound

\* A table changes and what is in the cache of it is forgotten.
LEMMA ForgottenTable ==
  ASSUME NEW a, NEW f, NEW T, Sound(a, f, T), a.backend # "files", NEW tbl \in Tables, NEW y,
         tbl = "users" => \A n \in DOMAIN y : IsUser(y[n]),
         NEW c, c = WithPart(WithTable(a, tbl, y), tbl, <<>>),
         NEW b, \/ b = c /\ tbl \notin {"users", "roles"}
                \/ b = WithFlat(c, <<>>)
  PROVE  SameRest(a, b) /\ Sound(b, f, T)
<1>1. PICK t : t = WithTable(a, tbl, y)
  OBVIOUS
<1>2. IsManager(a) /\ tbl \in CacheFields /\ Tables \subseteq CacheFields \ {"flat"} /\ "flat" \in CacheFields
  BY DEF Sound, CacheFields, Tables
<1>3. /\ IsManager(t) /\ SameRest(a, t) /\ t.files = a.files /\ t.cache = a.cache
      /\ t.db[tbl] = y /\ \A q \in Tables \ {tbl} : t.db[q] = a.db[q]
  BY <1>1, <1>2, TablePart
<1>4. PICK e : e = <<>>
  OBVIOUS
<1>5. DOMAIN e = {}
  BY <1>4
<1>6. /\ IsManager(c) /\ SameRest(t, c) /\ c.files = t.files /\ c.db = t.db
      /\ c.cache[tbl] = e /\ \A q \in CacheFields \ {tbl} : c.cache[q] = t.cache[q]
  <2>1. c = WithPart(t, tbl, e)
    BY <1>1, <1>4
  <2> QED BY <1>2, <1>3, <2>1, CachePart
<1>7. /\ IsManager(b) /\ SameRest(a, b) /\ b.files = a.files /\ b.db = t.db
      /\ \A q \in Tables : b.cache[q] = c.cache[q]
      /\ \/ DOMAIN b.cache["flat"] = {}
         \/ b.cache["flat"] = a.cache["flat"] /\ tbl \notin {"users", "roles"}
  <2>1. CASE b = c /\ tbl \notin {"users", "roles"}
    BY <1>2, <1>3, <1>6, <2>1 DEF SameRest
  <2>2. CASE b = WithFlat(c, e)
    <3>1. /\ IsManager(b) /\ SameRest(c, b) /\ b.files = c.files /\ b.db = c.db
          /\ b.cache["flat"] = e /\ \A q \in CacheFields \ {"flat"} : b.cache[q] = c.cache[q]
      BY <1>6, <2>2, CacheFlat
    <3> QED BY <1>2, <1>3, <1>5, <1>6, <3>1 DEF SameRest
  <2> QED BY <1>4, <2>1, <2>2
<1>8. UsersAreUsers(b)
  <2>1. CASE tbl = "users"
    BY <1>3, <1>7, <2>1 DEF UsersAreUsers
  <2>2. CASE tbl # "users"
    <3>1. b.db["users"] = a.db["users"]
      BY <1>3, <1>7, <2>2 DEF Tables
    <3> QED BY <3>1 DEF UsersAreUsers, Sound
  <2> QED BY <2>1, <2>2
<1>9. DOMAIN b.cache[tbl] = {}
  BY <1>5, <1>6, <1>7
<1>10. \A q \in Tables \ {tbl} : b.db[q] = a.db[q] /\ b.cache[q] = a.cache[q]
  BY <1>2, <1>3, <1>6, <1>7
<1> QED BY <1>7, <1>8, <1>9, <1>10, TableChanged

LEMMA RefusedDoes ==
  ASSUME NEW a, NEW f, NEW T, Sound(a, f, T), NEW r, r.a = a
  PROVE  Does(a, r, f, T)
  BY ReadsNothing, ReadsDoes

LEMMA SoundDoes ==
  ASSUME NEW a, NEW f, NEW T, NEW r, SameRest(a, r.a), Sound(r.a, f, T)
  PROVE  Does(a, r, f, T)
  BY SoundWeaker DEF Does

LEMMA SetMountDoes ==
  ASSUME NEW a, NEW f, NEW T, Sound(a, f, T), NEW id, NEW d, NEW r, r = setMountDef(a, id, d)
  PROVE  Does(a, r, f, T)
<1>1. CASE a.backend = "files"
  BY <1>1, RefusedDoes DEF setMountDef, Refused
<1>2. CASE a.backend # "files"
  <2>1. PICK y : y = IF IsMountDef(d) THEN Put(a.db["mounts"], id, d) ELSE Del(a.db["mounts"], id)
    OBVIOUS
  <2>2. r.a = WithPart(WithTable(a, "mounts", y), "mounts", <<>>)
    BY <1>2, <2>1 DEF setMountDef, sqlSetMountDef, Changed, WithPart, WithTable
  <2>3. SameRest(a, r.a) /\ Sound(r.a, f, T)
    BY <1>2, <2>2, ForgottenTable DEF Tables
  <2> QED BY <2>3, SoundDoes
<1> QED BY <1>1, <1>2

LEMMA SetUserDoes ==
  ASSUME NEW a, NEW f, NEW T, Sound(a, f, T), NEW n, NEW u, NEW r, r = setUser(a, n, u)
  PROVE  Does(a, r, f, T)
<1>1. CASE a.backend = "files"
  BY <1>1, RefusedDoes DEF setUser, Refused
<1>2. CASE a.backend # "files"
  <2>1. PICK y : y = IF IsUser(u) THEN Put(a.db["users"], n, u) ELSE Del(a.db["users"], n)
    OBVIOUS
  <2>2. r.a = WithFlat(WithPart(WithTable(a, "users", y), "users", <<>>), <<>>)
    BY <1>2, <2>1 DEF setUser, sqlSetUser, Changed, WithPart, WithTable, WithFlat
  <2>3. \A m \in DOMAIN y : IsUser(y[m])
    BY <2>1 DEF Put, Del, Sound, UsersAreUsers
  <2>4. SameRest(a, r.a) /\ Sound(r.a, f, T)
    BY <1>2, <2>2, <2>3, ForgottenTable DEF Tables
  <2> QED BY <2>4, SoundDoes
<1> QED BY <1>1, <1>2

LEMMA SetRoleDoes ==
  ASSUME NEW a, NEW f, NEW T, Sound(a, f, T), NEW n, NEW exists, NEW x, NEW r, r = setRole(a, n, exists, x)
  PROVE  Does(a, r, f, T)
<1>1. CASE a.backend = "files"
  BY <1>1, RefusedDoes DEF setRole, Refused
<1>2. CASE a.backend # "files"
  <2>1. PICK y : y = IF exists THEN Put(a.db["roles"], n, x) ELSE Del(a.db["roles"], n)
    OBVIOUS
  <2>2. r.a = WithFlat(WithPart(WithTable(a, "roles", y), "roles", <<>>), <<>>)
    BY <1>2, <2>1 DEF setRole, sqlSetRole, Changed, WithPart, WithTable, WithFlat
  <2>3. SameRest(a, r.a) /\ Sound(r.a, f, T)
    BY <1>2, <2>2, ForgottenTable DEF Tables
  <2> QED BY <2>3, SoundDoes
<1> QED BY <1>1, <1>2

LEMMA SetRulesDoes ==
  ASSUME NEW a, NEW f, NEW T, Sound(a, f, T), NEW n, NEW rules, NEW r, r = setAccessRoleRules(a, n, rules)
  PROVE  Does(a, r, f, T)
<1>1. CASE a.backend = "files"
  BY <1>1, RefusedDoes DEF setAccessRoleRules, Refused
<1>2. CASE a.backend # "files"
  <2>1. PICK kept : kept = SubSeq(rules, 1, Distinct(rules))
    OBVIOUS
  <2>2. PICK y : y = IF kept = <<>> THEN Del(a.db["access"], n) ELSE Put(a.db["access"], n, kept)
    OBVIOUS
  <2>3. sqlSetAccessRoleRules(a, n, rules) = WithTable(a, "access", y)
    BY <2>1, <2>2 DEF sqlSetAccessRoleRules, WithTable
  <2>4. CASE Distinct(rules) < Len(rules)
    <3>1. PICK b : b = WithTable(a, "access", y)
      OBVIOUS
    <3>2. r.a = b /\ ~r.ok
      BY <1>2, <2>3, <2>4, <3>1 DEF setAccessRoleRules, Refused
    <3>3. /\ IsManager(b) /\ SameRest(a, b) /\ b.files = a.files /\ b.cache = a.cache
          /\ \A q \in Tables \ {"access"} : b.db[q] = a.db[q]
      BY <3>1, TablePart DEF Sound, Tables
    <3>4. UsersAreUsers(b)
      <4>1. b.db["users"] = a.db["users"]
        BY <3>3 DEF Tables
      <4> QED BY <4>1 DEF UsersAreUsers, Sound
    <3>5. Sound(b, f, T \ {"access"})
      BY <1>2, <3>3, <3>4, TableChanged DEF Tables
    <3>6. ASSUME b.db = a.db PROVE Sound(b, f, T)
      <4>1. StoreOf(b, f) = StoreOf(a, f)
        BY <3>3, <3>6 DEF StoreOf, SameRest
      <4>2. ListsAreRight(b, StoreOf(b, f), T)
        BY <3>3, <4>1 DEF Sound, ListsAreRight
      <4>3. T # {} => T \ {"access"} # {}
        BY DEF Sound
      <4> QED BY <3>5, <4>2, <4>3 DEF Sound
    <3> QED BY <3>2, <3>3, <3>5, <3>6 DEF Does
  <2>5. CASE ~(Distinct(rules) < Len(rules))
    <3>1. r.a = WithPart(WithTable(a, "access", y), "access", <<>>)
      BY <1>2, <2>3, <2>5 DEF setAccessRoleRules, Changed, WithPart
    <3>2. SameRest(a, r.a) /\ Sound(r.a, f, T)
      BY <1>2, <3>1, ForgottenTable DEF Tables
    <3> QED BY <3>2, SoundDoes
  <2> QED BY <2>4, <2>5
<1> QED BY <1>1, <1>2

(***************************************************************************)
(* The lists are saved to files.  What was read of these stays, and so     *)
(* does the cache.                                                         *)
(***************************************************************************)
NewName(tbl) == Head(FileNames[tbl])
OldName(tbl) == Last(FileNames[tbl])
LEMMA NamesOfFiles ==
  ASSUME NEW p \in Tables, NEW q \in Tables, p # q
  PROVE  NewName(p) # NewName(q) /\ NewName(p) # OldName(q)
<1>1. /\ NewName("mounts") = "mounts.cpon" /\ OldName("mounts") = "fstab.cpon"
      /\ NewName("users") = "users.cpon" /\ OldName("users") = "users.cpon"
      /\ NewName("roles") = "roles.cpon" /\ OldName("roles") = "grants.cpon"
      /\ NewName("access") = "access.cpon" /\ OldName("access") = "paths.cpon"
  BY DEF NewName, OldName, FileNames, Last
<1> QED BY <1>1 DEF Tables

WithFile(a, tbl, v) == [a EXCEPT !.files = Put(@, NewName(tbl), v)]
Saves(a, b, f, T) == SameRest(a, b) /\ b.db = a.db /\ Sound(b, f, T)

LEMMA FileSaves ==
  ASSUME NEW a, NEW f, NEW T, Sound(a, f, T), NEW tbl \in Tables,
         a.backend = "files" => tbl \in DOMAIN a.cache.files, NEW v, NEW b, b = WithFile(a, tbl, v)
  PROVE  Saves(a, b, f, T)
<1> DEFINE st == StoreOf(a, f)
<1>1. IsManager(a)
  BY DEF Sound
<1>2. PICK x : x = Put(a.files, NewName(tbl), v)
  OBVIOUS
<1>3. /\ IsManager(b) /\ SameRest(a, b) /\ b.files = x /\ b.db = a.db /\ b.cache = a.cache
  BY <1>1, <1>2 DEF WithFile, IsManager, SameRest, Fields
<1>4. /\ DOMAIN x = DOMAIN a.files \cup {NewName(tbl)}
      /\ \A n \in DOMAIN a.files : n # NewName(tbl) => x[n] = a.files[n]
  BY <1>2 DEF Put
<1>5. configFile(x, tbl) \in DOMAIN x
  BY <1>4 DEF configFile, NewName
<1>6. ASSUME NEW q \in Tables, q # tbl
      PROVE  /\ configFile(x, q) = configFile(a.files, q) /\ configFile(x, q) # NewName(tbl)
             /\ configFile(a.files, q) \in DOMAIN a.files =>
                  x[configFile(x, q)] = a.files[configFile(a.files, q)] /\ configFile(x, q) \in DOMAIN x
  <2>1. NewName(tbl) # NewName(q) /\ NewName(tbl) # OldName(q)
    BY <1>6, NamesOfFiles
  <2>2. NewName(q) \in DOMAIN x <=> NewName(q) \in DOMAIN a.files
    BY <1>4, <2>1
  <2>3. configFile(x, q) = configFile(a.files, q) /\ configFile(x, q) # NewName(tbl)
    BY <2>1, <2>2 DEF configFile, NewName, OldName
  <2> QED BY <1>4, <2>3
<1>7. FilesAreThere(b)
  BY <1>3, <1>5, <1>6 DEF Sound, FilesAreThere, SameRest
<1>8. StoreOf(b, f) = st
  BY <1>3 DEF StoreOf, SameRest
<1>9. a.backend = "files" => \A q \in Tables : aclConfig(b, q) = aclConfig(a, q)
  <2> SUFFICES ASSUME a.backend = "files", NEW q \in Tables PROVE aclConfig(b, q) = aclConfig(a, q)
    OBVIOUS
  <2>1. CASE q = tbl
    BY <1>3, <2>1 DEF aclConfig
  <2>2. CASE q # tbl
    <3>1. b.files[configFile(b.files, q)] = a.files[configFile(a.files, q)]
      BY <1>3, <1>6, <2>2 DEF Sound, FilesAreThere
    <3> QED BY <1>3, <3>1 DEF aclConfig, loadAclConfig
  <2> QED BY <2>1, <2>2
<1>10. T # {} => SameStore(b, st)
  BY <1>3, <1>9 DEF Sound, SameStore, SameRest
<1>11. ListsAreRight(b, st, T)
  BY <1>3 DEF Sound, ListsAreRight
<1>12. T # {} => FlatIsRight(b, st)
  BY <1>3, SameStand DEF Sound, FlatIsRight
<1>13. UsersAreUsers(b)
  BY <1>3 DEF Sound, UsersAreUsers
<1> QED BY <1>3, <1>7, <1>8, <1>10, <1>11, <1>12, <1>13 DEF Saves, Sound

LEMMA SavesAgain ==
  ASSUME NEW a, NEW b, NEW c, NEW f, NEW T, Saves(a, b, f, T), Saves(b, c, f, T)
  PROVE  Saves(a, c, f, T)
  BY DEF Saves, SameRest

LEMMA ReadsSaves ==
  ASSUME NEW a, NEW b, NEW f, NEW T, Reads(a, b, f, T)
  PROVE  Saves(a, b, f, T)
  BY DEF Saves, Reads

LEMMA SavesDoes ==
  ASSUME NEW a, NEW f, NEW T, NEW r, Saves(a, r.a, f, T)
  PROVE  Does(a, r, f, T)
  BY SoundDoes DEF Saves

LEMMA SavedSaves ==
  ASSUME NEW a, NEW f, NEW T, Sound(a, f, T), NEW tbl \in Tables, NEW x, IsList(a, f, T, tbl, x),
         NEW r, r = Saved(a, tbl, x)
  PROVE  Saves(a, r.a, f, T) /\ r.ok
<1>1. PICK v : v = Map([n \in DOMAIN x |-> Written(tbl, x[n])])
  OBVIOUS
<1>2. PICK b : b = WithPart(a, tbl, x)
  OBVIOUS
<1>3. r.a = WithFile(b, tbl, v) /\ r.ok
  BY <1>1, <1>2 DEF Saved, Result, WithFile, WithPart, NewName
<1>4. /\ Reads(a, b, f, T) /\ \A p \in CacheFields \ {tbl} : b.cache[p] = a.cache[p]
  BY <1>2, TableReads
<1>5. b.backend = "files" => tbl \in DOMAIN b.cache.files
  BY <1>4 DEF IsList, CacheFields, Tables, Reads, SameRest
<1>6. Saves(b, r.a, f, T)
  BY <1>3, <1>4, <1>5, FileSaves DEF Reads
<1> QED BY <1>3, <1>4, <1>6, ReadsSaves, SavesAgain

\* The names of a list with what is stored for each of them.
LEMMA WholeList ==
  ASSUME NEW b, NEW f, NEW T, Sound(b, f, T), NEW tbl \in Tables,
         b.backend = "files" => tbl \in DOMAIN b.cache.files,
         tbl \in T => DOMAIN b.cache[tbl] = Keys(StoreOf(b, f), tbl),
         NEW x, DOMAIN x = DOMAIN b.cache[tbl],
         tbl \in T => \A n \in Keys(StoreOf(b, f), tbl) : x[n] = InStore(StoreOf(b, f), tbl, n),
         NEW r, r = Saved(b, tbl, x)
  PROVE  Saves(b, r.a, f, T) /\ r.ok
<1>1. IsList(b, f, T, tbl, x)
  BY DEF IsList
<1> QED BY <1>1, SavedSaves

LEMMA MountsSave ==
  ASSUME NEW a, NEW f, NEW T, Sound(a, f, T), NEW r, r = saveMounts(a)
  PROVE  Saves(a, r.a, f, T)
<1>1. PICK b : b = Listed(a, "mounts", NoMountDef)
  OBVIOUS
<1>2. /\ Reads(a, b, f, T)
      /\ a.backend = "files" => "mounts" \in DOMAIN b.cache["files"]
      /\ "mounts" \in T => DOMAIN b.cache["mounts"] = Keys(StoreOf(a, f), "mounts")
  BY <1>1, ListedReads, UnsetIsUnknown
<1>3. StoreOf(b, f) = StoreOf(a, f) /\ Sound(b, f, T) /\ b.backend = a.backend
  BY <1>2, ReadsStore DEF Reads, SameRest
<1>4. PICK x : x = [n \in DOMAIN b.cache["mounts"] |-> mountDef(b, n).v]
  OBVIOUS
<1>5. ASSUME "mounts" \in T, NEW n \in Keys(StoreOf(b, f), "mounts")
      PROVE  x[n] = InStore(StoreOf(b, f), "mounts", n)
  <2>1. mountDef(b, n).v = MountOf(StoreOf(b, f), n)
    BY <1>3, <1>5, MountIsRead
  <2> QED BY <1>2, <1>3, <1>4, <1>5, <2>1 DEF MountOf, InStore
<1>6. r = Saved(b, "mounts", x)
  BY <1>1, <1>4 DEF saveMounts, SavedMounts, mountDeviceIds
<1>7. Saves(b, r.a, f, T)
  BY <1>2, <1>3, <1>4, <1>5, <1>6, WholeList DEF Tables
<1> QED BY <1>2, <1>7, ReadsSaves, SavesAgain

LEMMA UsersSave ==
  ASSUME NEW a, NEW f, NEW T, Sound(a, f, T), NEW r, r = saveUsers(a)
  PROVE  Saves(a, r.a, f, T)
<1>1. PICK b : b = Listed(a, "users", NoUser)
  OBVIOUS
<1>2. /\ Reads(a, b, f, T)
      /\ a.backend = "files" => "users" \in DOMAIN b.cache["files"]
      /\ "users" \in T => DOMAIN b.cache["users"] = Keys(StoreOf(a, f), "users")
  BY <1>1, ListedReads, UnsetIsUnknown
<1>3. StoreOf(b, f) = StoreOf(a, f) /\ Sound(b, f, T) /\ b.backend = a.backend
  BY <1>2, ReadsStore DEF Reads, SameRest
<1>4. PICK x : x = [n \in DOMAIN b.cache["users"] |-> user(b, n).v]
  OBVIOUS
<1>5. ASSUME "users" \in T, NEW n \in Keys(StoreOf(b, f), "users")
      PROVE  x[n] = InStore(StoreOf(b, f), "users", n)
  <2>1. user(b, n).v = UserOf(StoreOf(b, f), n)
    BY <1>3, <1>5, UserIsRead
  <2> QED BY <1>2, <1>3, <1>4, <1>5, <2>1 DEF UserOf, InStore
<1>6. r = Saved(b, "users", x)
  BY <1>1, <1>4 DEF saveUsers, SavedUsers, users
<1>7. Saves(b, r.a, f, T)
  BY <1>2, <1>3, <1>4, <1>5, <1>6, WholeList DEF Tables
<1> QED BY <1>2, <1>7, ReadsSaves, SavesAgain

LEMMA AccessSaves ==
  ASSUME NEW a, NEW f, NEW T, Sound(a, f, T), NEW r, r = saveAccess(a)
  PROVE  Saves(a, r.a, f, T)
<1>1. PICK b : b = Listed(a, "access", NotLoaded)
  OBVIOUS
<1>2. /\ Reads(a, b, f, T)
      /\ a.backend = "files" => "access" \in DOMAIN b.cache["files"]
      /\ "access" \in T => DOMAIN b.cache["access"] = Keys(StoreOf(a, f), "access")
  BY <1>1, ListedReads, UnsetIsUnknown
<1>3. StoreOf(b, f) = StoreOf(a, f) /\ Sound(b, f, T) /\ b.backend = a.backend
  BY <1>2, ReadsStore DEF Reads, SameRest
<1>4. PICK x : x = [n \in DOMAIN b.cache["access"] |-> [rules |-> accessRoleRules(b, n).v, loaded |-> TRUE]]
  OBVIOUS
<1>5. ASSUME "access" \in T, NEW n \in Keys(StoreOf(b, f), "access")
      PROVE  x[n] = InStore(StoreOf(b, f), "access", n)
  <2>1. accessRoleRules(b, n).v = RulesOfRole(StoreOf(b, f), n)
    BY <1>3, <1>5, RulesAreRead
  <2> QED BY <1>2, <1>3, <1>4, <1>5, <2>1 DEF RulesOfRole, InStore
<1>6. r = Saved(b, "access", x)
  BY <1>1, <1>4 DEF saveAccess, SavedAccess, accessRoles
<1>7. Saves(b, r.a, f, T)
  BY <1>2, <1>3, <1>4, <1>5, <1>6, WholeList DEF Tables
<1> QED BY <1>2, <1>7, ReadsSaves, SavesAgain

LEMMA RolesSave ==
  ASSUME NEW a, NEW f, NEW T, Sound(a, f, T), NEW r, r = saveRoles(a)
  PROVE  Saves(a, r.a, f, T)
<1>1. PICK b : b = Listed(a, "roles", NoRole)
  OBVIOUS
<1>2. /\ Reads(a, b, f, T)
      /\ a.backend = "files" => "roles" \in DOMAIN b.cache["files"]
  BY <1>1, ListedReads, UnsetIsUnknown
<1>3. Sound(b, f, T) /\ b.backend = a.backend
  BY <1>2 DEF Reads, SameRest
<1>4. PICK v : v = Map([n \in DOMAIN b.cache["roles"] |-> RoleToRpcValue(role(b, n).v)])
  OBVIOUS
<1>5. NewName("roles") = "roles.cpon"
  BY DEF NewName, FileNames
<1>6. r.a = WithFile(b, "roles", v)
  BY <1>1, <1>4, <1>5 DEF saveRoles, SavedRoles, roles, Result, WithFile
<1>7. Saves(b, r.a, f, T)
  BY <1>2, <1>3, <1>6, FileSaves DEF Tables
<1> QED BY <1>2, <1>7, ReadsSaves, SavesAgain

LEMMA AllSave ==
  ASSUME NEW a, NEW f, NEW T, Sound(a, f, T), NEW r, r = saveToConfigFiles(a)
  PROVE  Saves(a, r.a, f, T)
<1>1. PICK b : b = saveMounts(a).a
  OBVIOUS
<1>2. PICK c : c = saveUsers(b).a
  OBVIOUS
<1>3. PICK d : d = saveRoles(c).a
  OBVIOUS
<1>4. r = saveAccess(d)
  BY <1>1, <1>2, <1>3 DEF saveToConfigFiles
<1>5. Saves(a, b, f, T)
  BY <1>1, MountsSave
<1>6. Saves(b, c, f, T)
  BY <1>2, <1>5, UsersSave DEF Saves
<1>7. Saves(c, d, f, T)
  BY <1>3, <1>6, RolesSave DEF Saves
<1>8. Saves(d, r.a, f, T)
  BY <1>4, <1>7, AccessSaves DEF Saves
<1> QED BY <1>5, <1>6, <1>7, <1>8, SavesAgain

(***************************************************************************)
(* The calls of the nodes.                                                 *)
(***************************************************************************)
LEMMA SetDoes ==
  ASSUME NEW a, NEW f, NEW T, NEW x, Does(a, x, f, T)
  PROVE  Does(a, Set(x), f, T)
<1>1. Set(x).a = x.a /\ (Set(x).ok <=> x.ok)
  BY DEF Set, Result
<1> QED BY <1>1 DEF Does

LEMMA ThrowDoes ==
  ASSUME NEW a, NEW f, NEW T, Sound(a, f, T)
  PROVE  Does(a, Throw(a), f, T)
<1>1. Throw(a).a = a
  BY DEF Throw, Result
<1> QED BY <1>1, RefusedDoes

LEMMA ResultDoes ==
  ASSUME NEW a, NEW f, NEW T, NEW b, Reads(a, b, f, T), NEW ok, NEW v
  PROVE  Does(a, Result(b, ok, v), f, T)
<1>1. Result(b, ok, v).a = b
  BY DEF Result
<1> QED BY <1>1, ReadsDoes

LEMMA MountValueDoes ==
  ASSUME NEW a, NEW f, NEW T, Sound(a, f, T), NEW params
  PROVE  Does(a, setMountValue(a, params), f, T)
<1>1. \/ setMountValue(a, params) = Throw(a)
      \/ setMountValue(a, params) =
           Set(setMountDef(a, Item(params, 1).s, MountDefFromRpcValue(Item(params, 2))))
  BY DEF setMountValue
<1> QED BY <1>1, ThrowDoes, SetMountDoes, SetDoes

LEMMA UserValueDoes ==
  ASSUME NEW a, NEW f, NEW T, Sound(a, f, T), NEW params
  PROVE  Does(a, setUserValue(a, params), f, T)
<1>1. \/ setUserValue(a, params) = Throw(a)
      \/ setUserValue(a, params) =
           Set(setUser(a, Item(params, 1).s, UserFromRpcValue(Item(params, 2))))
  BY DEF setUserValue
<1> QED BY <1>1, ThrowDoes, SetUserDoes, SetDoes

LEMMA AccessValueDoes ==
  ASSUME NEW a, NEW f, NEW T, Sound(a, f, T), NEW params
  PROVE  Does(a, setAccessValue(a, params), f, T)
<1>1. \/ setAccessValue(a, params) = Throw(a)
      \/ setAccessValue(a, params) =
           Set(setAccessRoleRules(a, Item(params, 1).s, RulesFromRpcValue(Item(params, 2))))
  BY DEF setAccessValue
<1> QED BY <1>1, ThrowDoes, SetRulesDoes, SetDoes

LEMMA RoleValueDoes ==
  ASSUME NEW a, NEW f, NEW T, Sound(a, f, T), NEW params
  PROVE  Does(a, setRoleValue(a, params), f, T)
<1>1. PICK exists : exists = (Item(params, 2).t # "Null")
  OBVIOUS
<1>2. \/ setRoleValue(a, params) = Throw(a)
      \/ setRoleValue(a, params) =
           Set(setRole(a, Item(params, 1).s, exists, RoleFromRpcValue(Item(params, 2))))
  BY <1>1 DEF setRoleValue
<1> HIDE <1>1
<1> QED BY <1>2, ThrowDoes, SetRoleDoes, SetDoes

LEMMA MountsNodeDoes ==
  ASSUME NEW a, NEW f, NEW T, Sound(a, f, T), NEW e, Reads(a, e.a, f, T),
         NEW rest, NEW method, NEW params, NEW r, r = MountsNodeCall(a, e, rest, method, params)
  PROVE  Does(a, r, f, T)
<1>1. PICK p : p = List(<<Text(rest[1]), MountDefToRpcValue([e.v EXCEPT ![rest[2]] = params.s])>>)
  OBVIOUS
<1>2. PICK v : v = MountDefToRpcValue(e.v)
  OBVIOUS
<1>3. PICK w : w = Text(e.v[rest[2]])
  OBVIOUS
<1>4. \/ r = setMountValue(a, params) \/ r = saveMounts(a) \/ r = Result(e.a, TRUE, v)
      \/ r = Result(e.a, TRUE, w) \/ r = setMountValue(e.a, p) \/ r = Throw(a)
  BY <1>1, <1>2, <1>3 DEF MountsNodeCall
<1>5. Sound(e.a, f, T)
  BY DEF Reads
<1> QED BY <1>4, <1>5, MountValueDoes, MountsSave, SavesDoes, ResultDoes, DoesAfter, ThrowDoes

LEMMA RolesNodeDoes ==
  ASSUME NEW a, NEW f, NEW T, Sound(a, f, T), NEW e, Reads(a, e.a, f, T),
         NEW rest, NEW method, NEW params, NEW r, r = RolesNodeCall(a, e, rest, method, params)
  PROVE  Does(a, r, f, T)
<1>1. PICK p : p = List(<<Text(rest[1]), RoleToRpcValue(
                     IF rest[2] = "roles" THEN [e.v EXCEPT !.roles = Names(params)]
                     ELSE [e.v EXCEPT !.profile = params])>>)
  OBVIOUS
<1>2. PICK v : v = RoleToRpcValue(e.v)
  OBVIOUS
<1>3. PICK w : w = IF rest[2] = "roles" THEN NameList(e.v.roles) ELSE e.v.profile
  OBVIOUS
<1>4. \/ r = setRoleValue(a, params) \/ r = saveRoles(a) \/ r = Result(e.a, TRUE, v)
      \/ r = Result(e.a, TRUE, w) \/ r = setRoleValue(e.a, p) \/ r = Throw(a)
  BY <1>1, <1>2, <1>3 DEF RolesNodeCall
<1>5. Sound(e.a, f, T)
  BY DEF Reads
<1> QED BY <1>4, <1>5, RoleValueDoes, RolesSave, SavesDoes, ResultDoes, DoesAfter, ThrowDoes

LEMMA UsersNodeDoes ==
  ASSUME NEW a, NEW f, NEW T, Sound(a, f, T), NEW e, Reads(a, e.a, f, T),
         NEW rest, NEW method, NEW params, NEW r, r = UsersNodeCall(a, e, rest, method, params)
  PROVE  Does(a, r, f, T)
<1>1. PICK p : p = List(<<Text(rest[1]), UserToRpcValue(WithProperty(e.v, rest[2], params))>>)
  OBVIOUS
<1>2. PICK v : v = UserToRpcValue(e.v)
  OBVIOUS
<1>3. PICK w : w = CASE rest[2] = "password" -> Text(e.v.password.password)
                     [] rest[2] = "passwordFormat" -> Text(e.v.password.format)
                     [] rest[2] = "roles" -> NameList(e.v.roles)
  OBVIOUS
<1>4. \/ r = setUserValue(a, params) \/ r = saveUsers(a) \/ r = Result(e.a, TRUE, v)
      \/ r = Result(e.a, TRUE, w) \/ r = setUserValue(e.a, p) \/ r = Throw(a)
  BY <1>1, <1>2, <1>3 DEF UsersNodeCall
<1>5. Sound(e.a, f, T)
  BY DEF Reads
<1> QED BY <1>4, <1>5, UserValueDoes, UsersSave, SavesDoes, ResultDoes, DoesAfter, ThrowDoes

LEMMA RuleCallDoes ==
  ASSUME NEW a, NEW f, NEW T, NEW e, Reads(a, e.a, f, T),
         NEW name, NEW i, NEW method, NEW params, NEW r, r = RuleCall(e, name, i, method, params)
  PROVE  Does(a, r, f, T)
<1>1. \/ r = Get(e.a, e.v[i + 1][RuleFields[method]])
      \/ r = setAccessValue(e.a, List(<<Text(name),
               RuleToRpcValue([e.v[i + 1] EXCEPT ![RuleSetters[method]] = params.s])>>))
      \/ r = Throw(e.a)
  BY DEF RuleCall
<1>2. \A x : Does(a, Get(e.a, x), f, T)
  BY ResultDoes DEF Get
<1>3. Sound(e.a, f, T)
  BY DEF Reads
<1>4. \A x : Does(a, setAccessValue(e.a, x), f, T)
  BY <1>3, AccessValueDoes, DoesAfter
<1>5. Does(a, Throw(e.a), f, T)
  BY <1>3, ThrowDoes, DoesAfter
<1> QED BY <1>1, <1>2, <1>4, <1>5

LEMMA AccessNodeDoes ==
  ASSUME NEW a, NEW f, NEW T, Sound(a, f, T), NEW e, Reads(a, e.a, f, T),
         NEW rest, NEW method, NEW params, NEW r, r = AccessNodeCall(a, e, rest, method, params)
  PROVE  Does(a, r, f, T)
<1>1. PICK x : x = Result(e.a, TRUE, RulesToRpcValue(e.v))
  OBVIOUS
<1>2. PICK y : y = RuleCall(e, rest[1], keyToRuleIndex(rest[2]), method, params)
  OBVIOUS
<1>3. r = setAccessValue(a, params) \/ r = saveAccess(a) \/ r = x \/ r = y \/ r = Throw(a)
  <2>1. CASE Len(rest) = 2
    <3>1. rest # <<>>
      BY <2>1
    <3> QED BY <1>1, <1>2, <2>1, <3>1 DEF AccessNodeCall
  <2>2. CASE Len(rest) # 2
    BY <1>1, <1>2, <2>2 DEF AccessNodeCall
  <2> QED BY <2>1, <2>2
<1>4. Does(a, x, f, T)
  BY <1>1, ResultDoes
<1>5. Does(a, y, f, T)
  BY <1>2, RuleCallDoes
<1> QED BY <1>3, <1>4, <1>5, AccessValueDoes, AccessSaves, SavesDoes, ThrowDoes

LEMMA AclNodeDoes ==
  ASSUME NEW a, NEW f, NEW T, Sound(a, f, T), NEW tbl \in Tables,
         NEW rest, NEW method, NEW params, NEW r, r = AclNodeCall(a, tbl, rest, method, params)
  PROVE  Does(a, r, f, T)
<1>1. Reads(a, NoEntry(a).a, f, T)
  BY ReadsNothing DEF NoEntry
<1>2. CASE tbl = "mounts"
  <2>1. PICK e : e = IF rest = <<>> THEN NoEntry(a) ELSE mountDef(a, Head(rest))
    OBVIOUS
  <2>2. Reads(a, e.a, f, T)
    BY <1>1, <2>1, MountIsRead
  <2>3. r = MountsNodeCall(a, e, rest, method, params)
    BY <1>2, <2>1 DEF AclNodeCall, MountsCall
  <2> QED BY <2>2, <2>3, MountsNodeDoes
<1>3. CASE tbl = "users"
  <2>1. PICK e : e = IF rest = <<>> THEN NoEntry(a) ELSE user(a, Head(rest))
    OBVIOUS
  <2>2. Reads(a, e.a, f, T)
    BY <1>1, <2>1, UserIsRead
  <2>3. r = UsersNodeCall(a, e, rest, method, params)
    BY <1>3, <2>1 DEF AclNodeCall, UsersCall
  <2> QED BY <2>2, <2>3, UsersNodeDoes
<1>4. CASE tbl = "roles"
  <2>1. PICK e : e = IF rest = <<>> THEN NoEntry(a) ELSE role(a, Head(rest))
    OBVIOUS
  <2>2. Reads(a, e.a, f, T)
    BY <1>1, <2>1, RoleIsRead
  <2>3. r = RolesNodeCall(a, e, rest, method, params)
    BY <1>4, <2>1 DEF AclNodeCall, RolesCall
  <2> QED BY <2>2, <2>3, RolesNodeDoes
<1>5. CASE tbl = "access"
  <2>1. PICK e : e = IF rest = <<>> THEN NoEntry(a) ELSE accessRoleRules(a, Head(rest))
    OBVIOUS
  <2>2. Reads(a, e.a, f, T)
    BY <1>1, <2>1, RulesAreRead
  <2>3. r = AccessNodeCall(a, e, rest, method, params)
    BY <1>5, <2>1 DEF AclNodeCall, AccessCall
  <2> QED BY <2>2, <2>3, AccessNodeDoes
<1> QED BY <1>2, <1>3, <1>4, <1>5 DEF Tables

LEMMA NamesOfNodes ==
  ASSUME NEW a, NEW f, NEW T, Sound(a, f, T), NEW tbl, NEW rest
  PROVE  Reads(a, childNames(a, tbl, rest), f, T)
<1>1. \/ childNames(a, tbl, rest) = mountDeviceIds(a) \/ childNames(a, tbl, rest) = users(a)
      \/ childNames(a, tbl, rest) = roles(a) \/ childNames(a, tbl, rest) = accessRoles(a)
      \/ childNames(a, tbl, rest) = accessRoleRules(a, rest[1]).a \/ childNames(a, tbl, rest) = a
  BY DEF childNames
<1> QED BY <1>1, NamesAreRead, RulesAreRead, ReadsNothing

\* A connection has the name of somebody it has tried to log in or a directory has named.
IsName(a, n) == n \in LoginNames \cup DOMAIN a.ldap \cup DOMAIN a.azure

\* The roles of a user under the keys of the directories: those a directory has given are there.
LEMMA OwnRolesAreKept ==
  ASSUME NEW a, NEW f, NEW T, Sound(a, f, T), NEW n, IsName(a, n),
         T # {} => HasRoles(a, StoreOf(a, f), n),
         NEW key, key = <<"ldap", n>> \/ key = <<"azure", n>>,
         NEW rs, T # {} => rs = UserOf(StoreOf(a, f), n).roles,
         NEW e, e = userFlattenRoles(a, key, rs)
  PROVE  /\ Reads(a, e.a, f, T)
         /\ \A k \in DOMAIN a.cache.flat : k \in DOMAIN e.a.cache.flat
<1> DEFINE st == StoreOf(a, f)
<1>1. CASE key \in DOMAIN a.cache.flat
  <2>1. e.a = a
    BY <1>1 DEF userFlattenRoles
  <2> QED BY <2>1, ReadsNothing
<1>2. CASE key \notin DOMAIN a.cache.flat
  <2>1. T # {} => StandFor(a, st, key, RolesOf(st, rs).v)
    <3> SUFFICES ASSUME T # {} PROVE StandFor(a, st, key, RolesOf(st, rs).v)
      OBVIOUS
    <3>1. HasRoles(a, st, n)
      OBVIOUS
    <3>2. CASE key = <<"ldap", n>>
      BY <1>2, <3>1, <3>2 DEF StandFor, UserKey, HasRoles, IsName
    <3>3. CASE key = <<"azure", n>>
      BY <1>2, <3>1, <3>3 DEF StandFor, UserKey, HasRoles, IsName
    <3> QED BY <3>2, <3>3
  <2> QED BY <2>1, FlattenReads
<1> QED BY <1>1, <1>2

LEMMA HasRolesAfter ==
  ASSUME NEW a, NEW b, NEW f, NEW T, Reads(a, b, f, T), NEW n, IsName(a, n),
         T # {} => HasRoles(a, StoreOf(a, f), n),
         \A k \in DOMAIN a.cache.flat : k \in DOMAIN b.cache.flat
  PROVE  IsName(b, n) /\ (T # {} => HasRoles(b, StoreOf(b, f), n))
<1>1. StoreOf(b, f) = StoreOf(a, f) /\ b.ldap = a.ldap /\ b.azure = a.azure
  BY ReadsStore DEF Reads, SameRest
<1> QED BY <1>1 DEF IsName, HasRoles

LEMMA UserRolesDoes ==
  ASSUME NEW a, NEW f, NEW T, Sound(a, f, T), NEW n, IsName(a, n),
         T # {} => HasRoles(a, StoreOf(a, f), n)
  PROVE  Does(a, userRoles(a, n), f, T)
<1>1. PICK u : u = user(a, n)
  OBVIOUS
<1>2. PICK rs : rs = u.v.roles
  OBVIOUS
<1>3. PICK g : g = userFlattenRoles(u.a, UserKey(n), rs)
  OBVIOUS
<1>4. PICK l : l = userFlattenRoles(g.a, <<"ldap", n>>, rs)
  OBVIOUS
<1>5. PICK z : z = userFlattenRoles(l.a, <<"azure", n>>, rs)
  OBVIOUS
<1>6. userRoles(a, n) = Joined(g, l, z)
  BY <1>1, <1>2, <1>3, <1>4, <1>5
     DEF userRoles, OwnAndDirectoryRoles, WithLdap, WithAzure, UserRoles, ldapUserFlattenRoles,
         azureUserFlattenRoles
<1>7. /\ Reads(a, u.a, f, T) /\ u.a.cache.flat = a.cache.flat
      /\ T # {} => rs = UserOf(StoreOf(a, f), n).roles
  BY <1>1, <1>2, UserIsRead DEF Sound
<1>8. /\ IsName(u.a, n) /\ (T # {} => HasRoles(u.a, StoreOf(u.a, f), n))
      /\ StoreOf(u.a, f) = StoreOf(a, f) /\ Sound(u.a, f, T)
  BY <1>7, HasRolesAfter, ReadsStore DEF Reads
<1>9. /\ Reads(u.a, g.a, f, T) /\ \A k \in DOMAIN u.a.cache.flat : k \in DOMAIN g.a.cache.flat
  BY <1>3, <1>7, <1>8, UserRolesAreRead
<1>10. /\ IsName(g.a, n) /\ (T # {} => HasRoles(g.a, StoreOf(g.a, f), n))
       /\ StoreOf(g.a, f) = StoreOf(a, f) /\ Sound(g.a, f, T)
  BY <1>8, <1>9, HasRolesAfter, ReadsStore DEF Reads
<1>11. /\ Reads(g.a, l.a, f, T) /\ \A k \in DOMAIN g.a.cache.flat : k \in DOMAIN l.a.cache.flat
  <2>1. PICK key : key = <<"ldap", n>>
    OBVIOUS
  <2> QED BY <1>4, <1>7, <1>10, <2>1, OwnRolesAreKept
<1>12. /\ IsName(l.a, n) /\ (T # {} => HasRoles(l.a, StoreOf(l.a, f), n))
       /\ StoreOf(l.a, f) = StoreOf(a, f) /\ Sound(l.a, f, T)
  BY <1>10, <1>11, HasRolesAfter, ReadsStore DEF Reads
<1>13. Reads(l.a, z.a, f, T)
  <2>1. PICK key : key = <<"azure", n>>
    OBVIOUS
  <2> QED BY <1>5, <1>7, <1>12, <2>1, OwnRolesAreKept
<1>14. Reads(a, g.a, f, T) /\ Reads(a, z.a, f, T)
  BY <1>7, <1>9, <1>11, <1>13, ReadsAgain
<1>15. Joined(g, l, z).a = g.a \/ Joined(g, l, z).a = z.a
  BY DEF Joined, Throw, Result
<1> QED BY <1>6, <1>14, <1>15, ReadsDoes

LEMMA UserProfileReads ==
  ASSUME NEW a, NEW f, NEW T, Sound(a, f, T), NEW n
  PROVE  /\ Does(a, Profile(userProfile(a, n)), f, T)
         /\ Does(a, RoleAnswer(UserRoles(user(a, n), n)), f, T)
<1>1. PICK u : u = user(a, n)
  OBVIOUS
<1>2. PICK g : g = UserRoles(u, n)
  OBVIOUS
<1>3. Reads(a, u.a, f, T) /\ (T # {} => u.v = UserOf(StoreOf(a, f), n))
  BY <1>1, UserIsRead DEF Sound
<1>4. StoreOf(u.a, f) = StoreOf(a, f) /\ Sound(u.a, f, T)
  BY <1>3, ReadsStore DEF Reads
<1>5. Reads(u.a, g.a, f, T)
  BY <1>2, <1>3, <1>4, UserRolesAreRead DEF UserRoles
<1>6. Reads(a, g.a, f, T) /\ Sound(g.a, f, T)
  BY <1>3, <1>5, ReadsAgain DEF Reads
<1>7. Reads(a, roles(g.a), f, T)
  BY <1>6, NamesAreRead, ReadsAgain
<1>8. Profile(userProfile(a, n)).a = g.a \/ Profile(userProfile(a, n)).a = roles(g.a)
  BY <1>1, <1>2 DEF userProfile, ProfileOf, Profile, Result
<1>9. RoleAnswer(UserRoles(user(a, n), n)).a = g.a
  BY <1>1, <1>2 DEF RoleAnswer, Result
<1> QED BY <1>6, <1>7, <1>8, <1>9, ReadsDoes

LEMMA AskDoes ==
  ASSUME NEW a, NEW f, NEW T, Sound(a, f, T), NEW n, NEW params
  PROVE  Does(a, Ask(a, n, params), f, T) /\ Does(a, createSubscription(a, n, params), f, T)
<1>1. \A path, method : Reads(a, UserGrant(a, n, path, method, NoGrant).a, f, T)
  BY UserGrantReads
<1>2. \A g : GrantAnswer(g).a = g.a /\ Subscribed(g).a = g.a
  BY DEF GrantAnswer, Subscribed, Result
<1>3. \/ Ask(a, n, params) = Throw(a)
      \/ Ask(a, n, params) = GrantAnswer(UserGrant(a, n, params.l[1].s, params.l[2].s, NoGrant))
  BY DEF Ask, UserGrant
<1>4. createSubscription(a, n, params) =
        Subscribed(UserGrant(a, n, FirstText(params, <<"paths", "path">>, <<>>),
                             FirstText(params, <<"signal", "methods", "method">>, ""), NoGrant))
  BY DEF createSubscription, UserGrant
<1>5. Does(a, Ask(a, n, params), f, T)
  BY <1>1, <1>2, <1>3, ReadsDoes, ThrowDoes
<1>6. Does(a, createSubscription(a, n, params), f, T)
  BY <1>1, <1>2, <1>4, ReadsDoes
<1> QED BY <1>5, <1>6

LEMMA ChangePasswordDoes ==
  ASSUME NEW a, NEW f, NEW T, Sound(a, f, T), NEW n, NEW params
  PROVE  Does(a, changePassword(a, n, params), f, T)
<1>1. PICK u : u = user(a, n)
  OBVIOUS
<1>2. Reads(a, u.a, f, T)
  BY <1>1, UserIsRead
<1>3. Sound(u.a, f, T)
  BY <1>2 DEF Reads
<1>4. \A x, p : Does(a, SetPassword(u.a, x, n, p), f, T)
  BY <1>2, <1>3, SetUserDoes, SetDoes, DoesAfter DEF SetPassword
<1>5. Does(a, Throw(u.a), f, T) /\ Does(a, Throw(a), f, T)
  BY <1>2, <1>3, ThrowDoes, DoesAfter
<1>6. \A old, new, current :
        \/ ChangeKnown(u, n, old, new, current) = Throw(u.a)
        \/ ChangeKnown(u, n, old, new, current) =
             SetPassword(u.a, u.v, n, [password |-> Hashed(new, current), format |-> "SHA1"])
  BY DEF ChangeKnown
<1>7. \A old, new, current : Does(a, ChangeKnown(u, n, old, new, current), f, T)
  BY <1>4, <1>5, <1>6
<1>8. \/ changePassword(a, n, params) = Throw(a)
      \/ changePassword(a, n, params) =
           ChangeKnown(u, n, params.l[1].s, params.l[2].s, Current(u.v.password))
  BY <1>1 DEF changePassword, ChangeOf
<1> QED BY <1>5, <1>7, <1>8

LEMMA CurrentClientDoes ==
  ASSUME NEW a, NEW f, NEW T, Sound(a, f, T), NEW n, IsName(a, n),
         T # {} => HasRoles(a, StoreOf(a, f), n),
         NEW method, NEW params
  PROVE  Does(a, CurrentClientCall(a, n, method, params), f, T)
<1>1. PICK x : x = Result(a, TRUE, Bool(TRUE))
  OBVIOUS
<1>2. \/ CurrentClientCall(a, n, method, params) = userRoles(a, n)
      \/ CurrentClientCall(a, n, method, params) = Profile(userProfile(a, n))
      \/ CurrentClientCall(a, n, method, params) = Ask(a, n, params)
      \/ CurrentClientCall(a, n, method, params) = changePassword(a, n, params)
      \/ CurrentClientCall(a, n, method, params) = x
  BY <1>1, Zenon DEF CurrentClientCall
<1>3. Does(a, x, f, T)
  BY <1>1, ReadsNothing, ResultDoes
<1> QED BY <1>2, <1>3, UserRolesDoes, UserProfileReads, AskDoes, ChangePasswordDoes

LEMMA AppDoes ==
  ASSUME NEW a, NEW f, NEW T, Sound(a, f, T), NEW n, NEW method, NEW params
  PROVE  Does(a, AppCall(a, n, method, params), f, T)
<1>1. \A v : Result(a, TRUE, v).a = a
  BY DEF Result
<1>2. AppCall(a, n, method, params) = createSubscription(a, n, params)
      \/ AppCall(a, n, method, params).a = a
  BY <1>1, Zenon DEF AppCall
<1> QED BY <1>2, AskDoes, RefusedDoes

LEMMA ClientConnectionDoes ==
  ASSUME NEW a, NEW f, NEW T, Sound(a, f, T), NEW n, NEW method
  PROVE  Does(a, ClientConnectionCall(a, n, method), f, T)
<1>1. \A v : Result(a, TRUE, v).a = a
  BY DEF Result
<1>2. \/ ClientConnectionCall(a, n, method) = RoleAnswer(UserRoles(user(a, n), n))
      \/ ClientConnectionCall(a, n, method) = Profile(userProfile(a, n))
      \/ ClientConnectionCall(a, n, method).a = a
  BY <1>1, Zenon DEF ClientConnectionCall
<1> QED BY <1>2, UserProfileReads, RefusedDoes

(***************************************************************************)
(* A whole request: the grant, the method, the call.                       *)
(***************************************************************************)
\* Only users ask the node of the client itself, after their roles were collected.
MayAsk(a, f, T, n, path) ==
  path = CurrentClientPath => IsName(a, n) /\ (T # {} => HasRoles(a, StoreOf(a, f), n))

LEMMA AclPaths ==
  ASSUME NEW path, IsAcl(path)
  PROVE  Below(path)[1] \in Tables
  BY DEF IsAcl

LEMMA CallDoes ==
  ASSUME NEW a, NEW f, NEW T, Sound(a, f, T), NEW n, NEW k, MayAsk(a, f, T, n, k.path)
  PROVE  Does(a, callMethod(a, n, k), f, T)
<1>1. PICK r : r = callMethod(a, n, k)
  OBVIOUS
<1>2. PICK tbl : tbl = Below(k.path)[1]
  OBVIOUS
<1>3. PICK rest : rest = Tail(Below(k.path))
  OBVIOUS
<1>4. PICK names : names = Result(childNames(a, tbl, rest), TRUE, Bool(TRUE))
  OBVIOUS
<1>5. PICK nothing : nothing = Result(a, TRUE, Bool(TRUE))
  OBVIOUS
<1>6. PICK m : m = conn[k.path[3]].user
  OBVIOUS
<1>7. Does(a, names, f, T) /\ Does(a, nothing, f, T)
  BY <1>4, <1>5, NamesOfNodes, ReadsNothing, ResultDoes
<1>8. \/ r = names \/ r = nothing
      \/ r = saveToConfigFiles(a)
      \/ IsAcl(k.path) /\ r = AclNodeCall(a, tbl, rest, k.method, k.params)
      \/ k.path = CurrentClientPath /\ r = CurrentClientCall(a, n, k.method, k.params)
      \/ r = AppCall(a, n, k.method, k.params)
      \/ r = ClientConnectionCall(a, m, k.method)
  <2>1. PICK kept : kept = saveToConfigFiles(a)
    OBVIOUS
  <2>2. PICK own : own = CurrentClientCall(a, n, k.method, k.params)
    OBVIOUS
  <2>3. PICK app : app = AppCall(a, n, k.method, k.params)
    OBVIOUS
  <2>4. PICK other : other = ClientConnectionCall(a, m, k.method)
    OBVIOUS
  <2>5. PICK acls : acls = AclNodeCall(a, tbl, rest, k.method, k.params)
    OBVIOUS
  <2>6. r = CASE k.method = "ls" /\ IsAcl(k.path) -> names
            [] (k.method \in DOMAIN DirLs /\ ~IsAcl(k.path)) \/ k.method = "dir" \/ k.path = DevicePath ->
                 nothing
            [] k.method \notin DOMAIN DirLs /\ k.path = AclPath -> kept
            [] k.method \notin DOMAIN DirLs /\ IsAcl(k.path) -> acls
            [] k.path = CurrentClientPath -> own
            [] k.path = AppPath -> app
            [] OTHER -> other
    BY <1>1, <1>2, <1>3, <1>4, <1>5, <1>6, <2>1, <2>2, <2>3, <2>4, <2>5, Zenon DEF callMethod
  <2>7. \/ r = names \/ r = nothing \/ r = kept
        \/ IsAcl(k.path) /\ r = acls
        \/ k.path = CurrentClientPath /\ r = own
        \/ r = app \/ r = other
    BY <2>6
  <2> QED BY <2>1, <2>2, <2>3, <2>4, <2>5, <2>7
<1>9. ASSUME r = saveToConfigFiles(a) PROVE Does(a, r, f, T)
  BY <1>9, AllSave, SavesDoes
<1>10. ASSUME IsAcl(k.path), r = AclNodeCall(a, tbl, rest, k.method, k.params)
       PROVE  Does(a, r, f, T)
  BY <1>2, <1>10, AclPaths, AclNodeDoes
<1>11. ASSUME k.path = CurrentClientPath, r = CurrentClientCall(a, n, k.method, k.params)
       PROVE  Does(a, r, f, T)
  BY <1>11, CurrentClientDoes DEF MayAsk
<1> QED BY <1>1, <1>7, <1>8, <1>9, <1>10, <1>11, AppDoes, ClientConnectionDoes

LEMMA RequestDoes ==
  ASSUME NEW a, NEW f, NEW T, Sound(a, f, T), NEW n, NEW k, NEW g,
         Reads(a, g.a, f, T), MayAsk(g.a, f, T, n, k.path)
  PROVE  Does(a, WithGrant(g, n, k), f, T)
<1>1. Sound(g.a, f, T)
  BY DEF Reads
<1>2. Does(a, Throw(g.a), f, T) /\ Does(a, callMethod(g.a, n, k), f, T)
  BY <1>1, ThrowDoes, CallDoes, DoesAfter
<1>3. WithGrant(g, n, k) = Throw(g.a) \/ WithGrant(g, n, k) = callMethod(g.a, n, k)
  BY DEF WithGrant, processRpcRequest
<1> QED BY <1>2, <1>3

UserRequest(a, n, k) == onRpcFrameReceived(a, n, k, FALSE, NoGrant)
MasterRequest(a, k, given) == onRpcFrameReceived(a, "", k, TRUE, given)

LEMMA UserRequestDoes ==
  ASSUME NEW a, NEW f, NEW T, Sound(a, f, T), NEW n, IsName(a, n), NEW k
  PROVE  Does(a, UserRequest(a, n, k), f, T)
<1>1. PICK g : g = UserGrant(a, n, k.path, k.method, NoGrant)
  OBVIOUS
<1>2. UserRequest(a, n, k) = WithGrant(g, n, k)
  BY <1>1 DEF UserRequest, onRpcFrameReceived, UserGrant
<1>3. /\ Reads(a, g.a, f, T)
      /\ T # {} /\ k.path = CurrentClientPath => HasRoles(g.a, StoreOf(a, f), n)
  BY <1>1, UserGrantReads
<1>4. MayAsk(g.a, f, T, n, k.path)
  BY <1>3, ReadsStore DEF MayAsk, IsName, Reads, SameRest
<1> QED BY <1>2, <1>3, <1>4, RequestDoes

LEMMA MasterRequestDoes ==
  ASSUME NEW a, NEW f, NEW T, Sound(a, f, T), NEW k, k.path # CurrentClientPath, NEW given
  PROVE  Does(a, MasterRequest(a, k, given), f, T)
<1>1. PICK n : n = ""
  OBVIOUS
<1>2. PICK g : g = MasterGrant(a, n, k.path, k.method, given)
  OBVIOUS
<1>3. MasterRequest(a, k, given) = WithGrant(g, n, k)
  BY <1>1, <1>2 DEF MasterRequest, onRpcFrameReceived, MasterGrant
<1>4. Reads(a, g.a, f, T)
  BY <1>2, MasterGrantReads
<1>5. MayAsk(g.a, f, T, n, k.path)
  BY DEF MayAsk
<1> QED BY <1>3, <1>4, <1>5, RequestDoes

(***************************************************************************)
(* The connections: somebody let in has a name, and only the directory of  *)
(* the broker is asked.                                                    *)
(***************************************************************************)
ConnIsRight(a, x) ==
  /\ DOMAIN x = {"phase", "nonce", "user", "groups"}
  /\ x.phase = "in" => IsName(a, x.user)
  /\ x.phase = "ldap" => a.directory = "ldap"
  /\ x.phase = "azure" => a.directory = "azure"
ConnsAreRight(a, cs) ==
  DOMAIN cs = Clients /\ \A c \in Clients : ConnIsRight(a, cs[c])

\* Only the directory the broker is configured for has told names.
OneDirectory(a) ==
  /\ a.directory # "ldap" => DOMAIN a.ldap = {}
  /\ a.directory # "azure" => DOMAIN a.azure = {}

LEMMA ConnChanged ==
  ASSUME NEW a, NEW cs, ConnsAreRight(a, cs), NEW b, b.directory = a.directory,
         \A n : IsName(a, n) => IsName(b, n), NEW c, NEW x, ConnIsRight(b, x)
  PROVE  ConnsAreRight(b, cs) /\ ConnsAreRight(b, [cs EXCEPT ![c] = x])
<1>1. \A y : ConnIsRight(a, y) => ConnIsRight(b, y)
  BY DEF ConnIsRight
<1>2. ConnsAreRight(b, cs)
  BY <1>1 DEF ConnsAreRight
<1>3. ConnsAreRight(b, [cs EXCEPT ![c] = x])
  BY <1>2 DEF ConnsAreRight
<1> QED BY <1>2, <1>3

LEMMA GoneIsRight ==
  ASSUME NEW a
  PROVE  ConnIsRight(a, Gone) /\ ConnIsRight(a, [Gone EXCEPT !.phase = "new"])
  BY DEF ConnIsRight, Gone

(***************************************************************************)
(* The invariant.                                                          *)
(***************************************************************************)
\* The tables whose lists in the cache are those stored.
Trusted == IF edited THEN {} ELSE IF torn THEN Tables \ {"access"} ELSE Tables
IInv == Sound(acl, acl.files, Trusted) /\ OneDirectory(acl) /\ ConnsAreRight(acl, conn)

\* The files a database is saved to are not those it is read from.
LEMMA OtherFiles ==
  ASSUME NEW a, NEW f, NEW g, NEW T, Sound(a, f, T), a.backend # "files" \/ T = {} \/ f = g
  PROVE  Sound(a, g, T)
<1>1. CASE T = {}
  BY <1>1 DEF Sound, ListsAreRight
<1>2. CASE a.backend # "files" \/ f = g
  <2>1. StoreOf(a, g) = StoreOf(a, f)
    BY <1>2 DEF StoreOf
  <2> QED BY <2>1 DEF Sound
<1> QED BY <1>1, <1>2

LEMMA SoundNowhere ==
  ASSUME NEW a, NEW f, NEW T, Sound(a, f, T)
  PROVE  Sound(a, f, {})
  BY DEF Sound, ListsAreRight

LEMMA DoneKeeps ==
  ASSUME IInv, NEW r, Does(acl, r, acl.files, Trusted), NEW k, NEW n, NEW given, Done(r, k, n, given)
  PROVE  IInv'
<1>1. /\ acl' = r.a
      /\ torn' = ((torn \/ (~r.ok /\ r.a.db # acl.db)) /\ DOMAIN r.a.cache.access # {})
      /\ edited' = (edited \/ (acl.backend = "files" /\ r.a.files # acl.files))
      /\ conn' = conn \/ conn' = [conn EXCEPT ![k.path[3]] = Gone]
  BY DEF Done
<1>2. SameRest(acl, r.a) /\ r.a.backend = acl.backend
  BY DEF Does, SameRest
<1>3. Sound(r.a, acl.files, Trusted')
  <2>1. CASE edited'
    BY <2>1, SoundNowhere DEF Does, Trusted
  <2>2. CASE ~edited'
    <3>1. ~edited
      BY <1>1, <2>2
    <3>2. Trusted \ {"access"} = Tables \ {"access"} /\ "users" \in Tables
      BY <3>1 DEF Trusted, Tables
    <3>3. Sound(r.a, acl.files, Tables \ {"access"})
      BY <3>2 DEF Does
    <3>4. CASE torn'
      BY <2>2, <3>3, <3>4 DEF Trusted
    <3>5. CASE ~torn' /\ DOMAIN r.a.cache.access = {}
      <4>1. Sound(r.a, acl.files, Tables)
        BY <3>2, <3>3, <3>5, SoundAgain
      <4> QED BY <2>2, <3>5, <4>1 DEF Trusted
    <3>6. CASE ~torn' /\ DOMAIN r.a.cache.access # {}
      <4>1. ~torn /\ (r.ok \/ r.a.db = acl.db)
        BY <1>1, <3>6
      <4>2. Trusted = Tables /\ Trusted' = Tables
        BY <2>2, <3>1, <3>6, <4>1 DEF Trusted
      <4> QED BY <4>1, <4>2 DEF Does
    <3> QED BY <3>4, <3>5, <3>6
  <2> QED BY <2>1, <2>2
<1>4. r.a.backend # "files" \/ Trusted' = {} \/ acl.files = r.a.files
  BY <1>1, <1>2 DEF Trusted
<1>5. Sound(acl', acl'.files, Trusted')
  BY <1>1, <1>3, <1>4, OtherFiles
<1>6. OneDirectory(acl')
  BY <1>1, <1>2 DEF IInv, OneDirectory, SameRest
<1>7. ConnsAreRight(acl', conn')
  <2>1. acl'.directory = acl.directory /\ \A m : IsName(acl, m) => IsName(acl', m)
    BY <1>1, <1>2 DEF SameRest, IsName
  <2>2. PICK x : x = k.path[3]
    OBVIOUS
  <2>3. ConnsAreRight(acl, conn) /\ ConnIsRight(acl', Gone)
    BY GoneIsRight DEF IInv
  <2>4. ConnsAreRight(acl', conn) /\ ConnsAreRight(acl', [conn EXCEPT ![x] = Gone])
    BY <2>1, <2>3, ConnChanged
  <2> QED BY <1>1, <2>2, <2>4
<1> QED BY <1>5, <1>6, <1>7 DEF IInv

LEMMA CallKeeps ==
  ASSUME IInv, NEW c \in Clients, NEW k, Call(c, k)
  PROVE  IInv'
<1>1. PICK n : n = conn[c].user
  OBVIOUS
<1>2. PICK r : r = UserRequest(acl, n, k)
  OBVIOUS
<1>3. conn[c].phase = "in" /\ Done(r, k, n, NoGrant)
  BY <1>1, <1>2 DEF Call, Do, UserRequest
<1>4. IsName(acl, n)
  BY <1>1, <1>3 DEF IInv, ConnsAreRight, ConnIsRight
<1>5. Does(acl, r, acl.files, Trusted)
  BY <1>2, <1>4, UserRequestDoes DEF IInv
<1> QED BY <1>3, <1>5, DoneKeeps

LEMMA MasterCallKeeps ==
  ASSUME IInv, NEW k, NEW given, MasterCall(k, given)
  PROVE  IInv'
<1>1. PICK r : r = MasterRequest(acl, k, given)
  OBVIOUS
<1>2. PICK n : n = ""
  OBVIOUS
<1>3. k.path # CurrentClientPath /\ Done(r, k, n, given)
  BY <1>1, <1>2 DEF MasterCall, Do, MasterRequest
<1>4. Does(acl, r, acl.files, Trusted)
  BY <1>1, <1>3, MasterRequestDoes DEF IInv
<1> QED BY <1>3, <1>4, DoneKeeps

LEMMA ConnKeeps ==
  ASSUME IInv, NEW c, NEW x, ConnIsRight(acl, x), conn' = [conn EXCEPT ![c] = x],
         UNCHANGED <<acl, edited, torn>>
  PROVE  IInv'
<1>1. ConnsAreRight(acl, conn')
  BY ConnChanged DEF IInv
<1>2. Trusted' = Trusted
  BY DEF Trusted
<1> QED BY <1>1, <1>2 DEF IInv

LEMMA ConnectKeeps ==
  ASSUME IInv, NEW c \in Clients, Connect(c) \/ Hello(c) \/ Disconnect(c)
  PROVE  IInv'
<1>1. UNCHANGED <<acl, edited, torn>>
  BY DEF Connect, Hello, Disconnect, Unchanged
<1>2. CASE Connect(c)
  BY <1>1, <1>2, GoneIsRight, ConnKeeps DEF Connect
<1>3. CASE Disconnect(c)
  BY <1>1, <1>3, GoneIsRight, ConnKeeps DEF Disconnect
<1>4. CASE Hello(c)
  <2>1. PICK x : x = [conn[c] EXCEPT !.nonce = @ + 1]
    OBVIOUS
  <2>2. conn' = [conn EXCEPT ![c] = x]
    BY <1>4, <2>1 DEF Hello
  <2>3. ConnIsRight(acl, x)
    BY <2>1 DEF IInv, ConnsAreRight, ConnIsRight
  <2> QED BY <1>1, <2>2, <2>3, ConnKeeps
<1> QED BY <1>2, <1>3, <1>4

LEMMA LoginKeeps ==
  ASSUME IInv, NEW c \in Clients, NEW l \in Logins, Login(c, l)
  PROVE  IInv'
<1>1. PICK m : m = userLogin(l)
  OBVIOUS
<1>2. PICK r : r = checkPassword(acl, m, conn[c].nonce)
  OBVIOUS
<1>3. m.user = l.user
  BY <1>1 DEF userLogin
<1>4. PICK phase : Checked(c, m, phase) /\ phase \in {"ldap", "azure", "in", "refused"}
                   /\ (phase = "azure" => IsAzure(m)) /\ (phase = "ldap" => IsLdap(m))
  BY <1>1 DEF Login, checkLogin
<1>5. acl' = acl \/ acl' = r.a
  BY <1>1, <1>2 DEF Login, checkLogin
<1>6. UNCHANGED <<edited, torn>>
  BY DEF Login, Unchanged
<1>7. Reads(acl, r.a, acl.files, Trusted)
  <2>1. r.a = user(acl, m.user).a
    BY <1>2 DEF checkPassword, PasswordFits
  <2> QED BY <2>1, UserIsRead DEF IInv
<1>8. Reads(acl, acl', acl.files, Trusted)
  BY <1>5, <1>7, ReadsNothing DEF IInv
<1>9. Trusted' = Trusted
  BY <1>6 DEF Trusted
<1>10. acl'.files = acl.files /\ SameRest(acl, acl') /\ Sound(acl', acl.files, Trusted)
  BY <1>8 DEF Reads
<1>11. PICK x : x = [conn[c] EXCEPT !.user = m.user, !.phase = phase, !.nonce = 0]
  OBVIOUS
<1>12. conn' = [conn EXCEPT ![c] = x]
  BY <1>4, <1>11 DEF Checked
<1>13. ConnIsRight(acl', x)
  <2>1. /\ DOMAIN x = {"phase", "nonce", "user", "groups"}
        /\ x.user = m.user /\ x.phase = phase
    BY <1>11 DEF IInv, ConnsAreRight, ConnIsRight
  <2>2. IsName(acl', x.user)
    BY <1>3, <2>1 DEF IsName, LoginNames
  <2>3. (phase = "ldap" => acl'.directory = "ldap") /\ (phase = "azure" => acl'.directory = "azure")
    BY <1>4, <1>10 DEF IsLdap, IsAzure, SameRest
  <2> QED BY <2>1, <2>2, <2>3 DEF ConnIsRight
<1>14. ConnsAreRight(acl', conn')
  <2>1. acl'.directory = acl.directory /\ \A n : IsName(acl, n) => IsName(acl', n)
    BY <1>10 DEF SameRest, IsName
  <2> QED BY <1>12, <1>13, <2>1, ConnChanged DEF IInv
<1>15. OneDirectory(acl')
  BY <1>10 DEF IInv, OneDirectory, SameRest
<1> QED BY <1>9, <1>10, <1>14, <1>15 DEF IInv

(***************************************************************************)
(* The answer of a directory: the first groups of a name stay.             *)
(***************************************************************************)
\* The groups that are known stay, and only the directory of the broker adds some.
MoreGroups(a, b) ==
  /\ b.backend = a.backend /\ b.directory = a.directory
  /\ b.files = a.files /\ b.db = a.db /\ b.cache = a.cache
  /\ \A n \in DOMAIN a.ldap : n \in DOMAIN b.ldap /\ b.ldap[n] = a.ldap[n]
  /\ \A n \in DOMAIN a.azure : n \in DOMAIN b.azure /\ b.azure[n] = a.azure[n]

LEMMA FirstOnlyKeeps ==
  ASSUME NEW m, NEW n, NEW v
  PROVE  /\ n \in DOMAIN FirstOnly(m, n, v)
         /\ \A k \in DOMAIN m : k \in DOMAIN FirstOnly(m, n, v) /\ FirstOnly(m, n, v)[k] = m[k]
  BY DEF FirstOnly, Put

LEMMA DirectorySays ==
  ASSUME NEW a, IsManager(a), NEW n, NEW g
  PROVE  /\ a.directory = "ldap" /\ OneDirectory(a) =>
              /\ MoreGroups(a, setGroupForLdapUser(a, n, g)) /\ IsManager(setGroupForLdapUser(a, n, g))
              /\ OneDirectory(setGroupForLdapUser(a, n, g))
              /\ n \in DOMAIN setGroupForLdapUser(a, n, g).ldap
         /\ a.directory = "azure" /\ OneDirectory(a) =>
              /\ MoreGroups(a, setGroupForAzureUser(a, n, g)) /\ IsManager(setGroupForAzureUser(a, n, g))
              /\ OneDirectory(setGroupForAzureUser(a, n, g))
              /\ n \in DOMAIN setGroupForAzureUser(a, n, g).azure
<1>1. PICK x : x = FirstOnly(a.ldap, n, g)
  OBVIOUS
<1>2. PICK y : y = FirstOnly(a.azure, n, g)
  OBVIOUS
<1>3. /\ n \in DOMAIN x /\ \A k \in DOMAIN a.ldap : k \in DOMAIN x /\ x[k] = a.ldap[k]
      /\ n \in DOMAIN y /\ \A k \in DOMAIN a.azure : k \in DOMAIN y /\ y[k] = a.azure[k]
  BY <1>1, <1>2, FirstOnlyKeeps
<1>4. PICK b : b = setGroupForLdapUser(a, n, g)
  OBVIOUS
<1>5. PICK c : c = setGroupForAzureUser(a, n, g)
  OBVIOUS
<1>6. b = [a EXCEPT !.ldap = x] /\ c = [a EXCEPT !.azure = y]
  BY <1>1, <1>2, <1>4, <1>5 DEF setGroupForLdapUser, setGroupForAzureUser
<1>7. /\ IsManager(b) /\ b.ldap = x /\ b.azure = a.azure /\ b.directory = a.directory
      /\ b.backend = a.backend /\ b.files = a.files /\ b.db = a.db /\ b.cache = a.cache
      /\ IsManager(c) /\ c.azure = y /\ c.ldap = a.ldap /\ c.directory = a.directory
      /\ c.backend = a.backend /\ c.files = a.files /\ c.db = a.db /\ c.cache = a.cache
  BY <1>6 DEF IsManager, Fields
<1>8. MoreGroups(a, b) /\ MoreGroups(a, c)
  BY <1>3, <1>7 DEF MoreGroups
<1>9. /\ a.directory = "ldap" /\ OneDirectory(a) => OneDirectory(b)
      /\ a.directory = "azure" /\ OneDirectory(a) => OneDirectory(c)
  BY <1>7 DEF OneDirectory
<1> QED BY <1>3, <1>4, <1>5, <1>7, <1>8, <1>9

LEMMA MoreGroupsSound ==
  ASSUME NEW a, NEW f, NEW T, Sound(a, f, T), NEW b, IsManager(b), MoreGroups(a, b),
         OneDirectory(a), OneDirectory(b)
  PROVE  Sound(b, f, T)
<1> DEFINE st == StoreOf(a, f)
<1>1. StoreOf(b, f) = st
  BY DEF StoreOf, MoreGroups
<1>2. T # {} => SameStore(b, st)
  BY DEF Sound, SameStore, aclConfig, loadAclConfig, MoreGroups
<1>3. FilesAreThere(b) /\ UsersAreUsers(b) /\ ListsAreRight(b, st, T)
  BY DEF Sound, FilesAreThere, UsersAreUsers, ListsAreRight, MoreGroups
<1>4. ASSUME NEW key, NEW rs, StandFor(a, st, key, rs) PROVE StandFor(b, st, key, rs)
  <2>1. \A n : n \in DOMAIN a.ldap \cup DOMAIN a.azure => n \in DOMAIN b.ldap \cup DOMAIN b.azure
    BY DEF MoreGroups
  <2>2. ASSUME NEW n \in DOMAIN a.ldap \cup DOMAIN a.azure, n \in DOMAIN b.ldap
        PROVE  n \in DOMAIN a.ldap /\ b.ldap[n] = a.ldap[n]
    BY <2>2 DEF OneDirectory, MoreGroups
  <2>3. ASSUME NEW n \in DOMAIN a.ldap \cup DOMAIN a.azure, n \in DOMAIN b.azure \ DOMAIN b.ldap
        PROVE  n \in DOMAIN a.azure \ DOMAIN a.ldap /\ b.azure[n] = a.azure[n]
    BY <2>3 DEF OneDirectory, MoreGroups
  <2> QED BY <1>4, <2>1, <2>2, <2>3 DEF StandFor
<1>5. T # {} => FlatIsRight(b, st)
  BY <1>4 DEF Sound, FlatIsRight, MoreGroups
<1> QED BY <1>1, <1>2, <1>3, <1>5 DEF Sound

LEMMA DirectoryKeeps ==
  ASSUME IInv, IsManager(acl'), MoreGroups(acl, acl'), OneDirectory(acl'),
         NEW c \in Clients, NEW x, conn' = [conn EXCEPT ![c] = x], ConnIsRight(acl', x),
         UNCHANGED <<edited, torn>>
  PROVE  IInv'
<1>1. Sound(acl', acl.files, Trusted)
  BY MoreGroupsSound DEF IInv
<1>2. acl'.files = acl.files /\ Trusted' = Trusted
  BY DEF MoreGroups, Trusted
<1>3. acl'.directory = acl.directory /\ \A n : IsName(acl, n) => IsName(acl', n)
  BY DEF MoreGroups, IsName
<1>4. ConnsAreRight(acl', conn')
  BY <1>3, ConnChanged DEF IInv
<1> QED BY <1>1, <1>2, <1>4 DEF IInv

\* A connection after the answer of a directory.
LEMMA AnsweredConn ==
  ASSUME IInv, NEW c \in Clients, NEW b, NEW n, IsName(b, n), NEW gs, NEW phase \in {"in", "refused"}
  PROVE  /\ ConnIsRight(b, [conn[c] EXCEPT !.user = n, !.groups = gs, !.phase = phase])
         /\ ConnIsRight(b, [conn[c] EXCEPT !.phase = "refused"])
  BY DEF IInv, ConnsAreRight, ConnIsRight

LEMMA ldapResultKeeps ==
  ASSUME IInv, NEW c \in Clients, ldapResult(c)
  PROVE  IInv'
<1>1. PICK n : n = LdapName[conn[c].user]
  OBVIOUS
<1>2. acl.directory = "ldap" /\ OneDirectory(acl) /\ IsManager(acl) /\ UNCHANGED <<edited, torn>>
  BY DEF ldapResult, IInv, ConnsAreRight, ConnIsRight, Sound
<1>3. PICK g : acl' = setGroupForLdapUser(acl, n, g)
  BY <1>1 DEF ldapResult
<1>4. /\ MoreGroups(acl, acl') /\ IsManager(acl') /\ OneDirectory(acl') /\ IsName(acl', n)
  BY <1>2, <1>3, DirectorySays DEF IsName
<1>5. \/ \E m : conn' = [conn EXCEPT ![c] = [conn[c] EXCEPT !.user = n, !.groups = <<n>> \o m,
                                  !.phase = IF m = <<>> THEN "refused" ELSE "in"]]
      \/ conn' = [conn EXCEPT ![c] = [conn[c] EXCEPT !.phase = "refused"]]
  BY <1>1 DEF ldapResult, Accepted
<1>6. PICK x : conn' = [conn EXCEPT ![c] = x] /\ ConnIsRight(acl', x)
  <2>1. ASSUME NEW m
        PROVE  ConnIsRight(acl', [conn[c] EXCEPT !.user = n, !.groups = <<n>> \o m,
                                  !.phase = IF m = <<>> THEN "refused" ELSE "in"])
    BY <1>4, AnsweredConn
  <2>2. ConnIsRight(acl', [conn[c] EXCEPT !.phase = "refused"])
    BY <1>4, AnsweredConn
  <2> QED BY <1>5, <2>1, <2>2
<1> QED BY <1>2, <1>4, <1>6, DirectoryKeeps

LEMMA azureResultKeeps ==
  ASSUME IInv, NEW c \in Clients, azureResult(c)
  PROVE  IInv'
<1>1. acl.directory = "azure" /\ OneDirectory(acl) /\ IsManager(acl) /\ UNCHANGED <<edited, torn>>
  BY DEF azureResult, IInv, ConnsAreRight, ConnIsRight, Sound
<1>2. PICK n, g : /\ acl' = setGroupForAzureUser(acl, n, g)
                  /\ \/ \E m : conn' = [conn EXCEPT ![c] = [conn[c] EXCEPT !.user = n, !.groups = <<n>> \o m,
                                  !.phase = IF m = <<>> THEN "refused" ELSE "in"]]
                     \/ conn' = [conn EXCEPT ![c] = [conn[c] EXCEPT !.phase = "refused"]]
  BY DEF azureResult, Accepted
<1>3. /\ MoreGroups(acl, acl') /\ IsManager(acl') /\ OneDirectory(acl') /\ IsName(acl', n)
  BY <1>1, <1>2, DirectorySays DEF IsName
<1>4. PICK x : conn' = [conn EXCEPT ![c] = x] /\ ConnIsRight(acl', x)
  <2>1. ASSUME NEW m
        PROVE  ConnIsRight(acl', [conn[c] EXCEPT !.user = n, !.groups = <<n>> \o m,
                                  !.phase = IF m = <<>> THEN "refused" ELSE "in"])
    BY <1>3, AnsweredConn
  <2>2. ConnIsRight(acl', [conn[c] EXCEPT !.phase = "refused"])
    BY <1>3, AnsweredConn
  <2> QED BY <1>2, <2>1, <2>2
<1> QED BY <1>1, <1>3, <1>4, DirectoryKeeps

(***************************************************************************)
(* The timer, the files, a restart.                                        *)
(***************************************************************************)
LEMMA ReloadKeeps ==
  ASSUME IInv, reloadConfig
  PROVE  IInv'
<1>1. PICK b : b = clearCache(acl)
  OBVIOUS
<1>2. acl' = b /\ ~edited' /\ ~torn' /\ conn' = conn
  BY <1>1 DEF reloadConfig, reload
<1>3. /\ Sound(b, b.files, Tables) /\ SameRest(acl, b)
  BY <1>1, ClearedIsSound DEF IInv
<1>4. Trusted' = Tables
  BY <1>2 DEF Trusted
<1>5. OneDirectory(b) /\ ConnsAreRight(b, conn)
  <2>1. \A n : IsName(acl, n) => IsName(b, n)
    BY <1>3 DEF SameRest, IsName
  <2>2. OneDirectory(b) /\ b.directory = acl.directory
    BY <1>3 DEF IInv, OneDirectory, SameRest
  <2> QED BY <2>1, <2>2, GoneIsRight, ConnChanged DEF IInv
<1> QED BY <1>2, <1>3, <1>4, <1>5 DEF IInv

LEMMA EditFilesKeeps ==
  ASSUME IInv, NEW f \in FileSets, EditFiles(f)
  PROVE  IInv'
<1>1. acl' = [acl EXCEPT !.files = f] /\ edited' /\ conn' = conn
  BY DEF EditFiles
<1>2. IsManager(acl) /\ FilesAreThere(acl) /\ UsersAreUsers(acl)
  BY DEF IInv, Sound
<1>3. /\ IsManager(acl') /\ SameRest(acl, acl') /\ acl'.files = f
      /\ acl'.db = acl.db /\ acl'.cache = acl.cache
  BY <1>1, <1>2 DEF IsManager, Fields, SameRest
<1>4. FilesAreThere(acl')
  BY <1>2, <1>3, FilesAssumption DEF FilesAreThere, SameRest
<1>5. Trusted' = {}
  BY <1>1 DEF Trusted
<1>6. Sound(acl', acl'.files, {})
  BY <1>2, <1>3, <1>4 DEF Sound, UsersAreUsers, ListsAreRight
<1>7. OneDirectory(acl') /\ ConnsAreRight(acl', conn')
  <2>1. \A n : IsName(acl, n) => IsName(acl', n)
    BY <1>3 DEF SameRest, IsName
  <2>2. OneDirectory(acl') /\ acl'.directory = acl.directory
    BY <1>3 DEF IInv, OneDirectory, SameRest
  <2> QED BY <1>1, <2>1, <2>2, GoneIsRight, ConnChanged DEF IInv
<1> QED BY <1>5, <1>6, <1>7 DEF IInv

LEMMA StartedIsSound ==
  ASSUME NEW backend, NEW dir, NEW f, NEW db, DOMAIN db = Tables,
         \A n \in DOMAIN db.users : IsUser(db.users[n]),
         backend = "files" => \A tbl \in Tables : configFile(f, tbl) \in DOMAIN f,
         NEW b, b = Started(backend, dir, f, db)
  PROVE  Sound(b, b.files, Tables) /\ OneDirectory(b)
<1>1. /\ IsManager(b) /\ b.backend = backend /\ b.files = f /\ b.db = db /\ b.cache = EmptyCache
      /\ DOMAIN b.ldap = {} /\ DOMAIN b.azure = {}
  BY DEF Started, IsManager, Fields, CacheFields, Tables, EmptyCache
<1>2. UsersAreUsers(b)
  BY <1>1 DEF UsersAreUsers
<1> QED BY <1>1, <1>2, EmptyIsSound DEF OneDirectory

LEMMA AllGone ==
  ASSUME NEW a, NEW cs, cs = [c \in Clients |-> Gone]
  PROVE  ConnsAreRight(a, cs)
  BY GoneIsRight DEF ConnsAreRight

LEMMA RestartKeeps ==
  ASSUME IInv, Restart
  PROVE  IInv'
<1>1. /\ acl' = Started(acl.backend, acl.directory, acl.files, acl.db)
      /\ conn' = [c \in Clients |-> Gone] /\ ~edited' /\ ~torn'
  BY DEF Restart
<1>2. Sound(acl', acl'.files, Tables) /\ OneDirectory(acl')
  BY <1>1, StartedIsSound DEF IInv, Sound, IsManager, UsersAreUsers, FilesAreThere
<1>3. Trusted' = Tables
  BY <1>1 DEF Trusted
<1> QED BY <1>1, <1>2, <1>3, AllGone DEF IInv

LEMMA ImportedUsers ==
  ASSUME NEW a, DOMAIN a = Fields, NEW b, b = importAclConfigFiles(a)
  PROVE  /\ \E db : /\ b = [a EXCEPT !.db = db] /\ DOMAIN db = Tables
                    /\ \A n \in DOMAIN db.users : IsUser(db.users[n])
<1>1. PICK x : x = [a EXCEPT !.backend = "files", !.cache = EmptyCache]
  OBVIOUS
<1>2. PICK people : people = {n \in filesKeys(x, "users") : IsUser(filesUser(x, n))}
  OBVIOUS
<1>3. PICK listed : listed = [n \in people |-> filesUser(x, n)]
  OBVIOUS
<1>4. PICK mounts, named, ruled : b = [a EXCEPT !.db =
         [mounts |-> mounts, users |-> listed, roles |-> named, access |-> ruled]]
  BY <1>1, <1>2, <1>3, Zenon DEF importAclConfigFiles
<1>5. PICK db : db = [mounts |-> mounts, users |-> listed, roles |-> named, access |-> ruled]
  OBVIOUS
<1>6. DOMAIN db = Tables /\ db.users = listed
  BY <1>5 DEF Tables
<1>7. \A n \in DOMAIN listed : IsUser(listed[n])
  BY <1>2, <1>3
<1> QED BY <1>4, <1>5, <1>6, <1>7

LEMMA InitIsRight ==
  ASSUME Init
  PROVE  IInv
<1>1. PICK s \in Starts : acl = FirstStart(s.backend, s.directory, s.files)
  BY DEF Init
<1>2. PICK a : a = Started(s.backend, s.directory, s.files, EmptyTables)
  OBVIOUS
<1>3. acl = a \/ acl = importAclConfigFiles(a)
  BY <1>1, <1>2 DEF FirstStart
<1>4. \A tbl \in Tables : configFile(s.files, tbl) \in DOMAIN s.files
  BY FilesAssumption
<1>5. PICK db : /\ acl = Started(s.backend, s.directory, s.files, db) /\ DOMAIN db = Tables
                /\ \A n \in DOMAIN db.users : IsUser(db.users[n])
  <2>1. CASE acl = a
    <3>1. DOMAIN EmptyTables = Tables /\ DOMAIN EmptyTables.users = {}
      BY DEF EmptyTables, Tables
    <3> QED BY <1>2, <2>1, <3>1
  <2>2. CASE acl = importAclConfigFiles(a)
    <3>1. DOMAIN a = Fields
      BY <1>2 DEF Started, Fields
    <3>2. PICK db : /\ acl = [a EXCEPT !.db = db] /\ DOMAIN db = Tables
                    /\ \A n \in DOMAIN db.users : IsUser(db.users[n])
      BY <2>2, <3>1, ImportedUsers
    <3>3. acl = Started(s.backend, s.directory, s.files, db)
      BY <1>2, <3>2 DEF Started
    <3> QED BY <3>2, <3>3
  <2> QED BY <1>3, <2>1, <2>2
<1>6. Sound(acl, acl.files, Tables) /\ OneDirectory(acl)
  BY <1>4, <1>5, StartedIsSound
<1>7. Trusted = Tables
  BY DEF Init, Trusted
<1>8. ConnsAreRight(acl, conn)
  BY AllGone DEF Init
<1> QED BY <1>6, <1>7, <1>8 DEF IInv

LEMMA StepKeeps ==
  ASSUME IInv, [Next]_vars
  PROVE  IInv'
<1>1. CASE \E c \in Clients : Connect(c) \/ Hello(c) \/ Disconnect(c)
  BY <1>1, ConnectKeeps
<1>2. CASE \E c \in Clients : ldapResult(c)
  BY <1>2, ldapResultKeeps
<1>3. CASE \E c \in Clients : azureResult(c)
  BY <1>3, azureResultKeeps
<1>4. CASE \E c \in Clients, l \in Logins : Login(c, l)
  BY <1>4, LoginKeeps
<1>5. CASE \E c \in Clients, k \in Calls : Call(c, k)
  BY <1>5, CallKeeps
<1>6. CASE \E k \in Calls, l \in {None, Read} : MasterCall(k, GrantOf(l))
  <2>1. PICK k \in Calls, l \in {None, Read} : MasterCall(k, GrantOf(l))
    BY <1>6
  <2> QED BY <2>1, MasterCallKeeps
<1>7. CASE \E f \in FileSets : EditFiles(f)
  BY <1>7, EditFilesKeeps
<1>8. CASE reloadConfig
  BY <1>8, ReloadKeeps
<1>9. CASE Restart
  BY <1>9, RestartKeeps
<1>10. CASE UNCHANGED vars
  BY <1>10 DEF vars, IInv, Trusted
<1> QED BY <1>1, <1>2, <1>3, <1>4, <1>5, <1>6, <1>7, <1>8, <1>9, <1>10 DEF Next

LEMMA IInvGives ==
  ASSUME IInv
  PROVE  CacheIsTransparent /\ LoginsAgree
<1>1. CacheIsTransparent
  <2>1. CASE Fresh
    <3>1. Trusted = Tables
      BY <2>1 DEF Fresh, Trusted
    <3> QED BY <3>1, SoundIsTransparent DEF IInv
  <2>2. CASE ~Fresh
    BY <2>2 DEF CacheIsTransparent
  <2> QED BY <2>1, <2>2
<1>2. LoginsAgree
  <2>1. CASE ~edited
    <3>1. "users" \in Trusted
      BY <2>1 DEF Trusted, Tables
    <3> QED BY <3>1, SoundLoginsAgree DEF IInv
  <2>2. CASE edited
    BY <2>2 DEF LoginsAgree
  <2> QED BY <2>1, <2>2
<1> QED BY <1>1, <1>2

(***************************************************************************)
(* What the manager answers from its cache is what it would answer without *)
(* it, in every state, whatever users, lists, files and calls there are    *)
(* (CacheIsTransparent).                                                   *)
(***************************************************************************)
THEOREM CacheIsAlwaysTransparent == Spec => []CacheIsTransparent
<1>1. Init => IInv
  BY InitIsRight
<1>2. IInv /\ [Next]_vars => IInv'
  BY StepKeeps
<1>3. IInv => CacheIsTransparent
  BY IInvGives
<1> QED BY <1>1, <1>2, <1>3, PTL DEF Spec

(***************************************************************************)
(* A password opens the same way sent in plain or as a digest and no other *)
(* password does, however the stored one is kept, in every state with the  *)
(* files as they were read (LoginsAgree).                                  *)
(***************************************************************************)
THEOREM LoginsAlwaysAgree == Spec => []LoginsAgree
<1>1. Init => IInv
  BY InitIsRight
<1>2. IInv /\ [Next]_vars => IInv'
  BY StepKeeps
<1>3. IInv => LoginsAgree
  BY IInvGives
<1> QED BY <1>1, <1>2, <1>3, PTL DEF Spec
=============================================================================
