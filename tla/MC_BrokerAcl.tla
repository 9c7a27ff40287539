---------------------------- MODULE MC_BrokerAcl ----------------------------
(* Three users in files and tables, roles that contain each other in a     *)
(* circle, one user of each directory.                                     *)
EXTENDS BrokerAcl

\* Utils::mergeMaps() (libshvchainpack utils.cpp).
RECURSIVE MergedMaps(_, _)
MergedMaps(base, over) ==
  IF base.t = "Map" /\ over.t = "Map"
  THEN Map([k \in DOMAIN base.m \cup DOMAIN over.m |-> MergedMaps(At(base, k), At(over, k))])
  ELSE IF over.t # "Invalid" THEN over ELSE base

TheAlphabet == <<"dev:set", "dev/**", "method", "pathPattern", "role">>
TheRuleKeys ==
  [k \in {"dev:set", "dev/**"} |->
     IF k = "dev:set" THEN [path |-> <<"dev">>, method |-> "set"]
     ELSE [path |-> <<"dev", "**">>, method |-> ""]]
TheLongTexts == {"forty"}

Rule(path, method, access) == RuleToRpcValue([path |-> path, method |-> method, access |-> access])
Pw(text, format) == [password |-> text, format |-> format]
User(pw, rs) == UserToRpcValue([password |-> pw, roles |-> rs])
Role(rs, p) == RoleToRpcValue([roles |-> rs, profile |-> p])

Users == Map([root |-> User(Pw(sha1Hex(Plain("r")), "SHA1"), <<"admin">>),
              u |-> User(Pw(Plain("p"), "PLAIN"), <<"op">>)])
Roles == Map([admin |-> Role(<<"op">>, Invalid), op |-> Role(<<"view">>, Map([a |-> Text("x")])),
              view |-> Role(<<"op">>, Map([a |-> Text("y"), b |-> Text("z")]))])
Rules == Map([admin |-> List(<<Rule(<<"**">>, "", <<"su">>)>>),
              op |-> List(<<Rule(<<"dev">>, "set", <<"wr">>)>>),
              view |-> List(<<Rule(<<"dev", "**">>, "", <<"log", "rd">>)>>),
              masterBroker |-> List(<<Rule(<<"dev">>, "get", <<"bws", "rd">>)>>)])
Mounts == Map([d |-> Text(<<"dev">>)])

Files == [f \in {"mounts.cpon", "users.cpon", "roles.cpon", "access.cpon"} |->
            CASE f = "mounts.cpon" -> Mounts [] f = "users.cpon" -> Users
              [] f = "roles.cpon" -> Roles [] f = "access.cpon" -> Rules]
\* The old names of the files, rules in the old form, a role that is not one.
OldFiles == [f \in {"fstab.cpon", "users.cpon", "grants.cpon", "paths.cpon"} |->
            CASE f = "fstab.cpon" -> Mounts
              [] f = "users.cpon" -> Users
              [] f = "grants.cpon" -> Map([Roles.m EXCEPT !.view = List(<<>>)])
              [] f = "paths.cpon" ->
                   Map([Rules.m EXCEPT !.op =
                          Map([k \in {"dev:set", "dev/**"} |-> Rule(<<>>, "", <<"cmd">>)])])]
TheFileSets == {Files, OldFiles}
TheStarts == {[backend |-> "sqlite", directory |-> "ldap", files |-> Files],
              [backend |-> "files", directory |-> "azure", files |-> OldFiles]}

Sent(n, type, text) == [user |-> n, type |-> type, password |-> [nonce |-> 0, text |-> text]]
Digest(n, k, text) == [user |-> n, type |-> "", password |-> [nonce |-> k, text |-> sha1Hex(text)]]
TheLogins ==
  {Sent("root", "PLAIN", Plain("r")), Sent("u", "PLAIN", Plain("p")), Digest("u", 1, Plain("q")),
   Sent("x", "PLAIN", Plain("r")), Sent("", "TOKEN", AzureToken)}

TheLdapName == [x |-> "ldap:x"]
TheAzureNames == {"azure:z"}
TheGroupLists == {<<"op">>}

Do1(path, method) == [path |-> path, method |-> method, params |-> Invalid]
Do2(path, method, params) == [path |-> path, method |-> method, params |-> params]
Acl1(rest, method, params) == Do2(AclPath \o rest, method, params)
Change(old, new) == Do2(CurrentClientPath, "changePassword", List(<<Text(old), Text(new)>>))

ReadCalls ==
  {Do1(DevicePath, "get"), Do1(<<".broker", "clients", "1">>, "userProfile"),
   Do1(AppPath, "reloadConfig"), Do1(CurrentClientPath, "userRoles")}
WriteCalls ==
  {Acl1(<<"users", "u", "roles">>, "set", NameList(<<"admin">>)),
   Acl1(<<"roles", "op", "roles">>, "set", NameList(<<>>)),
   Acl1(<<"access">>, "setValue",
        List(<<Text("view"), List(<<Rule(<<"dev">>, "", <<"cmd">>), Rule(<<"dev">>, "", <<"rd">>)>>)>>)),
   Do1(AclPath, "saveToConfigFiles"),
   Change(Plain("p"), Plain("q"))}
TheCalls == ReadCalls \cup WriteCalls
=============================================================================
