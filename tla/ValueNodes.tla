---------------------------- MODULE ValueNodes ----------------------------
(***************************************************************************)
(* Nodes that show a map of values as a tree, and configuration nodes,     *)
(* whose values are a template overridden by a file of the user            *)
(* (libshviotqt node/shvnode.cpp: RpcValueMapNode, RpcValueConfigNode).    *)
(*                                                                         *)
(* The state of a configuration node is the record of the flag             *)
(* m_valuesLoaded, m_values and m_templateValues.                          *)
(***************************************************************************)
EXTENDS FileNodes

CONSTANTS
  ConfigFiles,    \* name -> content of the configuration files there are
  ConfigName,     \* configName()
  TemplateName    \* templateConfigName(), "" when there is none

\* A file whose writing was interrupted, no Cpon.
Torn == [t |-> "Torn"]
NoFile == [t |-> "NoFile"]
IsMap(v) == v.t = "Map"

RECURSIVE valueAt(_, _)
valueAt(v, path) ==
  IF path = <<>> \/ v.t = "Invalid" THEN v
  ELSE valueAt(At(v, Head(path)), Tail(path))

valueOnPath(v, path) ==
  IF path # <<>> /\ valueAt(v, path).t = "Invalid" THEN ShvException("path")
  ELSE valueAt(v, path)

\* The value set is one in a copy of the values, which is dropped.
setValueOnPath(v, path) ==
  CASE path = <<>> -> ShvException("empty path")
    [] path # <<>> /\ valueOnPath(v, dirOf(path)).t = "Raise" -> ShvException("path")
    [] OTHER -> Bool(TRUE)

(***************************************************************************)
(* Merging and taking apart of maps: mergeMaps() of this file, which knows *)
(* only the keys of the template, mergeTemplateMaps() and diffMaps().      *)
(***************************************************************************)
\* mergeUser() that takes a map of the user as a whole.
MergeFlat(template, user) ==
  IF IsMap(template) /\ IsMap(user)
  THEN Map([k \in DOMAIN template.m |->
              IF k \in DOMAIN user.m THEN user.m[k] ELSE template.m[k]])
  ELSE user

RECURSIVE mergeUser(_, _), mergeTemplateMaps(_, _), diffMaps(_, _)
mergeUser(template, user) ==
  IF IsMap(template) /\ IsMap(user)
  THEN Map([k \in DOMAIN template.m |->
              IF k \in DOMAIN user.m THEN mergeUser(template.m[k], user.m[k])
              ELSE template.m[k]])
  ELSE user

mergeTemplateMaps(base, over) ==
  IF IsMap(base) /\ IsMap(over)
  THEN Map([k \in DOMAIN base.m \cup DOMAIN over.m |->
              IF k \in DOMAIN over.m THEN mergeTemplateMaps(At(base, k), over.m[k])
              ELSE base.m[k]])
  ELSE over

diffMaps(template, v) ==
  IF IsMap(template) /\ IsMap(v)
  THEN LET ks == {k \in DOMAIN template.m : diffMaps(template.m[k], At(v, k)).t # "Invalid"}
       IN  IF ks = {} THEN Invalid
           ELSE Map([k \in ks |-> diffMaps(template.m[k], At(v, k))])
  ELSE IF template = v THEN Invalid
  ELSE v

RECURSIVE loadConfigTemplate(_)
loadConfigTemplate(name) ==
  LET v == ConfigFiles[name]
      base == asText(At(v, "basedOn"), "")
  IN  CASE name \notin DOMAIN ConfigFiles -> Invalid
        [] name \in DOMAIN ConfigFiles /\ v = Torn -> Invalid
        [] OTHER -> IF base = "" THEN v
                    ELSE mergeTemplateMaps(loadConfigTemplate(base), Map(Del(v.m, "basedOn")))

Template ==
  LET file == IF ConfigName \notin DOMAIN ConfigFiles /\ TemplateName # ""
              THEN TemplateName ELSE ConfigName
      v == loadConfigTemplate(file)
  IN  IF IsMap(v) THEN v ELSE Map(<<>>)

(***************************************************************************)
(* Loading and saving.                                                     *)
(***************************************************************************)
NewConfig == [loaded |-> FALSE, values |-> Invalid, template |-> Invalid]

loadRaises(cfg, file) == ~cfg.loaded /\ file = Torn

\* The flag is set first: what is thrown on a file that cannot be parsed
\* leaves the node with the values it had.
loadValues(cfg, file) ==
  [loaded |-> TRUE, template |-> Template,
   values |-> IF file = Torn THEN cfg.values
              ELSE mergeUser(Template, IF IsMap(file) THEN file ELSE Map(<<>>))]

values(cfg, file) == IF cfg.loaded THEN cfg ELSE loadValues(cfg, file)

\* An invalid value is written as null.
Stored(v) == IF v.t = "Invalid" THEN Null ELSE v

saveValues(cfg) == Stored(diffMaps(cfg.template, cfg.values))

(***************************************************************************)
(* Methods.                                                                *)
(***************************************************************************)
meta_methods_value_map_root_node == <<DIR, LS>>

meta_methods_value_map_node ==
  <<DIR, LS,
    MetaMethod("get", IsGetter, "", "RpcValue", Read),
    MetaMethod("set", IsSetter, "RpcValue", "Bool", Level.cfg)>>

mapMethods(v, path, readOnly) ==
  IF path = <<>> THEN meta_methods_value_map_root_node
  ELSE IF IsMap(valueAt(v, path)) THEN SubSeq(meta_methods_value_map_node, 1, 2)
  ELSE SubSeq(meta_methods_value_map_node, 1, IF readOnly THEN 3 ELSE 4)

meta_methods_root_node ==
  <<DIR, LS,
    MetaMethod("loadFile", NoFlags, "", "RpcValue", Level.srv),
    MetaMethod("saveFile", NoFlags, "RpcValue", "Bool", Admin),
    MetaMethod("commitChanges", NoFlags, "", "Bool", Admin)>>

meta_methods_node ==
  <<DIR, LS,
    MetaMethod("get", IsGetter, "", "RpcValue", Level.cfg),
    MetaMethod("set", IsSetter, "RpcValue", "bool", Level.dev),
    MetaMethod("origValue", IsGetter, "", "RpcValue", Read),
    MetaMethod("resetValue", NoFlags, "RpcValue", "Bool", Write)>>

configMethods(v, path) ==
  IF path = <<>> THEN meta_methods_root_node
  ELSE IF IsMap(valueAt(v, path)) THEN SubSeq(meta_methods_node, 1, 2)
  ELSE meta_methods_node

mapChildNames(v, path) ==
  IF valueOnPath(v, path).t = "Raise" THEN <<>>
  ELSE Sorted(DOMAIN asMap(valueAt(v, path)))

\* What a method gives: the node, the file of the user and the value returned.
Becomes(cfg, file, v) == [cfg |-> cfg, file |-> file, ret |-> v]

mapCall(v, path, method) ==
  IF method = "get" THEN valueOnPath(v, path) ELSE setValueOnPath(v, path)

configMethodNames == {"loadFile", "saveFile", "commitChanges", "get", "set",
                      "origValue", "resetValue"}

Save(cfg, file, disk) ==
  IF disk = "refuses" THEN Becomes(cfg, file, ShvException("open"))
  ELSE Becomes(cfg, IF disk = "full" THEN Torn ELSE saveValues(cfg), Bool(TRUE))

configCall(cfg, file, path, method, params, disk) ==
  CASE method = "origValue" -> Becomes(cfg, file, valueOnPath(cfg.template, path))
    [] method = "resetValue" ->
         IF valueOnPath(cfg.template, path).t = "Raise"
         THEN Becomes(cfg, file, ShvException("path"))
         ELSE Becomes(cfg, file, setValueOnPath(cfg.values, path))
    [] method = "loadFile" ->
         Becomes(loadValues(cfg, file), file,
                 IF file = Torn THEN StdException("parse") ELSE loadValues(cfg, file).values)
    [] method = "saveFile" ->
         Save([cfg EXCEPT !.loaded = TRUE, !.values = params], file, disk)
    [] method = "commitChanges" -> Save(cfg, file, disk)
    [] OTHER ->
         IF method = "set" /\ params.t = "Invalid"
         THEN Becomes(cfg, file, ShvException("value"))
         ELSE Becomes(cfg, file, mapCall(cfg.values, path, method))
=============================================================================
