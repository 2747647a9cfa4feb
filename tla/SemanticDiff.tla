----------------------------- MODULE SemanticDiff -----------------------------
\* The structural difference of two templates (iacreview/semdiff.py): what was
\* added, removed or modified, what could not be compared and why, and which
\* logical IDs may be one resource under two names.
EXTENDS DeltaInput

CONSTANTS
  MAX_CHANGE_ENTRIES,
  DynamicTexts       \* the texts that hold a dynamic reference

ENTRY_SECTIONS == {"Parameters", "Conditions", "Mappings", "Outputs", "Rules"}
RESOURCE_ATTRIBUTES == {"DependsOn", "Condition", "DeletionPolicy", "UpdateReplacePolicy",
                        "UpdatePolicy", "CreationPolicy", "Metadata"}
EXTERNAL_FUNCTIONS == {"Fn::ImportValue", "Fn::GetAZs"}
INDIRECT_SECTIONS == {"Parameters", "Mappings", "Conditions"}

\* A segment of digits is an index, except where a logical ID stands.
canonical_path(path) ==
  [i \in DOMAIN path |-> IF i # 2 /\ path[i] \in DOMAIN Digits THEN Digits[path[i]] ELSE path[i]]

-----------------------------------------------------------------------------
\* Qualifiers: what makes the effect of a change undecidable from the text.

_is_condition_function(t) == KeysOf(t) = {"Condition"} /\ IsStr(t.map["Condition"])

_is_intrinsic_key(key, t, attributeLevel) ==
  \/ key = "Ref" \/ key \in Functions_
  \/ key = "Condition" /\ ~attributeLevel /\ _is_condition_function(t)

_is_attribute_level(path) == Len(path) = 2 /\ path[1] \in {"Resources", "Outputs"}
_is_pseudo(t) == IsStr(t) /\ t.text \in DOMAIN PseudoParameters

ExternalKey(key, value) == key \in EXTERNAL_FUNCTIONS \/ (key = "Ref" /\ _is_pseudo(value))

RECURSIVE Scanned(_, _)
Scanned(t, attributeLevel) ==
  {"dynamic_reference_unresolved" : x \in {y \in {t} : IsStr(t) /\ t.text \in DynamicTexts}}
    \cup UNION {{"expression_unevaluated" : x \in {y \in {key} : _is_intrinsic_key(key, t, attributeLevel)}}
                 \cup {"external_value" : x \in {y \in {key} : ExternalKey(key, t.map[key])}}
                 \cup {"dynamic_reference_unresolved" : x \in {key} \cap DynamicTexts}
                  : key \in KeysOf(t)}
    \cup UNION {Scanned(child, FALSE) : child \in Children(t)}
_scan_subtree(t, path) == Scanned(t, _is_attribute_level(path))

_child_flags(flags, parent, key, base, head) ==
  IF Len(parent) < 2 THEN flags
  ELSE flags
    \cup {q \in {"expression_unevaluated"} : \E t \in {base, head} :
            _is_intrinsic_key(key, t, _is_attribute_level(parent))}
    \cup {q \in {"conditional"} : key = "Fn::If"}
    \cup {q \in {"external_value"} : \E t \in {base, head} : ExternalKey(key, Get(t, key))}

-----------------------------------------------------------------------------
\* The walk. A result is what it changed and what it could not compare.

Nothing_ == [changes |-> {}, uncompared |-> {}]
Both(results) == [changes |-> UNION {r.changes : r \in results},
                  uncompared |-> UNION {r.uncompared : r \in results}]

Emit(section, path, change, base, head, flags, types, typeChanged) ==
  [changes |-> {[section |-> section, path |-> canonical_path(path), change |-> change,
                 type_changed |-> typeChanged, types |-> types,
                 flags |-> flags \cup _scan_subtree(base, path) \cup _scan_subtree(head, path)]},
   uncompared |-> {}]

\* Why two nodes cannot be compared, or "".
_uncomparable(base, head) ==
  IF \E t \in {base, head} : IsMap(t) /\ t.marked THEN "duplicate_key"
  ELSE IF \E t \in {base, head} : IsMap(t) /\ t.odd THEN "non_string_key"
  ELSE IF \E t \in {base, head} : "time" \in DOMAIN t THEN "yaml_timestamp" ELSE ""

Uncompared(path, reason) ==
  [changes |-> {}, uncompared |-> {[path |-> canonical_path(path), reason |-> reason]}]

Change(base, head) == IF base = Missing THEN "added" ELSE IF head = Missing THEN "removed" ELSE "modified"

ItemOf(t, i) == IF i \in DOMAIN t.list THEN t.list[i] ELSE Missing

RECURSIVE _walk(_, _, _, _, _, _)
_walk(section, path, base, head, flags, types) ==
  IF _uncomparable(base, head) # "" THEN Uncompared(path, _uncomparable(base, head))
  ELSE IF IsMap(base) /\ IsMap(head)
  THEN Both({_walk(section, Append(path, key), Get(base, key), Get(head, key),
                   _child_flags(flags, path, key, base, head), types)
               : key \in KeysOf(base) \cup KeysOf(head)})
  ELSE IF IsList(base) /\ IsList(head)
  THEN Both({_walk(section, Append(path, Index(i)), ItemOf(base, i), ItemOf(head, i), flags, types)
               : i \in DOMAIN base.list \cup DOMAIN head.list})
  ELSE IF base = head THEN Nothing_
  ELSE Emit(section, path, Change(base, head), base, head, flags, types, FALSE)

\* One change for the whole of a part whose inside has no schema.
_opaque(section, path, base, head, flags, types) ==
  LET summed(inside) == IF inside.changes = {} THEN inside
        ELSE [Emit(section, path, Change(base, head), base, head, flags, types, FALSE)
                EXCEPT !.uncompared = inside.uncompared]
  IN  summed(_walk(section, path, base, head, flags, types))

NoTypes == [base |-> "", head |-> ""]
TypesOf(base, head) == [base |-> ResourceType(base), head |-> ResourceType(head)]

_resource(path, base, head, flags) ==
  LET types == TypesOf(base, head)
      part(key) ==
        LET l == Get(base, key)  r == Get(head, key)
            below == _child_flags(flags, path, key, base, head)
        IN  IF key \in RESOURCE_ATTRIBUTES \cup {"Properties"}
            THEN _walk("Resources", Append(path, key), l, r, below, types)
            ELSE _opaque("Resources", Append(path, key), l, r, below, types)
      typed(typeDiff) ==
        IF typeDiff.changes # {}
        THEN [Emit("Resources", path, "modified", base, head, flags, types, TRUE)
                EXCEPT !.uncompared = typeDiff.uncompared]
        ELSE Both({typeDiff} \cup {part(key) : key \in (KeysOf(base) \cup KeysOf(head)) \ {"Type"}})
  IN  IF _uncomparable(base, head) # "" THEN Uncompared(path, _uncomparable(base, head))
      ELSE IF ~(IsMap(base) /\ IsMap(head)) THEN _walk("Resources", path, base, head, flags, types)
      ELSE typed(_walk("Resources", Append(path, "Type"), Get(base, "Type"), Get(head, "Type"), flags, types))

_entries(section, base, head) ==
  LET names == KeysOf(base) \cup KeysOf(head)
      flags(name) == {q \in {"conditional"} : /\ section \in {"Resources", "Outputs"}
                        /\ \E t \in {base, head} : Has(Get(t, name), "Condition")}
  IN  IF _uncomparable(base, head) # "" THEN Uncompared(<<section>>, _uncomparable(base, head))
      ELSE IF ~(IsMap(base) /\ IsMap(head)) THEN _opaque(section, <<section>>, base, head, {}, NoTypes)
      ELSE Both({IF section = "Resources"
                 THEN _resource(<<section, name>>, Get(base, name), Get(head, name), flags(name))
                 ELSE _walk(section, <<section, name>>, Get(base, name), Get(head, name), flags(name), NoTypes)
                   : name \in names})

\* A repeated section is not compared at all.
Sections(base, head) ==
  LET one(section) ==
        LET b == Get(base.doc, section)  h == Get(head.doc, section)
        IN  IF section \in base.sections \cup head.sections
            THEN Uncompared(<<section>>, "duplicate_key")
            ELSE IF section \in ENTRY_SECTIONS \cup {"Resources"} THEN _entries(section, b, h)
            ELSE _opaque(section, <<section>>, b, h, {}, NoTypes)
      odd == {Uncompared(<<>>, "non_string_key") : t \in {x \in {base, head} : x.doc.odd}}
  IN  Both(odd \cup {one(section) : section \in KeysOf(base.doc) \cup KeysOf(head.doc)})

-----------------------------------------------------------------------------
\* One resource under two names: a removed and an added one of one type.

ResourcesUncompared(base, head) ==
  \/ "Resources" \in base.sections \cup head.sections
  \/ _uncomparable(Resources(base.doc), Resources(head.doc)) # ""

\* The resources of one side only that could not be compared, with their side
\* and the type that is known of them.
OneSided(base, head) ==
  LET resources == [base |-> Resources(base.doc), head |-> Resources(head.doc)]
      other == [base |-> "head", head |-> "base"]
      known(t) == IF IsMap(t) /\ t.marked THEN "" ELSE ResourceType(t)
  IN  IF ResourcesUncompared(base, head) THEN {}
      ELSE UNION {{[name |-> name, side |-> side, type |-> known(Get(resources[side], name))]
                    : name \in {n \in KeysOf(resources[side]) \ KeysOf(resources[other[side]]) :
                                  _uncomparable(Get(resources[side], n), Missing) # ""}}
                    : side \in {"base", "head"}}

RenameSide(change) ==
  IF change.section # "Resources" \/ Len(change.path) # 2 THEN ""
  ELSE CASE change.change = "removed" -> "base" [] change.change = "added" -> "head" [] OTHER -> ""

\* Whether an end of one side, of this type or of an unknown one (""), may
\* belong with an end of the other side.
Pairs(changes, oneSided, side, type, unknownPairs) ==
  LET other == IF side = "base" THEN "head" ELSE "base"
      ends == {c \in changes : RenameSide(c) = other}
      blind == {o \in oneSided : o.side = other}
  IN  \/ \E o \in blind : o.type = ""
      \/ IF type = "" THEN unknownPairs /\ (ends # {} \/ blind # {})
         ELSE type \in {c.types[other] : c \in ends} \cup {o.type : o \in blind}

Hinted(changes, oneSided) ==
  {c.path[2] : c \in {d \in changes : RenameSide(d) # ""
      /\ Pairs(changes, oneSided, RenameSide(d), d.types[RenameSide(d)], FALSE)}}

Candidates(base, head, changes, oneSided) ==
  {o.name : o \in {p \in oneSided : Pairs(changes, oneSided, p.side, p.type, TRUE)}}
    \cup IF ResourcesUncompared(base, head)
         THEN SymDiff(KeysOf(Resources(base.doc)), KeysOf(Resources(head.doc))) ELSE {}

-----------------------------------------------------------------------------
RECURSIVE _scan_limitations(_)
_scan_limitations(t) ==
  {q \in {"transform_not_expanded"} : "Fn::Transform" \in KeysOf(t) \/ IsStrOf(t, "AWS::Include")}
    \cup {q \in {"nested_stack_not_compared"} : IsStrOf(Get(t, "Type"), "AWS::CloudFormation::Stack")}
    \cup {q \in {"dynamic_reference_unresolved"} : (IsStr(t) /\ t.text \in DynamicTexts)
                                                    \/ KeysOf(t) \cap DynamicTexts # {}}
    \cup UNION {_scan_limitations(child) : child \in Children(t)}

Limitations(base, head, changes) ==
  _scan_limitations(base.doc) \cup _scan_limitations(head.doc)
    \cup {q \in {"transform_not_expanded"} : \E t \in {base, head} : Has(t.doc, "Transform")}
    \cup {q \in {"indirect_effects_not_evaluated"} : \E c \in changes : c.section \in INDIRECT_SECTIONS}

Emitted(c, limits, hinted) ==
  [section |-> c.section, path |-> c.path, change |-> c.change, type_changed |-> c.type_changed,
   types |-> c.types, qualifiers |-> c.flags \cup {q \in {"pre_transform"} : "transform_not_expanded" \in limits},
   hint |-> RenameSide(c) # "" /\ c.path[2] \in hinted]
Finished(found, limits, hinted, candidates) ==
  [changes |-> {Emitted(c, limits, hinted) : c \in found.changes}, uncompared |-> found.uncompared,
   limitations |-> limits, candidates |-> candidates]
_finish(base, head, found, oneSided) ==
  Finished(found, Limitations(base, head, found.changes), Hinted(found.changes, oneSided),
           Candidates(base, head, found.changes, oneSided))
diff(base, head) == _finish(base, head, Sections(base, head), OneSided(base, head))

TooManyChanges(d) == Cardinality(d.changes) > MAX_CHANGE_ENTRIES

rename_hints(d) == d.candidates \cup {c.path[2] : c \in {e \in d.changes : e.hint}}
=============================================================================
