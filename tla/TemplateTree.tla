----------------------------- MODULE TemplateTree -----------------------------
\* The document a Template file turns into (iacreview/template.py, yamlcfn.py):
\* mappings from strings, lists and scalars. Every analysis of a Template reads
\* such a tree, and nothing in it is evaluated.
EXTENDS Integers, Sequences, FiniteSets, SequencesExt

CONSTANTS
  Digits,             \* a segment of a path that is made of digits -> the index it denotes
  PseudoParameters,   \* a pseudo parameter -> the text that stands for it
  Functions_          \* the keys that begin with "Fn::"

Text(s) == [text |-> s]
Number(s) == [number |-> s]      \* any scalar that is not a string
Time(s) == [time |-> s]          \* a YAML timestamp
List(xs) == [list |-> xs]
Map(f) == [map |-> f, marked |-> FALSE, odd |-> FALSE]
Missing == [missing |-> TRUE]

\* A place in a list, as a segment of a path.
Index(i) == <<"#0", "#1", "#2", "#3">>[i]

IsStr(t) == "text" \in DOMAIN t
IsList(t) == "list" \in DOMAIN t
IsMap(t) == "map" \in DOMAIN t
Has(t, key) == IsMap(t) /\ key \in DOMAIN t.map
Get(t, key) == IF Has(t, key) THEN t.map[key] ELSE Missing
KeysOf(t) == IF IsMap(t) THEN DOMAIN t.map ELSE {}
IsStrOf(t, s) == IsStr(t) /\ t.text = s

Children(t) == IF IsMap(t) THEN {t.map[k] : k \in DOMAIN t.map}
               ELSE IF IsList(t) THEN {t.list[i] : i \in DOMAIN t.list} ELSE {}

\* A document with at least one resource.
is_reviewable(doc) == IsMap(Get(doc, "Resources")) /\ KeysOf(Get(doc, "Resources")) # {}

Resources(doc) == Get(doc, "Resources")
ResourceType(resource) == IF IsStr(Get(resource, "Type")) THEN Get(resource, "Type").text ELSE ""
=============================================================================
