------------------------------ MODULE DeltaInput ------------------------------
\* How the delta tool reads its inputs (iacreview/deltaio.py). A mapping that
\* repeats a key is read as its last value, as every parser does, but is marked:
\* what the other values said cannot be compared.
\*
\* A mapping of a file is [pairs, merge, odd]: its string keys in order, with
\* repetitions, the mappings it merges with "<<", and whether it has keys that
\* are not strings. Everything else in a file is the node it parses to.
EXTENDS TemplateTree, FiniteSetsExt

CONSTANTS MAX_TEMPLATE_NODES, MAX_TEMPLATE_DEPTH

IsSource(s) == "pairs" \in DOMAIN s
OwnKeys(s) == {s.pairs[i].key : i \in DOMAIN s.pairs}
RepeatedKeys(s) == {s.pairs[i].key : i \in {j \in DOMAIN s.pairs :
                      \E k \in 1..(j - 1) : s.pairs[k].key = s.pairs[j].key}}

RECURSIVE IsMarked(_)
\* The marks of the merged mappings are forgotten.
IsMarked_OwnKeys(s) == RepeatedKeys(s) # {}

\* A mapping that merges a marked one inherits what cannot be compared.
IsMarked(s) == RepeatedKeys(s) # {} \/ \E i \in DOMAIN s.merge : IsMarked(s.merge[i])

RECURSIVE AllKeys(_)
AllKeys(s) == OwnKeys(s) \cup UNION {AllKeys(s.merge[i]) : i \in DOMAIN s.merge}

\* At the root it is the sections that are marked, and not the document.
DuplicateSections(s) ==
  RepeatedKeys(s) \cup UNION {AllKeys(s.merge[i]) : i \in {j \in DOMAIN s.merge : IsMarked(s.merge[j])}}

RECURSIVE Parsed(_)
\* The last pair wins, an own key wins over a merged one, and of the merged
\* mappings the first.
Value(s, key) ==
  IF key \in OwnKeys(s)
  THEN Parsed(s.pairs[CHOOSE i \in DOMAIN s.pairs :
                        s.pairs[i].key = key /\ \A j \in DOMAIN s.pairs : s.pairs[j].key = key => j <= i].node)
  ELSE LET first == CHOOSE i \in DOMAIN s.merge :
                      key \in AllKeys(s.merge[i]) /\ \A j \in 1..(i - 1) : key \notin AllKeys(s.merge[j])
       IN  Parsed(s.merge[first]).map[key]

Parsed(s) ==
  IF IsSource(s) THEN [map |-> [key \in AllKeys(s) |-> Value(s, key)], marked |-> IsMarked(s), odd |-> s.odd]
  ELSE IF IsList(s) THEN [list |-> [i \in DOMAIN s.list |-> Parsed(s.list[i])]]
  ELSE s

-----------------------------------------------------------------------------
\* The limits on what was parsed.

RECURSIVE Nodes(_), Depth(_), Containers(_)
Parts(t) == IF IsMap(t) THEN t.map ELSE IF IsList(t) THEN t.list ELSE <<>>
Nodes(t) == 1 + MapThenSumSet(LAMBDA k : Nodes(Parts(t)[k]), DOMAIN Parts(t))
Depth(t) == 1 + Max({0} \cup {Depth(c) : c \in Children(t)})
Containers(t) == (IF IsMap(t) \/ IsList(t) THEN 1 ELSE 0)
                   + MapThenSumSet(LAMBDA k : Containers(Parts(t)[k]), DOMAIN Parts(t))

check_structure(t) ==
  IF Containers(t) > MAX_TEMPLATE_NODES THEN "template_node_limit_exceeded"
  ELSE IF Depth(t) > MAX_TEMPLATE_DEPTH THEN "template_depth_limit_exceeded"
  ELSE IF Nodes(t) > MAX_TEMPLATE_NODES THEN "template_node_limit_exceeded" ELSE "ok"

-----------------------------------------------------------------------------
\* A file is [kind, ...]. What cannot be read is the kind; a "text" parses to
\* the tree of its source, a "cyclic" one to a document with an alias cycle.
ReadFailure(kind, input) ==
  CASE kind = "missing" -> "input_not_found"
    [] kind \in {"outside", "irregular", "replaced"} -> "path_violation"
    [] kind = "too_large" -> IF input = "template" THEN "template_too_large" ELSE "report_too_large"
    [] kind = "not_utf8" -> IF input = "template" THEN "template_encoding_failure" ELSE "report_parse_failure"
    [] OTHER -> "ok"

\* What keeps a template from being compared, or "ok".
parse_template(file) ==
  CASE file.kind \in {"empty", "unparsable"} -> "template_parse_failure"
    [] file.kind = "divergent" -> "parser_divergence"
    [] file.kind = "cyclic" -> "template_alias_cycle"
    [] file.kind = "text" ->
         IF ~is_reviewable(Parsed(file.source)) THEN "template_not_reviewable"
         ELSE check_structure(Parsed(file.source))

read_template(file) ==
  IF ReadFailure(file.kind, "template") # "ok" THEN ReadFailure(file.kind, "template")
  ELSE parse_template(file)

\* A strict reader: a repeated key or a number that is not finite rejects the
\* whole report.
parse_report(file) ==
  CASE file.kind \in {"empty", "unparsable", "non_finite"} -> "report_parse_failure"
    [] file.kind = "repeated_key" -> "report_duplicate_json_key"
    [] file.kind = "report" -> "ok"

read_report(file) ==
  IF ReadFailure(file.kind, "report") # "ok" THEN ReadFailure(file.kind, "report")
  ELSE parse_report(file)

\* What a compared template is: its document, with the marks, and the sections
\* its root repeats.
ParsedTemplate(file) == [doc |-> [Parsed(file.source) EXCEPT !.marked = FALSE],
                         sections |-> DuplicateSections(file.source)]
=============================================================================
