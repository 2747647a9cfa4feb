----------------------------- MODULE ResourceGraph -----------------------------
\* The references between the resources of a Template, and the network review
\* that reads them (iacreview/netgraph.py).
\*
\* Resources and their references are sets here. Python keeps the order of the
\* file; it decides which finding comes first and which of several cycles is
\* found, and nothing else. Where one is needed it is that of Lexical.
EXTENDS Finding

CONSTANTS
  PseudoNames,     \* the names that begin with "AWS::"
  BeforeDot        \* a name that holds a "." -> the part before it

NETWORK_SOURCE == "Network Review"
InOrder(names) == SortedSet(names, LAMBDA a, b : Lex(a) < Lex(b))
FirstPart(name) == IF name \in DOMAIN BeforeDot THEN BeforeDot[name] ELSE name

-----------------------------------------------------------------------------
\* References: the names a value mentions.

_getatt_target(value) ==
  IF IsStr(value) THEN {FirstPart(value.text)} \ {""}
  ELSE IF IsList(value) /\ value.list # <<>> THEN {n.text : n \in {x \in {value.list[1]} : IsStr(x)}} ELSE {}

RECURSIVE _iter_refs(_)
_refs_of_key(key, inner) ==
  IF key = "Ref" /\ IsStr(inner) THEN {inner.text} \ PseudoNames
  ELSE IF key = "Fn::GetAtt" THEN _getatt_target(inner)
  ELSE _iter_refs(inner)
_iter_refs(value) ==
  IF IsMap(value) THEN UNION {_refs_of_key(k, value.map[k]) : k \in KeysOf(value)}
  ELSE UNION {_iter_refs(c) : c \in Children(value)}

depends_ids(depends) == {d.text : d \in {x \in {depends} \cup (IF IsList(depends) THEN Range(depends.list) ELSE {}) : IsStr(x)}}

\* Each resource that is a mapping -> the other resources it refers to.
build_graph(doc) ==
  LET ids == {id \in KeysOf(Resources(doc)) : IsMap(Resources(doc).map[id])}
      mentioned(body) == _iter_refs(Get(body, "Properties")) \cup depends_ids(Get(body, "DependsOn"))
  IN  [id \in ids |-> (mentioned(Resources(doc).map[id]) \cap ids) \ {id}]

of_type(doc, type) == {id \in DOMAIN build_graph(doc) : ResourceType(Resources(doc).map[id]) = type}
references_from(graph, ids) == UNION {graph[id] : id \in ids}
references_to(graph, id) == {n \in DOMAIN graph : id \in graph[n]}
Property(doc, id, key) == Get(Get(Resources(doc).map[id], "Properties"), key)

-----------------------------------------------------------------------------
\* The detectors: what each finds is a set of resources.

_TYPE_IGW == "AWS::EC2::InternetGateway"
_TYPE_IGW_ATTACHMENT == "AWS::EC2::VPCGatewayAttachment"
_TYPE_ROUTE_TABLE == "AWS::EC2::RouteTable"
_TYPE_ROUTE == "AWS::EC2::Route"
_TYPE_RDS == "AWS::RDS::DBInstance"

detect_igw_not_attached(doc) ==
  of_type(doc, _TYPE_IGW) \ references_from(build_graph(doc), of_type(doc, _TYPE_IGW_ATTACHMENT))

detect_route_table_without_default_route(doc) ==
  LET isDefault(route) == \E cidr \in {"0.0.0.0/0", "::/0"} : IsStrOf(Property(doc, route, "DestinationCidrBlock"), cidr)
      routes == {r \in of_type(doc, _TYPE_ROUTE) : isDefault(r)}
  IN  IF of_type(doc, _TYPE_IGW) = {} THEN {}
      ELSE of_type(doc, _TYPE_ROUTE_TABLE) \ references_from(build_graph(doc), routes)

detect_rds_public_subnet_exposure(doc) ==
  {id \in of_type(doc, _TYPE_RDS) : of_type(doc, _TYPE_IGW) # {} /\ Property(doc, id, "PubliclyAccessible") = Number(TRUE)}

\* An association is a reference, so what has one is not looked for separately.
detect_orphaned_network_resource(doc) ==
  {id \in of_type(doc, _TYPE_ROUTE_TABLE) : references_to(build_graph(doc), id) = {}}

OwnFinding(source, category, type, severity, file, id, path, rule, excerpt) ==
  [ID |-> UNASSIGNED_ID, Normalized_Category |-> category, FindingType |-> type, Severity |-> severity,
   Confidence |-> "Confirmed", Source |-> <<source>>, Resource |-> id, File |-> file, Line |-> None,
   Path |-> path, Text |-> rule, Fix |-> None,
   Evidence |-> <<[Source |-> source, Detail |-> rule, RuleId |-> rule, Excerpt |-> excerpt, Notices |-> {}]>>]

NetworkFinding(file, rule, type, severity, id) ==
  OwnFinding(NETWORK_SOURCE, "NetworkSecurity", type, severity, file, id, <<"Resources", id>>, rule, rule)
NetworkFindings(doc, file) ==
  LET each(ids, rule, type, severity) ==
        LET found == InOrder(ids)
        IN  [i \in DOMAIN found |-> NetworkFinding(file, rule, type, severity, found[i])]
  IN  each(detect_igw_not_attached(doc), "igw_not_attached", "Security", "HIGH")
        \o each(detect_route_table_without_default_route(doc), "route_table_no_default_route", "Security", "MEDIUM")
        \o each(detect_rds_public_subnet_exposure(doc), "rds_reachable_from_internet", "Security", "HIGH")
        \o each(detect_orphaned_network_resource(doc), "orphaned_route_table", "BestPractice", "LOW")
=============================================================================
