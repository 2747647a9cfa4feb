-------------------------- MODULE TemplateBoundary --------------------------
(***************************************************************************)
(* What two versions of one Template differ in, and which differences a    *)
(* remediation contract allows: semdiff.diff (iacreview/semdiff.py), the   *)
(* Template half of iacreview/remediation/boundary.py, and the statement   *)
(* comparison of verify.py.                                                *)
(*                                                                         *)
(* A Template is its Resources, one more section (`other', compared as one *)
(* value) and whether it has a Transform.  A Resource is its Type, its     *)
(* attributes and its Properties; the value of an attribute or a property  *)
(* is a leaf.  Absent keys are keys outside the DOMAIN.                    *)
(*                                                                         *)
(* Paths of the comparison lose the spelling of digit-only names (the      *)
(* Logical IDs "7" and "07" are both written 7): Canon is that loss.       *)
(***************************************************************************)
EXTENDS Naturals, FiniteSets, Sequences

CONSTANTS
    LogicalIds,     \* names of Resources
    Canon,          \* LogicalIds -> the name a path of the comparison shows
    Types,          \* Resource Types
    ProfileType,    \* the Type the profile repairs
    Props,          \* property names
    Leaves,         \* values of properties and attributes
    Marked,         \* leaves that repeat a key: not comparable
    Qualified,      \* leaves with a dynamic reference or an external value
    Conditional,    \* leaves with an Fn::If somewhere inside
    StatementsOf,   \* Leaves -> what the required Sid selects in the leaf
    Unreadable      \* StatementsOf a leaf that is not a list of policies

Attributes == {"Condition", "DependsOn"}
Operations == {"add", "replace", "remove"}

\* The functions from a part of S to T: a mapping whose keys may be absent.
Mappings(S, T) == UNION {[D -> T] : D \in SUBSET S}

\* hasProperties = FALSE: there is no Properties key (and properties is empty).
Resource ==
    {r \in [type : Types, attributes : Mappings(Attributes, Leaves),
            hasProperties : BOOLEAN, properties : Mappings(Props, Leaves)] :
        r.hasProperties \/ DOMAIN r.properties = {}}

IsTemplate(t) ==
    /\ DOMAIN t.resources \subseteq LogicalIds
    /\ IsFiniteSet(DOMAIN t.resources)
    /\ t \in [resources : [DOMAIN t.resources -> Resource], other : Leaves,
              transform : BOOLEAN]

\* What the contract says about the Template.
EditScope == [resource : LogicalIds, edits : Mappings(Props, SUBSET Operations)]

ASSUME TemplateAssumption ==
    /\ ProfileType \in Types
    /\ Marked \subseteq Leaves
    /\ Qualified \subseteq Leaves
    /\ Conditional \subseteq Leaves
    /\ DOMAIN Canon = LogicalIds
    /\ DOMAIN StatementsOf = Leaves

-----------------------------------------------------------------------------
\* The comparison of two mappings, key by key.

\* Neither side of f and g holds a value at k that must not be compared.
Comparable(f, g, k) ==
    /\ k \in DOMAIN f => f[k] \notin Marked
    /\ k \in DOMAIN g => g[k] \notin Marked

Differ(f, g, k) ==
    ~ (k \in DOMAIN f /\ k \in DOMAIN g /\ f[k] = g[k])

Keys(f, g) == DOMAIN f \cup DOMAIN g

\* The kind of a Change_Entry at key k.
Kind(f, g, k) ==
    IF k \notin DOMAIN f THEN "added"
    ELSE IF k \notin DOMAIN g THEN "removed" ELSE "modified"

Entry(path, kind, retyped, qualified) ==
    [path |-> path, kind |-> kind, retyped |-> retyped, qualified |-> qualified]

-----------------------------------------------------------------------------
\* semdiff.diff

\* The Resources that exist on both sides with one Type: only their insides
\* are compared.
Paired(b, h) ==
    {id \in DOMAIN b.resources \cap DOMAIN h.resources :
        b.resources[id].type = h.resources[id].type}

\* Properties are walked key by key when both sides have them.
PropertyKeys(br, hr) ==
    IF br.hasProperties /\ hr.hasProperties
    THEN Keys(br.properties, hr.properties) ELSE {}

\* A Resource with a Condition attribute on a side qualifies all its changes.
ConditionalResource(br, hr) ==
    "Condition" \in DOMAIN br.attributes \cup DOMAIN hr.attributes

LeafQualified(f, g, k) ==
    \/ k \in DOMAIN f /\ f[k] \in Qualified
    \/ k \in DOMAIN g /\ g[k] \in Qualified

PairedChanges(br, hr, id) ==
    {Entry(<<"Resources", Canon[id], "Properties", p>>, Kind(br.properties, hr.properties, p),
           FALSE, ConditionalResource(br, hr) \/ LeafQualified(br.properties, hr.properties, p)) :
        p \in {q \in PropertyKeys(br, hr) :
                  /\ Comparable(br.properties, hr.properties, q)
                  /\ Differ(br.properties, hr.properties, q)}}
    \cup
    {Entry(<<"Resources", Canon[id], a>>, Kind(br.attributes, hr.attributes, a),
           FALSE, ConditionalResource(br, hr)) :
        a \in {c \in Keys(br.attributes, hr.attributes) :
                  /\ Comparable(br.attributes, hr.attributes, c)
                  /\ Differ(br.attributes, hr.attributes, c)}}
    \cup
    {Entry(<<"Resources", Canon[id], "Properties">>,
           IF hr.hasProperties THEN "added" ELSE "removed",
           FALSE, ConditionalResource(br, hr)) :
        x \in {y \in {id} : br.hasProperties # hr.hasProperties}}

\* Change_Entries of whole Resources: on one side only, or of another Type.
WholeResourceChanges(b, h) ==
    {Entry(<<"Resources", Canon[id]>>, Kind(b.resources, h.resources, id),
           id \in DOMAIN b.resources \cap DOMAIN h.resources, FALSE) :
        id \in Keys(b.resources, h.resources) \ Paired(b, h)}

SectionChanges(b, h) ==
    {Entry(<<"Description">>, "modified", FALSE, FALSE) :
        x \in {y \in {"other"} : {b.other, h.other} \cap Marked = {} /\ b.other # h.other}}
    \cup
    {Entry(<<"Transform">>, IF h.transform THEN "added" ELSE "removed", FALSE, FALSE) :
        x \in {y \in {"transform"} : b.transform # h.transform}}

Changes(b, h) ==
    WholeResourceChanges(b, h) \cup SectionChanges(b, h)
    \cup UNION {PairedChanges(b.resources[id], h.resources[id], id) : id \in Paired(b, h)}

\* Some position was left out of the comparison.
Uncompared(b, h) ==
    \/ {b.other, h.other} \cap Marked # {}
    \/ \E id \in Paired(b, h) :
        LET br == b.resources[id]
            hr == h.resources[id]
        IN  \/ \E p \in PropertyKeys(br, hr) : ~ Comparable(br.properties, hr.properties, p)
            \/ \E a \in Keys(br.attributes, hr.attributes) :
                    ~ Comparable(br.attributes, hr.attributes, a)

TransformNotExpanded(b, h) == b.transform \/ h.transform

-----------------------------------------------------------------------------
\* boundary.template

\* The Logical IDs, on either side, a path of the comparison may stand for.
Spellings(name, b, h) ==
    {id \in Keys(b.resources, h.resources) : Canon[id] = name}

\* mutant: only a name with no spelling is ambiguous
AmbiguousIfUnknown(change, b, h) ==
    Len(change.path) >= 2 /\ Spellings(change.path[2], b, h) = {}

Ambiguous(change, b, h) ==
    Len(change.path) >= 2 /\ Cardinality(Spellings(change.path[2], b, h)) # 1

InTarget(scope, change, b, h) ==
    /\ Len(change.path) >= 2
    /\ Spellings(change.path[2], b, h) = {scope.resource}

\* The property-level operation an allowed property was changed with.
Operation(scope, b, h, p) ==
    LET has(t) == /\ scope.resource \in DOMAIN t.resources
                  /\ p \in DOMAIN t.resources[scope.resource].properties
    IN  IF has(b) /\ has(h) THEN "replace" ELSE IF has(h) THEN "add" ELSE "remove"

\* _has_condition on the property of either side.
HasCondition(scope, b, h, p) ==
    \E t \in {b, h} :
        /\ scope.resource \in DOMAIN t.resources
        /\ p \in DOMAIN t.resources[scope.resource].properties
        /\ t.resources[scope.resource].properties[p] \in Conditional

\* A change of the Resource as a whole: path of length 2.
ResourceCode(scope, change, b, h) ==
    IF change.retyped THEN "resource_type_changed"
    ELSE IF change.kind = "added" THEN "resource_added"
    ELSE IF change.kind = "removed" THEN "resource_removed"
    ELSE IF InTarget(scope, change, b, h) THEN "parent_replaced"
    ELSE "template_change_outside_scope"

\* The codes of a change inside the contract's Resource.
TargetCodes(scope, change, b, h) ==
    IF change.path[3] # "Properties" THEN {"template_change_outside_scope"}
    ELSE IF Len(change.path) = 3 THEN {"parent_replaced"}
    ELSE LET p == change.path[4]
         IN  IF p \notin DOMAIN scope.edits THEN {"template_change_outside_scope"}
             ELSE IF Operation(scope, b, h, p) \notin scope.edits[p]
                  THEN {"operation_not_allowed"}
             ELSE IF \/ change.qualified
                     \/ TransformNotExpanded(b, h)
                     \/ HasCondition(scope, b, h, p)
                  THEN {"unsupported_construct"} ELSE {}

ChangeCodes(scope, change, b, h) ==
    IF Ambiguous(change, b, h) THEN {"comparison_incomplete"}
    ELSE IF Len(change.path) = 2 THEN {ResourceCode(scope, change, b, h)}
    ELSE IF ~ InTarget(scope, change, b, h) THEN {"template_change_outside_scope"}
    ELSE TargetCodes(scope, change, b, h)

\* The contract fits Base: its Resource is there, of the profile's Type.
FitsBase(scope, b) ==
    /\ scope.resource \in DOMAIN b.resources
    /\ b.resources[scope.resource].type = ProfileType

TemplateCodes(scope, b, h) ==
    {c \in {"comparison_incomplete"} : Uncompared(b, h)}
    \cup {c \in {"unsupported_construct"} : TransformNotExpanded(b, h)}
    \cup {c \in {"target_resource_missing"} : ~ FitsBase(scope, b)}
    \cup UNION {ChangeCodes(scope, change, b, h) : change \in Changes(b, h)}

-----------------------------------------------------------------------------
\* verify._statements: the statements the required Sid selects.

GuardedProperty == "Policies"

GuardedLeaf(scope, t) ==
    {t.resources[id].properties[GuardedProperty] :
        id \in {i \in DOMAIN t.resources \cap {scope.resource} :
                   GuardedProperty \in DOMAIN t.resources[i].properties}}

Statements(scope, t) ==
    IF GuardedLeaf(scope, t) = {} THEN <<>>
    ELSE StatementsOf[CHOOSE leaf \in GuardedLeaf(scope, t) : TRUE]

-----------------------------------------------------------------------------
(***************************************************************************)
(* What the contract means, stated without the comparison: Head is Base    *)
(* but for the listed properties of the one Resource, each changed by an   *)
(* operation it lists.                                                     *)
(***************************************************************************)
OnlyAllowedEdits(scope, b, h) ==
    /\ h.other = b.other
    /\ h.transform = b.transform
    /\ DOMAIN h.resources = DOMAIN b.resources
    /\ \A id \in DOMAIN b.resources : h.resources[id] # b.resources[id] =>
        LET br == b.resources[id]
            hr == h.resources[id]
        IN  /\ id = scope.resource
            /\ hr.type = br.type
            /\ hr.attributes = br.attributes
            /\ hr.hasProperties = br.hasProperties
            /\ \A p \in Keys(br.properties, hr.properties) :
                Differ(br.properties, hr.properties, p) =>
                    /\ p \in DOMAIN scope.edits
                    /\ Operation(scope, b, h, p) \in scope.edits[p]
=============================================================================
