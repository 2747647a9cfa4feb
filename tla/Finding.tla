------------------------------- MODULE Finding -------------------------------
\* The Finding every Source of a review reports (iacreview/finding.py): its
\* schema, how a JSON object becomes one, and what is redacted from it.
\*
\* A text is a string of the instance and is never taken apart. WhyItMatters
\* and Recommendation always travel with the Finding text, so Text stands for
\* the three. None is null; Odd is any value of a type a field does not accept.
EXTENDS TemplateTree

CONSTANTS
  None,         \* null, or an absent optional field
  Odd,          \* a value of the wrong type
  Lexical,      \* the instance's strings, in the order Python sorts them
  Categories,   \* the categories of the category map
  Words,        \* excerpt -> the whole identifiers it mentions
  AbsolutePaths,\* the spellings of absolute paths
  PathOf        \* a spelling of a path -> its normal form, or None when it is
                \* absolute, empty or leaves the workspace

Place == [s \in Range(Lexical) |-> CHOOSE i \in DOMAIN Lexical : Lexical[i] = s]
Lex(s) == IF s = None THEN 0 ELSE Place[s]

FINDING_TYPE_ORDER == [Security |-> 3, Validity |-> 2, BestPractice |-> 1, Informational |-> 0]
SEVERITY_ORDER == [CRITICAL |-> 4, HIGH |-> 3, MEDIUM |-> 2, LOW |-> 1, INFO |-> 0]
CONFIDENCE_ORDER == [Confirmed |-> 2, Likely |-> 1, Contextual |-> 0]
SOURCES == <<"cfn-lint", "cfn-guard", "IAM Review", "Network Review",
             "Secret Review", "Quality Review", "Agent Review">>
SOURCE_ORDER == [s \in Range(SOURCES) |-> CHOOSE i \in DOMAIN SOURCES : SOURCES[i] = s]
AGENT_SOURCE == "Agent Review"
OTHER_CATEGORY == "Other"
UNASSIGNED_ID == 0

\* Strings are listed once, null is none of them, and a value of the wrong type
\* is none of the right ones.
ASSUME LexicalAssumption ==
  /\ Lexical \in Seq(Range(Lexical)) /\ IsInjective(Lexical)
  /\ None \notin Range(Lexical) \cup {Odd}
  /\ Categories \subseteq Range(Lexical)
ASSUME OddAssumption ==
  Odd \notin Range(Lexical) /\ Odd \notin Range(SOURCES) /\ Odd \notin BOOLEAN
ASSUME NumberAssumption == None \notin Nat /\ Odd \notin Nat

\* A normal path is its own normal form, relative and not empty.
ASSUME PathAssumption ==
  \A s \in DOMAIN PathOf : PathOf[s] # None =>
    /\ PathOf[s] \in DOMAIN PathOf \cap Range(Lexical) /\ PathOf[PathOf[s]] = PathOf[s]
    /\ PathOf[s] \notin AbsolutePaths \cup {""}

Texts == Range(Lexical)
OptionalTexts == Texts \cup {None}
NOTICES == {"credential_rule", "no_echo_parameter"}
EvidenceEntries == [Source : DOMAIN SOURCE_ORDER, Detail : Texts, RuleId : OptionalTexts,
                    Excerpt : OptionalTexts, Notices : SUBSET NOTICES]
Findings ==
  [ID : Nat, Normalized_Category : Categories, FindingType : DOMAIN FINDING_TYPE_ORDER,
   Severity : DOMAIN SEVERITY_ORDER, Confidence : DOMAIN CONFIDENCE_ORDER,
   Source : Seq(DOMAIN SOURCE_ORDER) \ {<<>>}, Resource : OptionalTexts, File : Texts \cap DOMAIN PathOf,
   Line : Nat \cup {None}, Path : Seq(Texts) \cup {None}, Text : Texts,
   Evidence : Seq(EvidenceEntries) \ {<<>>}, Fix : OptionalTexts]

\* The elements of S, by how many of S come before each in the order R.
Ranked(S, R) ==
  LET ranks == {<<e, Cardinality({d \in S : <<d, e>> \in R})>> : e \in S}
  IN  [n \in 1..Cardinality(S) |-> (CHOOSE r \in ranks : r[2] = n - 1)[1]]

\* The elements of a set, in an order that tells them apart.
SortedSet(S, Before(_, _)) == Ranked(S, {p \in S \X S : Before(p[1], p[2])})

\* Python's sort: of two elements that neither comes before the other, the one
\* that was first stays first.
StableSort(s, Before(_, _)) ==
  LET order == SortedSet(DOMAIN s, LAMBDA i, j :
                 IF i < j THEN ~Before(s[j], s[i]) ELSE Before(s[i], s[j]))
  IN  [n \in DOMAIN s |-> s[order[n]]]

\* The elements of a sequence that pass a test, in their order.
Chosen(s, Test(_)) ==
  LET places == SortedSet({i \in DOMAIN s : Test(s[i])}, LAMBDA i, j : i < j)
  IN  [n \in DOMAIN places |-> s[places[n]]]

LexLess(s, t) ==
  \E i \in 1..(Len(s) + 1) :
    /\ \A j \in 1..(i - 1) : j <= Len(t) /\ s[j] = t[j]
    /\ i <= Len(t) /\ (i > Len(s) \/ s[i] < t[i])

sorted_sources(sources) == SortedSet(sources, LAMBDA s, t : SOURCE_ORDER[s] < SOURCE_ORDER[t])

\* Only the segment after the section name is a logical ID, and keeps its digits.
canonical_template_path(segments) ==
  [i \in DOMAIN segments |->
     IF i # 2 /\ segments[i] \in DOMAIN Digits THEN Digits[segments[i]] ELSE segments[i]]

is_dedup_eligible(f) == f.Normalized_Category # OTHER_CATEGORY /\ f.Resource # None

-----------------------------------------------------------------------------
\* Redaction.

CREDENTIAL_RULE_IDS == {"W1011", "W2501"}
REDACTED_EXCERPT == "[redacted]"

\* NoEcho is the boolean true, or a text that spells it.
IsNoEcho(t) == t = Number(TRUE) \/ (IsStr(t) /\ t.text \in {"true", " True "})
noecho_parameter_names(doc) ==
  LET parameters == Get(doc, "Parameters")
  IN  {p \in KeysOf(parameters) : IsNoEcho(Get(parameters.map[p], "NoEcho"))}

InParametersSection(path, names) ==
  /\ names # {} /\ path # None /\ path # <<>>
  /\ path[1] = "Parameters"
  /\ Len(path) = 1 \/ path[2] \in names

redaction_trigger(e, path, names) ==
  IF e.RuleId \in CREDENTIAL_RULE_IDS THEN "credential_rule"
  ELSE IF \/ InParametersSection(path, names)
          \/ e.Excerpt # None /\ Words[e.Excerpt] \cap names # {}
       THEN "no_echo_parameter" ELSE "none"

\* The notice is added once, to the evidence entry whose excerpt went away.
redact_finding(f, names) ==
  [f EXCEPT !.Evidence = [i \in DOMAIN @ |->
     LET trigger == redaction_trigger(@[i], f.Path, names)
     IN  IF trigger = "none" \/ @[i].Excerpt \in {None, REDACTED_EXCERPT} THEN @[i]
         ELSE [@[i] EXCEPT !.Excerpt = REDACTED_EXCERPT, !.Notices = @ \cup {trigger}]]]

-----------------------------------------------------------------------------
\* validate(): each conjunct raises SchemaViolationError in the code.

IsText(v) == v \notin {None, Odd, ""}
IsOptionalText(v) == v = None \/ IsText(v)

ValidLocation(f) ==
  /\ IsText(f.File) /\ f.File \notin AbsolutePaths
  /\ f.Line \notin {Odd, 0}
  /\ f.Path # Odd

ValidEvidence(es) ==
  /\ es # <<>>
  /\ \A i \in DOMAIN es : /\ es[i].Source \in DOMAIN SOURCE_ORDER
                          /\ IsText(es[i].Detail)
                          /\ IsOptionalText(es[i].RuleId)
                          /\ IsOptionalText(es[i].Excerpt)

ValidSource(s) ==
  /\ s \notin {Odd, None, <<>>}
  /\ Range(s) \subseteq DOMAIN SOURCE_ORDER
  /\ s = sorted_sources(Range(s))

ConfirmedExcludesAgent(f) ==
  ~(f.Confidence = "Confirmed" /\ AGENT_SOURCE \in Range(f.Source))

ExcerptPresent(f) ==
  f.Confidence = "Confirmed" \/ \E i \in DOMAIN f.Evidence : f.Evidence[i].Excerpt # None

\* set_blocks_deployment_resolver() has no caller outside the tests, so any
\* RuleId will do.
ValidityCritical(f) ==
  f.FindingType = "Validity" /\ f.Severity = "CRITICAL"
    => \E i \in DOMAIN f.Evidence : f.Evidence[i].RuleId # None

OtherNotMerged(f) == f.Normalized_Category = OTHER_CATEGORY => Len(f.Source) = 1

Valid(f) ==
  /\ f.ID \notin {None, Odd} /\ f.ID >= 1
  /\ f.Normalized_Category \in Categories
  /\ f.FindingType \in DOMAIN FINDING_TYPE_ORDER
  /\ f.Severity \in DOMAIN SEVERITY_ORDER
  /\ f.Confidence \in DOMAIN CONFIDENCE_ORDER
  /\ ValidSource(f.Source)
  /\ IsOptionalText(f.Resource)
  /\ ValidLocation(f)
  /\ IsText(f.Text)
  /\ ValidEvidence(f.Evidence)
  /\ IsOptionalText(f.Fix)
  /\ ConfirmedExcludesAgent(f) /\ ExcerptPresent(f)
  /\ ValidityCritical(f) /\ OtherNotMerged(f)

\* What a Source reports is valid but for its number.
Sound(f) == Valid([f EXCEPT !.ID = 1])
SoundFindings == {f \in Findings : Sound(f)}

-----------------------------------------------------------------------------
\* from_dict(): an object is its keys and their values.

FINDING_FIELDS == {"ID", "Normalized_Category", "FindingType", "Severity", "Confidence",
                   "Source", "Resource", "Location", "Text", "Evidence", "Fix"}
LOCATION_FIELDS == {"File", "Line", "Path"}
EVIDENCE_FIELDS == {"Source", "Detail", "RuleId", "Excerpt"}

Optional(d, key) == IF key \in DOMAIN d THEN d[key] ELSE None

HasKeys(d, required, permitted) ==
  /\ d \notin {Odd, None}
  /\ required \subseteq DOMAIN d /\ DOMAIN d \subseteq permitted

WellShaped(d) ==
  /\ HasKeys(d, FINDING_FIELDS, FINDING_FIELDS)
  /\ HasKeys(d.Location, {"File"}, LOCATION_FIELDS)
  /\ d.Evidence \notin {Odd, None}
  /\ \A i \in DOMAIN d.Evidence :
       HasKeys(d.Evidence[i], {"Source", "Detail"}, EVIDENCE_FIELDS)

EvidenceOf(d) == [Source |-> d.Source, Detail |-> d.Detail, RuleId |-> Optional(d, "RuleId"),
                  Excerpt |-> Optional(d, "Excerpt"), Notices |-> {}]

FindingOf(d) ==
  [ID |-> d.ID, Normalized_Category |-> d.Normalized_Category, FindingType |-> d.FindingType,
   Severity |-> d.Severity, Confidence |-> d.Confidence, Source |-> d.Source,
   Resource |-> d.Resource, File |-> d.Location.File, Line |-> Optional(d.Location, "Line"),
   Path |-> Optional(d.Location, "Path"), Text |-> d.Text,
   Evidence |-> [i \in DOMAIN d.Evidence |-> EvidenceOf(d.Evidence[i])], Fix |-> d.Fix]

\* from_dict() raises unless this holds, and returns FindingOf(d) when it does.
Accepts(d) == WellShaped(d) /\ Valid(FindingOf(d))

-----------------------------------------------------------------------------
\* to_dict() as the order of its text: the values in the order of the sorted
\* keys of the JSON object. Column is left out.

EvidenceText(e) ==
  <<Lex(e.Detail), Cardinality(e.Notices), Lex(e.Excerpt), Lex(e.RuleId), SOURCE_ORDER[e.Source]>>

LocationText(f) ==
  <<Lex(f.File), IF f.Line = None THEN 0 ELSE f.Line>>
    \o (IF f.Path = None THEN <<-1>>
        ELSE <<Len(f.Path)>> \o [i \in DOMAIN f.Path |-> Lex(f.Path[i])])

CanonicalForm(f, id) ==
  <<CONFIDENCE_ORDER[f.Confidence], Len(f.Evidence)>>
    \o FlattenSeq([i \in DOMAIN f.Evidence |-> EvidenceText(f.Evidence[i])])
    \o <<Lex(f.Text), FINDING_TYPE_ORDER[f.FindingType], id>>
    \o LocationText(f)
    \o <<Lex(f.Normalized_Category), Lex(f.Resource), SEVERITY_ORDER[f.Severity], Len(f.Source)>>
    \o [i \in DOMAIN f.Source |-> SOURCE_ORDER[f.Source[i]]]
    \o <<Lex(f.Fix)>>
=============================================================================
