------------------------------ MODULE AgentInput ------------------------------
\* The file of findings the agent layer hands to a review
\* (iacreview/agentin.py). The file is refused as a whole for its envelope, and
\* entry by entry for what it holds; what is accepted is normalised first.
EXTENDS Finding

\* A payload of --agent-findings: not readable, not JSON, an array, an object,
\* or something else.
SUPPORTED_SCHEMA_MAJOR == "1"

SupportedVersion(v) == v = None \/ (v \notin {Odd, ""} /\ v = SUPPORTED_SCHEMA_MAJOR)

Envelope(payload) ==
  /\ HasKeys(payload.object, {"findings"}, {"findings", "schema_version"})
  /\ SupportedVersion(Optional(payload.object, "schema_version"))
  /\ payload.object.findings # Odd

\* What refuses the whole file, or None.
FileError(payload) ==
  CASE payload.kind = "unreadable" -> "input_not_found"
    [] payload.kind \in {"not_json", "scalar"} -> "schema_violation"
    [] payload.kind = "array" -> None
    [] payload.kind = "object" -> IF Envelope(payload) THEN None ELSE "schema_violation"

Entries(payload) == IF payload.kind = "array" THEN payload.entries ELSE payload.object.findings

-----------------------------------------------------------------------------
\* One entry. An entry is refused when one of its normalisations is.

AGENT_SOURCE_LIST == <<AGENT_SOURCE>>

IdUsable(d) == Optional(d, "ID") # Odd
CategoryUsable(d) == Optional(d, "Normalized_Category") # Odd
SourceUsable(d) == Optional(d, "Source") \in {None, AGENT_SOURCE_LIST}

\* An agent has to quote the Template. An evidence that is no object is left
\* for from_dict to refuse.
EvidenceUsable(e) ==
  e = Odd \/ /\ Optional(e, "Source") \in {None, AGENT_SOURCE}
             /\ Optional(e, "Excerpt") \notin {None, Odd, ""}

Usable(d) ==
  /\ d # Odd
  /\ IdUsable(d) /\ CategoryUsable(d) /\ SourceUsable(d)
  /\ Optional(d, "Evidence") \in {None, Odd}
       \/ \A i \in DOMAIN d.Evidence : EvidenceUsable(d.Evidence[i])

Put(d, key, value) == [k \in DOMAIN d \cup {key} |-> IF k = key THEN value ELSE d[k]]
Default(d, key, value) == IF key \in DOMAIN d THEN d ELSE Put(d, key, value)

_normalize_evidence(d) ==
  IF Optional(d, "Evidence") \in {None, Odd} THEN d
  ELSE Put(d, "Evidence", [i \in DOMAIN d.Evidence |->
         IF d.Evidence[i] = Odd THEN Odd ELSE Put(d.Evidence[i], "Source", AGENT_SOURCE)])

\* "Confirmed" is for tools: an agent's is recorded as "Likely".
_normalize_confidence(d) ==
  IF Optional(d, "Confidence") = "Confirmed" THEN Put(d, "Confidence", "Likely") ELSE d

_normalize_category(d) ==
  IF Optional(d, "Normalized_Category") \in Categories THEN d
  ELSE Put(d, "Normalized_Category", OTHER_CATEGORY)

Normalized(d) ==
  LET numbered == Default(Default(Put(d, "ID", 1), "Resource", None), "Fix", None)
  IN  _normalize_evidence(Put(_normalize_category(_normalize_confidence(numbered)),
                              "Source", AGENT_SOURCE_LIST))

EntryAccepted(d) == Usable(d) /\ Accepts(Normalized(d))
FindingFromEntry(d, names) ==
  redact_finding([FindingOf(Normalized(d)) EXCEPT !.ID = UNASSIGNED_ID], names)

\* The findings of a file that was not refused, and how many entries were.
findings_from_payload(payload, names) ==
  LET accepted == SelectSeq(Entries(payload), EntryAccepted)
  IN  [findings |-> [i \in DOMAIN accepted |-> FindingFromEntry(accepted[i], names)],
       dropped |-> Len(Entries(payload)) - Len(accepted)]
=============================================================================
