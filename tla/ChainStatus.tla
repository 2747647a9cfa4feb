------------------------------ MODULE ChainStatus ------------------------------
(***************************************************************************)
(* The verdict lattice of the evidence chain (iacreview/chain/status.py):  *)
(* the status each reason code forces, the status of a link, the status of *)
(* the chain and the exit code reserved for it.                            *)
(***************************************************************************)
EXTENDS Naturals

LINKS == {"subject", "contract", "review", "verification", "gate", "github"}

CHAIN_STATUSES == {"COMPLETE", "NOT_PROVEN", "INCOMPLETE", "BROKEN"}

LINK_STATUSES == {"LINKED", "NOT_PROVEN", "INCOMPLETE", "BROKEN", "NOT_PRESENT"}

\* The catalogue of reason codes, by the status each forces.  The two manifest
\* codes of BROKEN and the one of INCOMPLETE are not here: no link reports one.
BrokenCodes ==
  { "base_not_ancestor_of_head", "subject_mismatch", "config_not_ancestor_of_base",
    "contract_digest_mismatch", "contract_mismatch_with_report",
    "review_digest_mismatch", "finding_missing", "finding_digest_mismatch",
    "identity_key_mismatch", "verification_digest_mismatch",
    "payload_digest_mismatch", "metadata_digest_mismatch",
    "report_subject_mismatch", "gate_record_mismatch", "review_conflict",
    "approval_revision_misrecorded", "gate_binds_other_commit",
    "pr_head_mismatch", "store_manifest_mismatch", "repository_mismatch" }

IncompleteCodes ==
  { "revision_not_found", "contract_blob_missing", "review_artifact_missing",
    "review_report_has_errors", "review_tool_unavailable",
    "review_report_invalid", "verification_artifact_missing", "report_invalid",
    "gate_record_missing", "gate_record_invalid", "gate_source_missing",
    "gate_source_integrity_not_pass", "review_capture_incomplete",
    "review_capture_duplicate", "integrity_not_pass", "evidence_id_missing",
    "capture_incomplete", "link_check_error" }

NotProvenCodes ==
  { "recompute_unavailable", "gate_source_unrecognized",
    "review_order_ambiguous", "review_order_inconsistent",
    "review_dismissal_effect_unknown", "gate_evaluation_not_implemented",
    "approval_self_declared_only",
    "separation_of_duty_not_shown", "approval_not_shown",
    "changes_requested_outstanding", "actor_relation_unknown",
    "approval_on_previous_head_only", "approval_revision_unverifiable" }

REASONS == BrokenCodes \cup IncompleteCodes \cup NotProvenCodes

\* Faulty variant: an approval of an earlier head counts as a contradiction.
RankOfStaleApproval(code) ==
  CASE code \in BrokenCodes \cup {"approval_on_previous_head_only"} -> 3
    [] code \in NotProvenCodes -> 1
    [] OTHER                   -> 2

\* The rank of a code: an unknown code counts as INCOMPLETE (fail closed).
Rank(code) ==
  CASE code \in BrokenCodes    -> 3
    [] code \in NotProvenCodes -> 1
    [] OTHER                   -> 2

\* Faulty variant: the chain reuses the clean status of a link.
StatusOfLink(worst, none) ==
  CASE worst = 3 -> "BROKEN" [] worst = 2 -> "INCOMPLETE"
    [] worst = 1 -> "NOT_PROVEN" [] OTHER -> "LINKED"

StatusOf(worst, none) ==
  CASE worst = 3 -> "BROKEN" [] worst = 2 -> "INCOMPLETE"
    [] worst = 1 -> "NOT_PROVEN" [] OTHER -> none

\* The largest rank among a set of ranks, 0 for none of them.
Worst(ranks) == IF ranks = {} THEN 0 ELSE CHOOSE r \in ranks : \A q \in ranks : q <= r

link_status(codes) == StatusOf(Worst({Rank(c) : c \in codes}), "LINKED")

StatusRank(status) ==
  CASE status = "LINKED" -> 0 [] status = "BROKEN" -> 3
    [] status = "NOT_PROVEN" -> 1 [] OTHER -> 2

\* The statuses are a function on some set of link names: a missing link and a
\* name that is no link both count as INCOMPLETE.
compose(statuses) ==
  LET known  == {StatusRank(statuses[l]) : l \in LINKS \cap DOMAIN statuses}
      absent == IF LINKS = DOMAIN statuses THEN {} ELSE {2}
  IN StatusOf(Worst(known \cup absent), "COMPLETE")

EXIT_INPUT_INVALID == 34

exit_code_for(status, inputInvalid) ==
  CASE inputInvalid            -> EXIT_INPUT_INVALID
    [] status = "COMPLETE"     -> 0
    [] status = "NOT_PROVEN"   -> 31
    [] status = "BROKEN"       -> 33
    [] OTHER                   -> 32
================================================================================
