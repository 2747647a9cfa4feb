-------------------------- MODULE EvidenceChainProofs --------------------------
(***************************************************************************)
(* Proofs about EvidenceChain, for every pull request, every capture of it *)
(* and every number of replacements: what COMPLETE says of the whole chain,*)
(* what a LINKED gate says of the records it was shown and of the approval *)
(* it counted, and what a BROKEN chain has been contradicted by.           *)
(*                                                                         *)
(* A check reads its artifacts once and only its codes are kept.  So       *)
(* ChainInv says, of each check that is over, what an empty set of codes   *)
(* shows about the artifacts it read, which may have been replaced since.  *)
(*                                                                         *)
(* That a counted approval was in force needs what the captured pages show *)
(* of the reviews as they really were (PRInv):                             *)
(*   - the time stamps never contradict the order of the submissions;      *)
(*   - until the last page, the pages repeat a review, or hold exactly the *)
(*     first reviews of the listing, or hold one that has moved so far     *)
(*     back that a later page repeats it: so pages without a repeat that   *)
(*     reach the last one hold every review that is listed;                *)
(*   - a captured approval is in force, or is overridden by a later review *)
(*     of its account that is not captured yet or is captured as such;     *)
(*   - so at the last page every approval that is not in force is followed *)
(*     by a captured decision with no earlier stamp, and every objection   *)
(*     is captured with no later approval.                                 *)
(* The gate accepts only pages without a repeat that announce no further   *)
(* one, and of each account only approvals that are strictly later than    *)
(* its other decisions.  What Items joins from the pages is found with the *)
(* least number of pages for which it would be something else.             *)
(***************************************************************************)
EXTENDS EvidenceChain, FiniteSetTheorems, WellFoundedInduction, TLAPS


(* -------------------------- the verdict lattice ------------------------ *)

LEMMA WorstIsMaximum ==
  ASSUME NEW ranks \in SUBSET (0..3), ranks # {}
  PROVE  Worst(ranks) \in ranks /\ \A q \in ranks : q <= Worst(ranks)
<1>1. \E r \in ranks : \A q \in ranks : q <= r
  <2>1. CASE 3 \in ranks
    BY <2>1
  <2>2. CASE 3 \notin ranks /\ 2 \in ranks
    BY <2>2
  <2>3. CASE 3 \notin ranks /\ 2 \notin ranks /\ 1 \in ranks
    BY <2>3
  <2>4. CASE 3 \notin ranks /\ 2 \notin ranks /\ 1 \notin ranks
    <3>1. ASSUME NEW q \in ranks PROVE q = 0
      <4>1. q \in 0..3
        OBVIOUS
      <4>2. q # 1 /\ q # 2 /\ q # 3
        BY <2>4
      <4> QED BY <4>1, <4>2
    <3>2. 0 \in ranks
      BY <3>1
    <3> QED BY <3>1, <3>2
  <2> QED BY <2>1, <2>2, <2>3, <2>4
<1> QED BY <1>1 DEF Worst

LEMMA CleanLinkHasNoCode ==
  ASSUME NEW codes, link_status(codes) = "LINKED"
  PROVE  codes = {}
<1> SUFFICES ASSUME codes # {} PROVE FALSE
  OBVIOUS
<1> DEFINE ranks == {Rank(c) : c \in codes}
<1>1. ranks \in SUBSET (1..3) /\ ranks # {}
  BY DEF Rank, BrokenCodes, NotProvenCodes
<1>2. Worst(ranks) \in 1..3
  BY <1>1, WorstIsMaximum
<1> QED BY <1>2 DEF link_status, StatusOf

\* COMPLETE is the status of a chain that has every link, each of them LINKED.
LEMMA CompleteIsAllLinked ==
  ASSUME NEW statuses, compose(statuses) = "COMPLETE"
  PROVE  DOMAIN statuses = LINKS /\ \A l \in LINKS : statuses[l] = "LINKED"
<1> DEFINE known  == {StatusRank(statuses[l]) : l \in LINKS \cap DOMAIN statuses}
           absent == IF LINKS = DOMAIN statuses THEN {} ELSE {2}
           ranks  == known \cup absent
<1>1. ranks \in SUBSET (0..3)
  BY DEF StatusRank
<1>2. ranks # {}
  BY DEF LINKS
<1>3. Worst(ranks) \in ranks /\ \A q \in ranks : q <= Worst(ranks)
  BY <1>1, <1>2, WorstIsMaximum
<1>4. StatusOf(Worst(ranks), "COMPLETE") = "COMPLETE"
  BY DEF compose
<1>5. Worst(ranks) = 0
  <2>1. Worst(ranks) \in 0..3
    BY <1>1, <1>3
  <2> QED BY <1>4, <2>1 DEF StatusOf
<1>6. ranks = {0}
  BY <1>1, <1>3, <1>5
<1>7. DOMAIN statuses = LINKS
  BY <1>6
<1>8. \A l \in LINKS : StatusRank(statuses[l]) = 0
  BY <1>6, <1>7
<1> QED BY <1>7, <1>8 DEF StatusRank

(* ----------------------------- the gate -------------------------------- *)

\* What the gate finds, it finds in the facts regenerated from the evidence.
LEMMA CheckIsJudgement ==
  ASSUME NEW cap, NEW listing, NEW entries, NEW commit
  PROVE  check(cap, listing, entries, commit)
           = Judge(build(cap, listing), cap, listing, entries, commit)
BY DEF check

\* Without a code, somebody is known to have approved: so the reviews the
\* manifest names were read from a valid revision.
LEMMA GateReadsReviews ==
  ASSUME NEW cap, NEW listing, NEW entries, NEW commit,
         check(cap, listing, entries, commit) = {}
  PROVE  /\ listing.revision
         /\ listing.pages # {}
         /\ \E u \in DOMAIN build(cap, listing).agg.reviewers : TRUE
<1> DEFINE facts == build(cap, listing)
           sources == load_sources(cap, listing)
<1>1. SeparationCodes(facts) = {}
  <2>1. ASSUME NEW c \in SeparationCodes(facts)
        PROVE  <<"account_separation", c>> \in check(cap, listing, entries, commit)
    BY CheckIsJudgement DEF Judge
  <2> QED BY <2>1
<1>2. approved(facts) # {}
  BY <1>1 DEF SeparationCodes
<1>3. PICK u \in DOMAIN facts.agg.reviewers : TRUE
  BY <1>2 DEF approved
<1>4. sources.reviews /\ listing.decodes
  <2> SUFFICES ASSUME ~(sources.reviews /\ listing.decodes) PROVE FALSE
    OBVIOUS
  <2>1. facts.agg = NoAggregation
    BY DEF build
  <2> QED BY <1>3, <2>1 DEF NoAggregation
<1>5. listing.revision /\ NamesReviews(cap, listing)
  BY <1>4 DEF load_sources
<1> QED BY <1>3, <1>5 DEF NamesReviews

\* Every reviewer has a regenerated record.
LEMMA ReviewersHaveRecords ==
  ASSUME NEW cap, NEW listing, NEW u \in DOMAIN build(cap, listing).agg.reviewers
  PROVE  \E r \in build(cap, listing).records : r.kind = "candidate_review"
<1> DEFINE facts == build(cap, listing)
           state == facts.agg.reviewers[u]
           rec   == Record("candidate_review", u, state.state,
                           IF state.deciding = Nothing THEN Nothing ELSE state.deciding.commit,
                           relation(u, facts.author))
<1>1. rec \in facts.records
  BY DEF build
<1>2. rec.kind = "candidate_review"
  BY DEF Record
<1> QED BY <1>1, <1>2

\* Nothing but what is regenerated from evidence is a record.
LEMMA RegeneratedRecords ==
  ASSUME NEW cap, NEW listing, NEW rec \in build(cap, listing).records
  PROVE  rec.source = "named" /\ rec.kind \in KINDS
<1>1. CASE rec = ContractRecord
  BY <1>1 DEF ContractRecord, Record, KINDS
<1>2. CASE rec # ContractRecord
  BY <1>2 DEF build, Record, KINDS
<1> QED BY <1>1, <1>2

LEMMA OneRecordPerKey ==
  ASSUME NEW cap, NEW listing,
         NEW r \in build(cap, listing).records, NEW s \in build(cap, listing).records,
         Key(r) = Key(s)
  PROVE  r = s
<1> DEFINE facts == build(cap, listing)
           merge(d)  == Record("merge_decision", "pull", d, facts.head, "unknown")
           review(u) == Record("candidate_review", u, facts.agg.reviewers[u].state,
                               IF facts.agg.reviewers[u].deciding = Nothing THEN Nothing
                               ELSE facts.agg.reviewers[u].deciding.commit,
                               relation(u, facts.author))
           merged(q) == \E d \in MergeDecision(cap.pull) : q = merge(d)
           candidate(q) == \E u \in DOMAIN facts.agg.reviewers : q = review(u)
<1>1. \A q \in facts.records : q = ContractRecord \/ merged(q) \/ candidate(q)
  BY DEF build
<1>2. \A d, e \in MergeDecision(cap.pull) : d = e
  BY DEF MergeDecision
<1>3. r.kind = s.kind /\ r.item = s.item
  BY DEF Key
<1>4. /\ ContractRecord.kind = "contract_approval"
      /\ \A d : merge(d).kind = "merge_decision"
      /\ \A u : review(u).kind = "candidate_review" /\ review(u).item = u
  BY DEF ContractRecord, Record
<1> HIDE DEF facts, merge, review
<1>5. CASE r = ContractRecord
  BY <1>1, <1>3, <1>4, <1>5 DEF facts
<1>6. CASE merged(r)
  BY <1>1, <1>2, <1>3, <1>4, <1>6 DEF facts
<1>7. CASE candidate(r)
  BY <1>1, <1>3, <1>4, <1>7 DEF facts
<1> QED BY <1>1, <1>5, <1>6, <1>7 DEF facts

\* What is loaded and not read to its end left a code.
LEMMA LoadedIsComplete ==
  ASSUME NEW cap, NEW listing, build(cap, listing).codes = {}
  PROVE  build(cap, listing).loaded \subseteq build(cap, listing).complete
<1> DEFINE sources == load_sources(cap, listing)
           facts   == build(cap, listing)
           agg     == aggregate(Items(cap.pages))
<1>1. ~((sources.pull \/ sources.reviews) /\ ~listing.decodes)
  BY DEF build
<1>2. CASE sources.reviews
  <2>1. facts.agg = agg /\ agg.codes = {}
    BY <1>1, <1>2 DEF build
  <2>2. agg.usable
    BY <2>1 DEF aggregate
  <2>3. "candidate_review" \in facts.complete
    BY <2>1, <2>2 DEF build
  <2>4. CASE sources.pull
    <3>1. MergeDecision(cap.pull) # {}
      BY <1>1, <2>4 DEF build
    <3> QED BY <1>1, <2>3, <2>4, <3>1 DEF build
  <2>5. CASE ~sources.pull
    BY <2>3, <2>5 DEF build
  <2> QED BY <2>4, <2>5
<1>3. CASE ~sources.reviews
  <2>1. CASE sources.pull
    <3>1. MergeDecision(cap.pull) # {}
      BY <1>1, <2>1 DEF build
    <3> QED BY <1>1, <1>3, <2>1, <3>1 DEF build
  <2>2. CASE ~sources.pull
    BY <1>3, <2>2 DEF build
  <2> QED BY <2>1, <2>2
<1> QED BY <1>2, <1>3

\* A gate without a code was shown the regenerated records, one entry of the
\* right kind for each, whatever the entries are.
LEMMA GateRegenerates ==
  ASSUME NEW cap, NEW listing, NEW entries, NEW commit,
         check(cap, listing, entries, commit) = {}
  PROVE  /\ {entries[i].record : i \in DOMAIN entries} = build(cap, listing).records
         /\ \A i \in DOMAIN entries :
              entries[i].file = "read" /\ entries[i].kind = entries[i].record.kind
<1> DEFINE facts == build(cap, listing)
           codes(i) == RecordCodes(entries[i].record, facts,
                                   Cited(entries[i].record, cap, listing))
<1>1. IntegrityCodes(entries, facts) = {}
  BY CheckIsJudgement DEF Judge
<1>2. facts.codes = {} /\ \A i \in DOMAIN entries : Refusal(entries[i]) = {}
  <2>1. ASSUME NEW c \in facts.codes \cup UNION {Refusal(entries[i]) : i \in DOMAIN entries}
        PROVE  <<"integrity", c>> \in IntegrityCodes(entries, facts)
    BY DEF IntegrityCodes
  <2> QED BY <1>1, <2>1
<1>3. ~SelfDeclared(entries)
  BY <1>1 DEF IntegrityCodes
<1>4. \A i \in DOMAIN entries :
        entries[i].file = "read" /\ entries[i].kind = entries[i].record.kind
  BY <1>2, <1>3 DEF Refusal, SelfDeclared
<1>5. Good(entries) = DOMAIN entries
  BY <1>2, <1>4 DEF Good
<1>6. \A i \in DOMAIN entries : codes(i) = {}
  <2>1. ASSUME NEW i \in DOMAIN entries, NEW c \in codes(i)
        PROVE  c \in check(cap, listing, entries, commit)
    BY <1>5, <2>1, CheckIsJudgement DEF Judge
  <2> QED BY <2>1
<1>7. ASSUME NEW i \in DOMAIN entries
      PROVE  entries[i].record \in facts.records
  <2> DEFINE rec   == entries[i].record
             twins == {r \in facts.records : Key(r) = Key(rec)}
  <2>1. codes(i) = {}
    BY <1>6
  <2>2. Cited(rec, cap, listing)
    BY <2>1 DEF RecordCodes
  <2>3. facts.loaded \subseteq facts.complete
    BY <1>2, LoadedIsComplete
  <2>4. twins # {} /\ rec \in twins
    BY <2>1, <2>2, <2>3 DEF RecordCodes
  <2> QED BY <2>4
<1>8. ASSUME NEW r \in facts.records
      PROVE  \E i \in DOMAIN entries : entries[i].record = r
  <2>1. \E i \in DOMAIN entries : Key(entries[i].record) = Key(r)
    <3>1. CASE r.kind = "contract_approval"
      <4>1. \E i \in Good(entries) : entries[i].record.kind = "contract_approval"
        <5> SUFFICES ASSUME ~\E i \in Good(entries) : entries[i].record.kind = "contract_approval"
                     PROVE  <<"revision_binding", "gate_record_missing">>
                              \in check(cap, listing, entries, commit)
          OBVIOUS
        <5> QED BY CheckIsJudgement DEF Judge
      <4>2. PICK i \in DOMAIN entries : entries[i].record.kind = "contract_approval"
        BY <1>5, <4>1
      <4>3. \A q \in facts.records : q.kind = "contract_approval" => q = ContractRecord
        BY DEF build, Record, ContractRecord
      <4>4. entries[i].record \in facts.records
        BY <1>7
      <4> QED BY <3>1, <4>2, <4>3, <4>4
    <3>2. CASE r.kind # "contract_approval"
      <4> DEFINE keys == {Key(entries[i].record) : i \in Good(entries)}
                 out  == {q \in facts.records : q.kind = r.kind /\ Key(q) \notin keys}
      <4>1. r.kind \in KINDS \ {"contract_approval"}
        BY <3>2, RegeneratedRecords
      <4>2. ~LeftOut(entries, facts, r.kind)
        BY <1>1, <4>1 DEF IntegrityCodes
      <4>3. unusable(entries, r.kind) = {}
        BY <1>2 DEF unusable
      <4>4. out = {}
        BY <4>2, <4>3 DEF LeftOut
      <4> QED BY <1>5, <4>4
    <3> QED BY <3>1, <3>2
  <2>2. PICK i \in DOMAIN entries : Key(entries[i].record) = Key(r)
    BY <2>1
  <2>3. entries[i].record \in facts.records
    BY <1>7
  <2> QED BY <2>2, <2>3, OneRecordPerKey
<1> QED BY <1>4, <1>7, <1>8

\* The gate of a chain: it read the named store, and pages of reviews.
LEMMA GateReadsNamedStore ==
  ASSUME world.store \in StoreStates, "revision" \in DOMAIN manifest.listing, check_gate = {}
  PROVE  /\ world.store = "named"
         /\ manifest.listing.pages # {}
         /\ Regenerated(manifest.listing, manifest.entries)
<1>1. check(GateCapture, GateListing, GateEntries, manifest.head) = {}
  BY DEF check_gate, Codes
<1>2. /\ GateListing.revision
      /\ GateListing.pages # {}
      /\ \E u \in DOMAIN build(GateCapture, GateListing).agg.reviewers : TRUE
  BY <1>1, GateReadsReviews
<1>3. world.store \in {"named", "replaced"}
  BY <1>2 DEF GateListing, StoreStates
<1>4. GateListing = manifest.listing
  BY <1>3 DEF GateListing
<1>5. GateCapture = capture
  BY <1>2, <1>4 DEF GateCapture, NamesEvidence
<1>6. /\ {GateEntries[i].record : i \in DOMAIN GateEntries} = build(capture, manifest.listing).records
      /\ \A i \in DOMAIN GateEntries :
           GateEntries[i].file = "read" /\ GateEntries[i].kind = GateEntries[i].record.kind
  BY <1>1, <1>4, <1>5, GateRegenerates
<1>7. world.store # "replaced"
  <2> SUFFICES ASSUME world.store = "replaced" PROVE FALSE
    OBVIOUS
  <2>1. PICK r \in build(capture, manifest.listing).records : r.kind = "candidate_review"
    BY <1>2, <1>4, <1>5, ReviewersHaveRecords
  <2>2. PICK i \in DOMAIN GateEntries : GateEntries[i].record = r
    BY <1>6
  <2>3. r.source = "named"
    BY RegeneratedRecords
  <2> DEFINE e == manifest.entries[i]
  <2>4. i \in DOMAIN manifest.entries
    BY <2>2 DEF GateEntries
  <2>5. CASE e.record.kind = "contract_approval"
    <3>1. GateEntries[i] = e
      BY <2>4, <2>5 DEF GateEntries
    <3> QED BY <2>1, <2>2, <2>5, <3>1
  <2>6. CASE e.record.kind # "contract_approval"
    <3>1. GateEntries[i].record = Altered(e.record)
      BY <2>4, <2>6 DEF GateEntries
    <3>2. r.source = "altered"
      BY <2>2, <3>1 DEF Altered
    <3> QED BY <2>3, <3>2
  <2> QED BY <2>5, <2>6
<1>8. world.store = "named" /\ GateEntries = manifest.entries
  BY <1>3, <1>7 DEF GateEntries
<1> QED BY <1>2, <1>4, <1>6, <1>8 DEF Regenerated

(* ------------------------ the inductive invariant ---------------------- *)

Contents ==
  [optional : BOOLEAN, errors : BOOLEAN, tools : BOOLEAN,
   findings : {"named", "absent", "content", "identity"},
   subject : {"same", "other"}, trust : {"same", "other"}, payload : {"same", "other"},
   shape : {"valid", "invalid", "metadata"}, repository : {"same", "other"}]

Worlds ==
  [repo : {"there", "gone"},
   ancestry : {"linear", "base_aside", "config_aside", "base_unknown", "config_unknown"},
   blob : {"named", "other", "missing"}, review : FileStates, verification : FileStates,
   store : StoreStates, recompute : {"same", "different", "tool", "internal_error"}]

\* What a manifest can say, with or without its one fault.
ManifestInv ==
  /\ manifest.optional \in BOOLEAN /\ manifest.errors \in BOOLEAN /\ manifest.tools \in BOOLEAN
  /\ manifest.findings \in {"named", "absent", "content", "identity"}
  /\ \A f \in {"subject", "trust", "payload", "repository"} : manifest[f] \in {"same", "other"}
  /\ manifest.shape \in {"valid", "invalid", "metadata"}
  /\ "revision" \in DOMAIN manifest.listing
  /\ manifest.listing.revision \in BOOLEAN
  /\ manifest.listing.integrity \in {"PASS", "V5", "OTHER"}

\* Nothing replaces the repository, its commits or the verifier.
Unmoved(w) ==
  /\ w.repo = world.repo /\ w.ancestry = world.ancestry
  /\ w.blob = world.blob /\ w.recompute = world.recompute

\* What a report without a code is.
ReportInv ==
  /\ report \in {Nothing, "named", "other"}
  /\ results.verification.codes = {} =>
       /\ report = "named"
       /\ read.verification.verification = "named"
       /\ manifest.shape = "valid"

\* What each check has shown when it left no code.
Shown(link) ==
  CASE link = "subject" ->
         world.repo = "there" /\ world.ancestry \notin {"base_aside", "base_unknown"}
    [] link = "contract" ->
         /\ world.ancestry \notin {"config_aside", "config_unknown"} /\ world.blob = "named"
         /\ report = "named" => manifest.trust = "same"
    [] link = "review" ->
         /\ read.review.review = "named" /\ manifest.optional
         /\ ~manifest.errors /\ manifest.tools /\ manifest.findings = "named"
    [] link = "verification" ->
         report = "named" =>
           manifest.payload = "same" /\ manifest.subject = "same" /\ world.recompute = "same"
    [] link = "gate" ->
         /\ read.gate.store = "named" /\ manifest.listing.pages # {}
         /\ Regenerated(manifest.listing, manifest.entries)
    [] link = "github" ->
         /\ read.github.store = "named" /\ manifest.repository = "same"
         /\ manifest.listing.revision /\ manifest.listing.integrity = "PASS"
         /\ manifest.listing.pages # {} => capture.complete /\ Captured

LinkInv(i) ==
  /\ step >= i + 2 =>
       /\ Unmoved(read[Order[i]])
       /\ results[Order[i]].present /\ results[Order[i]].codes = {} => Shown(Order[i])
  /\ step < i + 2 /\ Order[i] # "verification" => ~results[Order[i]].present

ChainInv ==
  /\ step \in 0..8
  /\ results = [l \in LINKS |-> results[l]]
  /\ read = [l \in LINKS |-> read[l]]
  /\ step >= 1 => ManifestInv /\ world \in Worlds
  /\ step >= 2 => Unmoved(read.verification) /\ ReportInv
  /\ \A i \in 1..6 : LinkInv(i)

LEMMA LinkNames ==
  /\ Len(Order) = 6 /\ DOMAIN Order = 1..6
  /\ \A i \in 1..6 : Order[i] \in LINKS
  /\ \A l \in LINKS : \E i \in 1..6 : Order[i] = l
  /\ \A i, j \in 1..6 : Order[i] = Order[j] => i = j
BY DEF Order, LINKS

LEMMA HonestIsTyped == HonestContents \in Contents /\ HonestWorld \in Worlds
BY DEF HonestContents, Contents, HonestWorld, Worlds, FileStates, StoreStates

LEMMA FaultyContents ==
  ASSUME NEW f \in ContentFaults PROVE With(HonestContents, f) \in Contents
<1>1. CASE f = <<"errors", TRUE>>
  <2>1. f[1] = "errors" /\ f[2] = TRUE
    BY <1>1
  <2> QED BY <2>1 DEF With, HonestContents, Contents
<1>2. CASE f = <<"tools", FALSE>>
  <2>1. f[1] = "tools" /\ f[2] = FALSE
    BY <1>2
  <2> QED BY <2>1 DEF With, HonestContents, Contents
<1>3. CASE f = <<"optional", FALSE>>
  <2>1. f[1] = "optional" /\ f[2] = FALSE
    BY <1>3
  <2> QED BY <2>1 DEF With, HonestContents, Contents
<1>4. CASE f = <<"repository", "other">>
  <2>1. f[1] = "repository" /\ f[2] = "other"
    BY <1>4
  <2> QED BY <2>1 DEF With, HonestContents, Contents
<1>5. CASE f = <<"subject", "other">>
  <2>1. f[1] = "subject" /\ f[2] = "other"
    BY <1>5
  <2> QED BY <2>1 DEF With, HonestContents, Contents
<1>6. CASE f = <<"trust", "other">>
  <2>1. f[1] = "trust" /\ f[2] = "other"
    BY <1>6
  <2> QED BY <2>1 DEF With, HonestContents, Contents
<1>7. CASE f = <<"payload", "other">>
  <2>1. f[1] = "payload" /\ f[2] = "other"
    BY <1>7
  <2> QED BY <2>1 DEF With, HonestContents, Contents
<1>8. CASE f \in {"findings"} \X {"absent", "content", "identity"}
  BY <1>8 DEF With, HonestContents, Contents
<1>9. CASE f \in {"shape"} \X {"invalid", "metadata"}
  BY <1>9 DEF With, HonestContents, Contents
<1> QED BY <1>1, <1>2, <1>3, <1>4, <1>5, <1>6, <1>7, <1>8, <1>9 DEF ContentFaults

LEMMA FaultyWorld ==
  ASSUME NEW f \in WorldFaults PROVE With(HonestWorld, f) \in Worlds
<1> USE DEF With, HonestWorld, Worlds, FileStates, StoreStates
<1>1. CASE f \in {"repo"} \X {"gone"}
  BY <1>1
<1>2. CASE f \in {"ancestry"} \X {"base_aside", "config_aside", "base_unknown", "config_unknown"}
  BY <1>2
<1>3. CASE f \in {"blob"} \X {"other", "missing"}
  BY <1>3
<1>4. CASE f \in {"recompute"} \X {"different", "tool", "internal_error"}
  BY <1>4
<1>5. CASE f \in {"review", "verification"} \X (FileStates \ {"named"})
  BY <1>5
<1>6. CASE f \in {"store"} \X (StoreStates \ {"named"})
  BY <1>6
<1> QED BY <1>1, <1>2, <1>3, <1>4, <1>5, <1>6 DEF WorldFaults

ListingTyped(listing) ==
  /\ "revision" \in DOMAIN listing
  /\ listing.revision \in BOOLEAN
  /\ listing.integrity \in {"PASS", "V5", "OTHER"}

LEMMA FaultyListing ==
  ASSUME NEW f \in ListingFaults PROVE ListingTyped(With(WholeListing(capture), f))
<1> USE DEF With, WholeListing, ListingTyped
<1>1. CASE f = <<"revision", FALSE>>
  <2>1. f[1] = "revision" /\ f[2] = FALSE
    BY <1>1
  <2> QED BY <2>1
<1>2. CASE f = <<"reads", FALSE>>
  <2>1. f[1] = "reads" /\ f[2] = FALSE
    BY <1>2
  <2> QED BY <2>1
<1>3. CASE f = <<"twin", TRUE>>
  <2>1. f[1] = "twin" /\ f[2] = TRUE
    BY <1>3
  <2> QED BY <2>1
<1>4. CASE f = <<"decodes", FALSE>>
  <2>1. f[1] = "decodes" /\ f[2] = FALSE
    BY <1>4
  <2> QED BY <2>1
<1>5. CASE f = <<"pull", FALSE>>
  <2>1. f[1] = "pull" /\ f[2] = FALSE
    BY <1>5
  <2> QED BY <2>1
<1>6. CASE f = <<"integrity", "V5">>
  <2>1. f[1] = "integrity" /\ f[2] = "V5"
    BY <1>6
  <2> QED BY <2>1
<1>7. CASE f = <<"integrity", "OTHER">>
  <2>1. f[1] = "integrity" /\ f[2] = "OTHER"
    BY <1>7
  <2> QED BY <2>1
<1>8. CASE f = <<"pages", {}>>
  <2>1. f[1] = "pages" /\ f[2] = {}
    BY <1>8
  <2> QED BY <2>1
<1>9. CASE f = <<"pages", {1}>>
  <2>1. f[1] = "pages" /\ f[2] = {1}
    BY <1>9
  <2> QED BY <2>1
<1>10. CASE f = <<"indexes", <<1, 1>> >>
  <2>1. f[1] = "indexes" /\ f[2] = <<1, 1>>
    BY <1>10
  <2> QED BY <2>1
<1> QED BY <1>1, <1>2, <1>3, <1>4, <1>5, <1>6, <1>7, <1>8, <1>9, <1>10 DEF ListingFaults

LEMMA ManifestIsTyped ==
  ASSUME NEW commit, NEW contents \in Contents, NEW listing, NEW entries, ListingTyped(listing),
         manifest' = Manifest(commit, contents, listing, entries)
  PROVE  ManifestInv'
<1>1. /\ \A f \in {"optional", "errors", "tools", "findings", "subject", "trust", "payload", "shape",
                   "repository"} : manifest'[f] = contents[f]
      /\ manifest'.listing = listing
  BY DEF Manifest
<1> QED BY <1>1 DEF ManifestInv, ListingTyped, Contents

(* ------------------- what a check without a code shows ----------------- *)

LEMMA SubjectShown ==
  ASSUME world \in Worlds, check_subject = {}
  PROVE  world.repo = "there" /\ world.ancestry \notin {"base_aside", "base_unknown"}
BY DEF check_subject, Worlds

LEMMA ContractShown ==
  ASSUME world \in Worlds, check_contract = {}
  PROVE  /\ world.ancestry \notin {"config_aside", "config_unknown"} /\ world.blob = "named"
         /\ report = "named" => manifest.trust = "same"
<1>1. /\ world.repo = "there" /\ world.ancestry # "base_unknown"
      /\ world.ancestry # "config_unknown"
  BY DEF check_contract, Worlds
<1>2. world.ancestry # "config_aside" /\ world.blob # "missing"
  BY <1>1 DEF check_contract
<1>3. world.blob = "named"
  BY <1>1, <1>2 DEF check_contract, Worlds
<1>4. ASSUME report = "named" PROVE manifest.trust = "same"
  <2>1. report # Nothing
    BY <1>4, ChainAssumption
  <2>2. ReportAgrees("trust")
    BY <1>1, <1>2, <2>1 DEF check_contract
  <2> QED BY <2>2 DEF ReportAgrees
<1> QED BY <1>1, <1>2, <1>3, <1>4

LEMMA ReviewShown ==
  ASSUME world \in Worlds, ManifestInv, check_review = {}
  PROVE  /\ world.review = "named"
         /\ ~manifest.errors /\ manifest.tools /\ manifest.findings = "named"
<1>1. world.review = "named" /\ review_contents = {}
  BY DEF check_review, Worlds, FileStates
<1> QED BY <1>1 DEF review_contents, ManifestInv

LEMMA VerificationShown ==
  ASSUME check_verification = {}, report = "named"
  PROVE  manifest.payload = "same" /\ manifest.subject = "same" /\ world.recompute = "same"
<1>1. report # Nothing
  BY ChainAssumption
<1>2. ReportAgrees("payload") /\ ReportAgrees("subject")
  BY <1>1 DEF check_verification
<1>3. recompute = "same"
  BY <1>1 DEF check_verification
<1>4. world.recompute = "same"
  BY <1>3 DEF recompute
<1> QED BY <1>2, <1>4 DEF ReportAgrees

LEMMA GithubShown ==
  ASSUME world \in Worlds, ManifestInv, check_github = {}
  PROVE  /\ world.store = "named" /\ manifest.repository = "same"
         /\ manifest.listing.revision /\ manifest.listing.integrity = "PASS"
         /\ manifest.listing.pages # {} => capture.complete /\ Captured
<1>1. world.store # "missing" /\ world.store # "damaged" /\ manifest.listing.revision
  BY DEF check_github
<1>2. world.store # "replaced" /\ manifest.repository # "other"
  BY <1>1 DEF check_github
<1>3. manifest.listing.integrity # "V5" /\ manifest.listing.integrity # "OTHER"
  BY <1>1 DEF check_github
<1>4. manifest.listing.pages # {} => capture.complete /\ Captured
  BY <1>1 DEF check_github
<1> QED BY <1>1, <1>2, <1>3, <1>4 DEF Worlds, StoreStates, ManifestInv

LEMMA ReportShown ==
  ASSUME world \in Worlds, ManifestInv, ReportCodes = {}
  PROVE  world.verification = "named" /\ manifest.shape = "valid" /\ ReportLoaded
<1>1. world.verification = "named"
  BY DEF ReportCodes, Worlds, FileStates
<1>2. manifest.shape = "valid"
  BY <1>1 DEF ReportCodes, ManifestInv
<1> QED BY <1>1, <1>2 DEF ReportLoaded

(* ------------------- every step keeps the invariant -------------------- *)

\* The repository, its commits and the verifier stay as they are.
Steady ==
  /\ world'.repo = world.repo /\ world'.ancestry = world.ancestry
  /\ world'.blob = world.blob /\ world'.recompute = world.recompute

LEMMA ShownStaysShown ==
  ASSUME NEW link \in LINKS, Shown(link), read'[link] = read[link],
         UNCHANGED <<prVars, manifest, report>>, Steady
  PROVE  Shown(link)'
<1>1. Captured' = Captured /\ capture' = capture
  BY DEF Captured, prVars
<1>2. Regenerated(manifest.listing, manifest.entries)'
        = Regenerated(manifest.listing, manifest.entries)
  BY <1>1 DEF Regenerated
<1>3. CASE link \in {"subject", "contract", "verification"}
  BY <1>3 DEF Shown, Steady
<1>4. CASE link = "review"
  BY <1>4 DEF Shown
<1>5. CASE link = "gate"
  BY <1>2, <1>5 DEF Shown
<1>6. CASE link = "github"
  BY <1>1, <1>6 DEF Shown
<1> QED BY <1>3, <1>4, <1>5, <1>6 DEF LINKS

\* A check that is over, or has not begun, when a step leaves its result alone.
LEMMA LinkStaysChecked ==
  ASSUME NEW i \in 1..6, LinkInv(i), step \in 0..8, step' \in 0..8,
         step' >= i + 2 => step >= i + 2, step >= step' => step = step',
         results'[Order[i]] = results[Order[i]], read'[Order[i]] = read[Order[i]],
         UNCHANGED <<prVars, manifest, report>>, Steady
  PROVE  LinkInv(i)'
<1>1. Order[i] \in LINKS
  BY LinkNames
<1>2. step' < i + 2 => step < i + 2
  OBVIOUS
<1>3. CASE step' >= i + 2
  <2>1. Unmoved(read[Order[i]])'
    BY <1>3 DEF LinkInv, Unmoved, Steady
  <2>2. results'[Order[i]].present /\ results'[Order[i]].codes = {} => Shown(Order[i])'
    <3> SUFFICES ASSUME results[Order[i]].present, results[Order[i]].codes = {}
                 PROVE  Shown(Order[i])'
      OBVIOUS
    <3>1. Shown(Order[i])
      BY <1>3 DEF LinkInv
    <3> QED BY <1>1, <3>1, ShownStaysShown
  <2> QED BY <1>3, <2>1, <2>2 DEF LinkInv, Order
<1>4. CASE step' < i + 2
  BY <1>2, <1>4 DEF LinkInv, Order
<1> QED BY <1>3, <1>4

LEMMA InitInv == ChainInit => ChainInv
<1> SUFFICES ASSUME ChainInit PROVE ChainInv
  OBVIOUS
<1>1. \A i \in 1..6 : LinkInv(i)
  BY LinkNames DEF ChainInit, LinkInv, Unchecked, Result
<1> QED BY <1>1 DEF ChainInit, ChainInv, Unchecked, Unread

\* Before there is a manifest, and when it is written.
LEMMA WrittenIsTyped ==
  ASSUME NEW commit, WriteSome(commit)
  PROVE  ManifestInv' /\ world' \in Worlds
<1> DEFINE whole == WholeListing(capture)
<1>0. ListingTyped(whole)
  BY DEF ListingTyped, WholeListing
<1>1. ASSUME NEW entries, NEW w \in Worlds,
             Write(Manifest(commit, HonestContents, whole, entries), w)
      PROVE  ManifestInv' /\ world' \in Worlds
  BY <1>0, <1>1, HonestIsTyped, ManifestIsTyped DEF Write
<1>2. ASSUME NEW entries, NEW f \in ContentFaults,
             Write(Manifest(commit, With(HonestContents, f), whole, entries), HonestWorld)
      PROVE  ManifestInv' /\ world' \in Worlds
  BY <1>0, <1>2, HonestIsTyped, ManifestIsTyped, FaultyContents DEF Write
<1>3. ASSUME NEW entries, NEW f \in ListingFaults,
             Write(Manifest(commit, HonestContents, With(whole, f), entries), HonestWorld)
      PROVE  ManifestInv' /\ world' \in Worlds
  BY <1>3, HonestIsTyped, ManifestIsTyped, FaultyListing DEF Write
<1> QED BY <1>1, <1>2, <1>3, HonestIsTyped, FaultyWorld DEF WriteSome

LEMMA BeforeChecks ==
  ASSUME ChainInv, step = 0, step' \in {0, 1}, UNCHANGED <<results, read>>,
         step' = 1 => ManifestInv' /\ world' \in Worlds
  PROVE  ChainInv'
<1>1. ASSUME NEW i \in 1..6 PROVE LinkInv(i)'
  BY DEF ChainInv, LinkInv, Order
<1> QED BY <1>1 DEF ChainInv

LEMMA LoadStep ==
  ASSUME ChainInv, LoadReport PROVE ChainInv'
<1>1. /\ step = 1 /\ step' = 2 /\ UNCHANGED <<prVars, manifest, world>>
      /\ ManifestInv /\ world \in Worlds
      /\ "verification" \in LINKS
  BY DEF LoadReport, ChainInv, LINKS
<1>2. /\ results' = [l \in LINKS |-> results'[l]]
      /\ read' = [l \in LINKS |-> read'[l]]
      /\ results'.verification = Result(TRUE, ReportCodes)
      /\ read'.verification = world
      /\ \A l \in LINKS : l # "verification" => results'[l] = results[l] /\ read'[l] = read[l]
  BY <1>1 DEF LoadReport, ChainInv
<1>3. ManifestInv' /\ world' \in Worlds
  BY <1>1 DEF ManifestInv
<1>4. Unmoved(read.verification)'
  BY <1>1, <1>2 DEF Unmoved
<1>5. ReportInv'
  <2>1. report' \in {Nothing, "named", "other"}
    BY DEF LoadReport, ReportLoaded
  <2>2. ASSUME ReportCodes = {}
        PROVE  report' = "named" /\ read'.verification.verification = "named"
               /\ manifest'.shape = "valid"
    BY <1>1, <1>2, <2>2, ReportShown DEF LoadReport
  <2> QED BY <1>2, <2>1, <2>2 DEF ReportInv, Result
<1>6. ASSUME NEW i \in 1..6 PROVE LinkInv(i)'
  BY <1>1, <1>2, LinkNames DEF ChainInv, LinkInv
<1> QED BY <1>1, <1>2, <1>3, <1>4, <1>5, <1>6 DEF ChainInv

\* What a check finds is what an empty set of its codes shows.
LEMMA CheckShows ==
  ASSUME ChainInv, NEW i \in 1..6, Check(i),
         results'[Order[i]].present, results'[Order[i]].codes = {}
  PROVE  Shown(Order[i])'
<1> DEFINE link == Order[i]
<1>1. /\ UNCHANGED <<prVars, manifest, report, world>>
      /\ ManifestInv /\ world \in Worlds
      /\ link \in LINKS
  BY LinkNames DEF Check, ChainInv
<1>2. /\ results'[link] = Result(Present(link), IF Present(link) THEN LinkCodes(link) ELSE {})
      /\ read'[link] = IF link = "verification" THEN read[link] ELSE world
  BY <1>1 DEF Check, ChainInv
<1>3. Present(link) /\ LinkCodes(link) = {}
  BY <1>2 DEF Result
<1>4. Regenerated(manifest.listing, manifest.entries)'
        = Regenerated(manifest.listing, manifest.entries) /\ Captured' = Captured
  BY <1>1 DEF Regenerated, Captured, prVars
<1>5. CASE link = "subject"
  BY <1>1, <1>3, <1>5, SubjectShown DEF Shown, LinkCodes
<1>6. CASE link = "contract"
  BY <1>1, <1>3, <1>6, ContractShown DEF Shown, LinkCodes
<1>7. CASE link = "review"
  BY <1>1, <1>2, <1>3, <1>7, ReviewShown DEF Shown, LinkCodes, Present
<1>8. CASE link = "verification"
  BY <1>1, <1>3, <1>8, VerificationShown DEF Shown, LinkCodes
<1>9. CASE link = "gate"
  <2>1. check_gate = {}
    BY <1>3, <1>9 DEF LinkCodes
  <2>2. world.store \in StoreStates /\ "revision" \in DOMAIN manifest.listing
    BY <1>1 DEF Worlds, ManifestInv
  <2>3. /\ world.store = "named" /\ manifest.listing.pages # {}
        /\ Regenerated(manifest.listing, manifest.entries)
    BY <2>1, <2>2, GateReadsNamedStore
  <2> QED BY <1>1, <1>2, <1>4, <1>9, <2>3 DEF Shown
<1>10. CASE link = "github"
  <2>1. check_github = {}
    BY <1>3, <1>10 DEF LinkCodes
  <2>2. /\ world.store = "named" /\ manifest.repository = "same"
        /\ manifest.listing.revision /\ manifest.listing.integrity = "PASS"
        /\ manifest.listing.pages # {} => capture.complete /\ Captured
    BY <1>1, <2>1, GithubShown
  <2> QED BY <1>1, <1>2, <1>4, <1>10, <2>2 DEF Shown, prVars
<1> QED BY <1>1, <1>5, <1>6, <1>7, <1>8, <1>9, <1>10 DEF LINKS

LEMMA CheckStep ==
  ASSUME ChainInv, NEW i \in 1..6, Check(i) PROVE ChainInv'
<1> DEFINE link == Order[i]
<1>1. /\ step = i + 1 /\ step' = i + 2 /\ step \in 0..8
      /\ UNCHANGED <<prVars, manifest, report, world>>
      /\ ManifestInv /\ world \in Worlds /\ Steady
      /\ link \in LINKS
  BY LinkNames DEF Check, ChainInv, Steady
<1>2. /\ results' = [l \in LINKS |-> results'[l]]
      /\ read' = [l \in LINKS |-> read'[l]]
      /\ \A l \in LINKS : l # link => results'[l] = results[l] /\ read'[l] = read[l]
      /\ results'[link] = Result(Present(link), IF Present(link) THEN LinkCodes(link) ELSE {})
      /\ read'[link] = IF link = "verification" THEN read[link] ELSE world
  BY <1>1 DEF Check, ChainInv
<1>3. ManifestInv' /\ world' \in Worlds
  BY <1>1 DEF ManifestInv
<1>4. Unmoved(read.verification) /\ ReportInv
  BY <1>1 DEF ChainInv
<1>5. read'.verification = read.verification
  BY <1>1, <1>2 DEF LINKS
<1>6. Unmoved(read.verification)'
  BY <1>1, <1>4, <1>5 DEF Unmoved
<1>7. ReportInv'
  <2>1. results'.verification.codes = {} => results.verification.codes = {}
    <3>1. CASE link = "verification"
      BY <1>2, <3>1 DEF Result, Present, LinkCodes
    <3>2. CASE link # "verification"
      BY <1>2, <3>2 DEF LINKS
    <3> QED BY <3>1, <3>2
  <2> QED BY <1>1, <1>4, <1>5, <2>1 DEF ReportInv
<1>8. ASSUME NEW j \in 1..6 PROVE LinkInv(j)'
  <2>1. CASE j = i
    <3>1. Unmoved(read[link])'
      BY <1>1, <1>2, <1>6 DEF Unmoved
    <3>2. results'[link].present /\ results'[link].codes = {} => Shown(link)'
      BY CheckShows
    <3> QED BY <1>1, <2>1, <3>1, <3>2 DEF LinkInv, Order
  <2>2. CASE j # i
    <3>1. Order[j] # link /\ Order[j] \in LINKS
      BY <2>2, LinkNames
    <3>2. results'[Order[j]] = results[Order[j]] /\ read'[Order[j]] = read[Order[j]]
      BY <1>2, <3>1
    <3>3. step' \in 0..8 /\ (step' >= j + 2 => step >= j + 2)
      BY <1>1, <2>2
    <3>4. LinkInv(j)
      BY DEF ChainInv
    <3> QED BY <1>1, <3>2, <3>3, <3>4, LinkStaysChecked
  <2> QED BY <2>1, <2>2
<1> QED BY <1>1, <1>2, <1>3, <1>6, <1>7, <1>8 DEF ChainInv

LEMMA ReplaceStep ==
  ASSUME ChainInv, ReplaceSome PROVE ChainInv'
<1>1. /\ step \in 1..7 /\ step' = step
      /\ UNCHANGED <<prVars, manifest, report, results, read>>
      /\ ManifestInv /\ world \in Worlds
  BY LinkNames DEF ReplaceSome, Replace, Validating, ChainInv
<1>2. world' \in Worlds /\ Steady
  <2>1. CASE \E a \in {"review", "verification"}, s \in FileStates : Replace(a, s)
    BY <1>1, <2>1 DEF Replace, Worlds, Steady
  <2>2. CASE \E s \in StoreStates : Replace("store", s)
    BY <1>1, <2>2 DEF Replace, Worlds, Steady
  <2> QED BY <2>1, <2>2 DEF ReplaceSome
<1>3. ManifestInv'
  BY <1>1 DEF ManifestInv
<1>4. ASSUME NEW i \in 1..6 PROVE LinkInv(i)'
  <2>1. LinkInv(i)
    BY DEF ChainInv
  <2> QED BY <1>1, <1>2, <2>1, LinkStaysChecked
<1>5. step >= 2 => Unmoved(read.verification)' /\ ReportInv'
  BY <1>1, <1>2 DEF ChainInv, Unmoved, Steady, ReportInv
<1> QED BY <1>1, <1>2, <1>3, <1>4, <1>5 DEF ChainInv

LEMMA StepKeepsInv == ChainInv /\ [ChainNext]_vars => ChainInv'
<1> SUFFICES ASSUME ChainInv, [ChainNext]_vars PROVE ChainInv'
  OBVIOUS
<1>1. CASE PRNext /\ step = 0 /\ UNCHANGED chainVars
  BY <1>1, BeforeChecks DEF chainVars
<1>2. ASSUME NEW commit \in Range(Commits), WriteSome(commit) PROVE ChainInv'
  <2>1. step = 0 /\ step' = 1 /\ UNCHANGED <<results, read>>
    BY <1>2 DEF WriteSome, Write
  <2>2. ManifestInv' /\ world' \in Worlds
    BY <1>2, WrittenIsTyped
  <2> QED BY <2>1, <2>2, BeforeChecks
<1>3. CASE LoadReport
  BY <1>3, LoadStep
<1>4. ASSUME NEW i \in 1..Len(Order), Check(i) PROVE ChainInv'
  BY <1>4, LinkNames, CheckStep
<1>5. CASE ReplaceSome
  BY <1>5, ReplaceStep
<1>6. CASE UNCHANGED vars
  <2>1. UNCHANGED <<prVars, step, manifest, world, report, results, read>>
    BY <1>6 DEF vars, chainVars
  <2>2. ASSUME NEW i \in 1..6 PROVE LinkInv(i)'
    <3>1. LinkInv(i) /\ Steady /\ step \in 0..8
      BY <2>1 DEF ChainInv, Steady
    <3> QED BY <2>1, <3>1, LinkStaysChecked
  <2>3. step >= 1 => ManifestInv' /\ world' \in Worlds
    BY <2>1 DEF ChainInv, ManifestInv
  <2>4. step >= 2 => Unmoved(read.verification)' /\ ReportInv'
    BY <2>1 DEF ChainInv, Unmoved, ReportInv
  <2> QED BY <2>1, <2>2, <2>3, <2>4 DEF ChainInv
<1> QED BY <1>1, <1>2, <1>3, <1>4, <1>5, <1>6 DEF ChainNext

(* ------------------------------ theorems ------------------------------- *)

\* What every state of the validator satisfies: the codes of a check say what it
\* read, whatever was replaced afterwards (validator.py, evaluate).
THEOREM ChainInvHolds == Spec => []ChainInv
BY InitInv, StepKeepsInv, PTL DEF Spec

\* COMPLETE says that every link read what the manifest names, at the moment it
\* read it (validator.py, links.py, status.py).
THEOREM CompleteHolds == Spec => []CompleteIsWholeChain
<1>1. ChainInv => CompleteIsWholeChain
  <2> SUFFICES ASSUME ChainInv, Done, chain_status = "COMPLETE"
               PROVE  CompleteIsWholeChain
    BY DEF CompleteIsWholeChain
  <2>1. step = 8 /\ ManifestInv /\ world \in Worlds
    BY LinkNames DEF Done, ChainInv
  <2>2. \A l \in LINKS : status(l) = "LINKED"
    <3> DEFINE s == [l \in LINKS |-> status(l)]
    <3>1. \A l \in LINKS : s[l] = "LINKED"
      BY CompleteIsAllLinked DEF chain_status
    <3> QED BY <3>1
  <2>3. \A l \in LINKS : results[l].present /\ results[l].codes = {}
    BY <2>2, CleanLinkHasNoCode DEF status
  <2>4. \A l \in LINKS : Unmoved(read[l]) /\ Shown(l)
    <3>1. ASSUME NEW i \in 1..6 PROVE Unmoved(read[Order[i]]) /\ Shown(Order[i])
      BY <2>1, <2>3, LinkNames DEF ChainInv, LinkInv
    <3> QED BY <3>1, LinkNames
  <2>5. /\ report = "named" /\ read.verification.verification = "named"
        /\ manifest.shape = "valid"
    BY <2>1, <2>3 DEF ChainInv, ReportInv, LINKS
  <2>6. /\ world.repo = "there" /\ world.ancestry = "linear" /\ world.blob = "named"
        /\ manifest.trust = "same"
    BY <2>1, <2>4, <2>5 DEF Shown, LINKS, Worlds
  <2>7. manifest.payload = "same" /\ manifest.subject = "same" /\ world.recompute = "same"
    BY <2>4, <2>5 DEF Shown, LINKS
  <2>8. /\ read.review.review = "named" /\ manifest.optional
        /\ ~manifest.errors /\ manifest.tools /\ manifest.findings = "named"
    BY <2>4 DEF Shown, LINKS
  <2>9. /\ read.gate.store = "named" /\ read.github.store = "named"
        /\ manifest.repository = "same"
        /\ manifest.listing.revision /\ manifest.listing.integrity = "PASS"
        /\ capture.complete /\ Captured
    BY <2>4 DEF Shown, LINKS
  <2>10. \A l \in LINKS : read[l].repo = "there" /\ read[l].ancestry = "linear"
    BY <2>4, <2>6 DEF Unmoved
  <2>11. read.contract.blob = "named" /\ read.verification.recompute = "same"
    BY <2>4, <2>6, <2>7 DEF Unmoved, LINKS
  <2>12. \A f \in DOMAIN HonestContents : manifest[f] = HonestContents[f]
    <3>1. DOMAIN HonestContents =
             {"optional", "errors", "tools", "findings", "subject", "trust",
              "payload", "shape", "repository"}
      BY DEF HonestContents
    <3>2. /\ manifest.optional = TRUE /\ manifest.errors = FALSE
          /\ manifest.tools = TRUE
      BY <2>1, <2>8 DEF ManifestInv
    <3>3. /\ HonestContents.optional = TRUE /\ HonestContents.errors = FALSE
          /\ HonestContents.tools = TRUE /\ HonestContents.findings = "named"
          /\ HonestContents.subject = "same" /\ HonestContents.trust = "same"
          /\ HonestContents.payload = "same" /\ HonestContents.shape = "valid"
          /\ HonestContents.repository = "same"
      BY DEF HonestContents
    <3> QED BY <3>1, <3>2, <3>3, <2>5, <2>6, <2>7, <2>8, <2>9
  <2> QED BY <2>5, <2>8, <2>9, <2>10, <2>11, <2>12 DEF CompleteIsWholeChain
<1> QED BY <1>1, ChainInvHolds, PTL

\* A LINKED gate was shown exactly the records the evidence gives (gate.py).
THEOREM RegenerationHolds == Spec => []LinkedMeansRegenerated
<1>1. ChainInv => LinkedMeansRegenerated
  <2> SUFFICES ASSUME ChainInv PROVE LinkedMeansRegenerated
    OBVIOUS
  <2>1. ASSUME results.gate = Result(TRUE, {})
        PROVE  Regenerated(manifest.listing, manifest.entries)
    <3>1. Order[5] = "gate" /\ LinkInv(5) /\ step \in 0..8
      BY DEF Order, ChainInv
    <3>2. results.gate.present /\ results.gate.codes = {}
      BY <2>1 DEF Result
    <3>3. Shown("gate")
      BY <3>1, <3>2 DEF LinkInv
    <3> QED BY <3>3 DEF Shown
  <2>2. ASSUME NEW entries, NEW commit,
               check(capture, WholeListing(capture), entries, commit) = {}
        PROVE  Regenerated(WholeListing(capture), entries)
    BY <2>2, GateRegenerates DEF Regenerated
  <2> QED BY <2>1, <2>2 DEF LinkedMeansRegenerated
<1> QED BY <1>1, ChainInvHolds, PTL

ReviewStates == STATES \cup {"UNKNOWN"}

ReviewRecords ==
  [user : Accounts, state : ReviewStates, at : 0..MaxTime, commit : Range(Commits), order : Nat]

Submitted == {i \in DOMAIN reviews : reviews[i].state # "PENDING"}

\* What really happened: an account has one review that is not submitted, and the
\* time stamps never contradict the order of the submissions.
ReviewsInv ==
  /\ reviews \in Seq(ReviewRecords)
  /\ head \in DOMAIN Commits /\ clock \in 0..MaxTime
  /\ happened = Cardinality(Submitted)
  /\ \A i \in Submitted : reviews[i].at <= clock /\ reviews[i].order \in 1..happened
  /\ \A i, j \in Submitted : reviews[i].order <= reviews[j].order => reviews[i].at <= reviews[j].at
  /\ \A i, j \in DOMAIN reviews \ Submitted : reviews[i].user = reviews[j].user => i = j

(* The captured reviews *)
PageItems == UNION {Range(capture.pages[m].items) : m \in DOMAIN capture.pages}

RawRecords ==
  [id : Nat, user : {User(u) : u \in Accounts}, state : ReviewStates, at : 0..MaxTime,
   commit : Range(Commits)]

PageRecords == [items : Seq(RawRecords), next : BOOLEAN]

\* A captured review is as it was captured, or was dismissed since.
Faithful(x) ==
  /\ x.id \in DOMAIN reviews
  /\ x.user = User(reviews[x.id].user) /\ x.commit = reviews[x.id].commit
  /\ x.state = "PENDING" => Captured
  /\ x.state # "PENDING" =>
       /\ x.at = reviews[x.id].at
       /\ \/ reviews[x.id].state = x.state
          \/ reviews[x.id].state = "DISMISSED" /\ x.state \in DECIDING

CaptureInv ==
  /\ capture = [pull |-> capture.pull, number |-> capture.number, pages |-> capture.pages,
                complete |-> capture.complete]
  /\ capture.pull \in Pulls /\ capture.complete \in BOOLEAN
  /\ capture.pages \in Seq(PageRecords)
  /\ \A m \in DOMAIN capture.pages : m < Len(capture.pages) => capture.pages[m].next
  /\ \A x \in PageItems : Faithful(x)
  /\ truth.inForce \cup truth.objections \subseteq DOMAIN reviews

Taken == {x.id : x \in PageItems}

Reach == Len(capture.pages) * PageSize

Repeat ==
  \E m, n \in DOMAIN capture.pages : \E x \in DOMAIN capture.pages[m].items,
     y \in DOMAIN capture.pages[n].items :
       /\ m # n \/ x # y
       /\ capture.pages[m].items[x].id = capture.pages[n].items[y].id

Clean == /\ Reach <= Cardinality(Listed)
         /\ Taken = {i \in Listed : Position(i) <= Reach}

Doomed == \E e \in Taken : Position(e) > Reach

PagingInv == ~Captured => Repeat \/ Clean \/ Doomed

Overrides(j, i) ==
  /\ reviews[j].user = reviews[i].user
  /\ reviews[j].state \in {"CHANGES_REQUESTED", "DISMISSED"}
  /\ reviews[j].order > reviews[i].order
  /\ \A x \in PageItems : x.id = j => x.state # "APPROVED"

ApprovalsInv ==
  ~Captured =>
    \A a \in PageItems : a.state = "APPROVED" =>
      a.id \in truth.inForce \/ \E j \in DOMAIN reviews : Overrides(j, a.id)

ApprovalsShown ==
  \A a \in PageItems : a.state = "APPROVED" =>
    \/ a.id \in truth.inForce
    \/ \E b \in PageItems : /\ b.user = a.user /\ b.at >= a.at
                            /\ b.state \in {"CHANGES_REQUESTED", "DISMISSED"}

ObjectionsShown ==
  \A o \in truth.objections : \E c \in PageItems :
    /\ c.id = o /\ c.state = "CHANGES_REQUESTED"
    /\ c.user # Nothing =>
         \A a \in PageItems : a.state = "APPROVED" /\ a.user = c.user => a.at <= c.at

EndInv == Captured => Repeat \/ (ApprovalsShown /\ ObjectionsShown)

PRInv == ReviewsInv /\ CaptureInv /\ PagingInv /\ ApprovalsInv /\ EndInv

ListingKnown ==
  step >= 1 => manifest.listing.indexes \in {[i \in DOMAIN capture.pages |-> i], <<1, 1>>}

(* ------------------ the place of a review in the listing ----------------- *)

LEMMA StampNumbers ==
  ASSUME ReviewsInv
  PROVE  /\ Len(reviews) \in Nat /\ DOMAIN reviews = 1..Len(reviews)
         /\ MaxTime \in Nat
         /\ \A i \in DOMAIN reviews : /\ i \in Nat /\ reviews[i] \in ReviewRecords
                                      /\ reviews[i].at \in Nat /\ reviews[i].at <= MaxTime
                                      /\ Stamp(i) \in Nat
                                      /\ i \in Submitted => Stamp(i) = reviews[i].at
                                      /\ i \notin Submitted => Stamp(i) = MaxTime + 1
<1>1. MaxTime \in Nat
  BY PullRequestAssumption
<1>2. reviews \in Seq(ReviewRecords)
  BY DEF ReviewsInv
<1>3. /\ Len(reviews) \in Nat /\ DOMAIN reviews = 1..Len(reviews)
      /\ \A i \in DOMAIN reviews : reviews[i] \in ReviewRecords
  BY <1>2
<1>4. \A i \in DOMAIN reviews : reviews[i].at \in 0..MaxTime
  BY <1>3 DEF ReviewRecords
<1> QED BY <1>1, <1>3, <1>4 DEF Stamp, Submitted

LEMMA EarlierIsOrder ==
  ASSUME ReviewsInv
  PROVE  /\ \A i, j \in DOMAIN reviews : i = j \/ Earlier(i, j) \/ Earlier(j, i)
         /\ \A i, j, k \in DOMAIN reviews : Earlier(i, j) /\ Earlier(j, k) => Earlier(i, k)
         /\ \A i \in DOMAIN reviews : ~Earlier(i, i)
<1>1. \A i \in DOMAIN reviews : i \in Nat /\ Stamp(i) \in Nat
  BY StampNumbers
<1>2. PICK T : T = DOMAIN reviews
  OBVIOUS
<1>3. \A i, j \in T : i = j \/ Earlier(i, j) \/ Earlier(j, i)
  BY <1>1, <1>2 DEF Earlier
<1>4. \A i, j, k \in T : Earlier(i, j) /\ Earlier(j, k) => Earlier(i, k)
  BY <1>1, <1>2 DEF Earlier
<1>5. \A i \in T : ~Earlier(i, i)
  BY <1>1, <1>2 DEF Earlier
<1> QED BY <1>2, <1>3, <1>4, <1>5

\* The reviews listed before one of them.
Ahead(i) == {j \in Listed : Earlier(j, i)}

LEMMA ListedIsFinite ==
  ASSUME ReviewsInv
  PROVE  /\ Listed \subseteq DOMAIN reviews
         /\ IsFiniteSet(Listed) /\ Cardinality(Listed) \in Nat
         /\ \A i : IsFiniteSet(Ahead(i)) /\ Cardinality(Ahead(i)) \in Nat
                   /\ Position(i) = 1 + Cardinality(Ahead(i))
<1>1. IsFiniteSet(DOMAIN reviews)
  <2>1. Len(reviews) \in Int /\ DOMAIN reviews = 1..Len(reviews)
    BY StampNumbers
  <2> QED BY <2>1, FS_Interval
<1>2. Listed \in SUBSET DOMAIN reviews
  BY DEF Listed
<1>3. IsFiniteSet(Listed)
  BY <1>1, <1>2, FS_Subset
<1>4. ASSUME NEW i PROVE IsFiniteSet(Ahead(i)) /\ Cardinality(Ahead(i)) \in Nat
  <2>1. Ahead(i) \in SUBSET Listed
    BY DEF Ahead
  <2>2. IsFiniteSet(Ahead(i))
    BY <1>3, <2>1, FS_Subset
  <2> QED BY <2>2, FS_CardinalityType
<1> QED BY <1>2, <1>3, <1>4, FS_CardinalityType DEF Position, Ahead

\* The positions number the listing from 1 to its length.
LEMMA PositionRange ==
  ASSUME ReviewsInv, NEW i \in Listed
  PROVE  Position(i) \in 1..Cardinality(Listed)
<1>1. i \in DOMAIN reviews /\ ~Earlier(i, i)
  BY ListedIsFinite, EarlierIsOrder
<1>2. Ahead(i) \in SUBSET (Listed \ {i})
  BY <1>1 DEF Ahead
<1>3. IsFiniteSet(Listed \ {i}) /\ Cardinality(Listed \ {i}) = Cardinality(Listed) - 1
  BY ListedIsFinite, FS_RemoveElement
<1>4. Cardinality(Ahead(i)) <= Cardinality(Listed) - 1
  BY <1>2, <1>3, FS_Subset
<1> QED BY <1>4, ListedIsFinite

LEMMA PositionGrows ==
  ASSUME ReviewsInv, NEW i \in Listed, NEW j \in Listed, Earlier(i, j)
  PROVE  Position(i) < Position(j)
<1>1. i \in DOMAIN reviews /\ j \in DOMAIN reviews
  BY ListedIsFinite
<1>2. \A k \in Listed : Earlier(k, i) => Earlier(k, j)
  BY <1>1, ListedIsFinite, EarlierIsOrder
<1>3. i \in Ahead(j) /\ i \notin Ahead(i)
  BY <1>1, EarlierIsOrder DEF Ahead
<1>4. Ahead(i) \in SUBSET (Ahead(j) \ {i})
  BY <1>2, <1>3 DEF Ahead
<1>5. IsFiniteSet(Ahead(j)) /\ IsFiniteSet(Ahead(j) \ {i})
      /\ Cardinality(Ahead(j) \ {i}) = Cardinality(Ahead(j)) - 1
  BY <1>3, ListedIsFinite, FS_RemoveElement
<1>6. Cardinality(Ahead(i)) <= Cardinality(Ahead(j)) - 1
  BY <1>4, <1>5, FS_Subset
<1> QED BY <1>6, ListedIsFinite

LEMMA PositionIsUnique ==
  ASSUME ReviewsInv, NEW i \in Listed, NEW j \in Listed, Position(i) = Position(j)
  PROVE  i = j
<1>1. i \in DOMAIN reviews /\ j \in DOMAIN reviews
  BY ListedIsFinite
<1>2. Position(i) \in Nat /\ Position(j) \in Nat
  BY ListedIsFinite
<1>3. ~Earlier(i, j) /\ ~Earlier(j, i)
  BY <1>2, PositionGrows
<1> QED BY <1>1, <1>3, EarlierIsOrder

LEMMA PositionIsTaken ==
  ASSUME ReviewsInv, NEW p \in 1..Cardinality(Listed)
  PROVE  \E i \in Listed : Position(i) = p
<1> DEFINE N == Cardinality(Listed)
           f == [i \in Listed |-> Position(i)]
<1>1. N \in Nat /\ IsFiniteSet(Listed)
  BY ListedIsFinite
<1>2. IsFiniteSet(1..N) /\ Cardinality(1..N) = N
  BY <1>1, FS_Interval
<1>3. f \in [Listed -> 1..N]
  BY PositionRange
<1>4. \A i, j \in Listed : f[i] = f[j] => i = j
  BY PositionIsUnique
<1>5. f \in Injection(Listed, 1..N)
  BY <1>3, <1>4 DEF Injection, IsInjective
<1>6. f \in Surjection(Listed, 1..N)
  BY <1>1, <1>2, <1>5, FS_Injection
<1>7. PICK i \in Listed : f[i] = p
  BY <1>6 DEF Surjection
<1> QED BY <1>7

\* Listing lists every listed review at its position.
LEMMA ListingAt ==
  ASSUME ReviewsInv, NEW p \in 1..Cardinality(Listed)
  PROVE  Listing[p] \in Listed /\ Position(Listing[p]) = p
<1>1. \E i \in Listed : Position(i) = p
  BY PositionIsTaken
<1>2. Listing[p] = CHOOSE i \in Listed : Position(i) = p
  BY DEF Listing
<1> QED BY <1>1, <1>2

LEMMA ListingLength ==
  ASSUME ReviewsInv PROVE Len(Listing) = Cardinality(Listed)
<1>1. Cardinality(Listed) \in Nat
  BY ListedIsFinite
<1>2. DOMAIN Listing = 1..Cardinality(Listed)
  BY DEF Listing
<1>3. Listing \in Seq(Listed)
  BY <1>1, ListingAt DEF Listing
<1> QED BY <1>1, <1>2, <1>3

\* The one review that may be listed without being submitted is listed last.
LEMMA PendingIsLast ==
  ASSUME ReviewsInv, NEW i \in Listed, i \notin Submitted
  PROVE  Position(i) = Cardinality(Listed)
<1>1. i \in DOMAIN reviews /\ reviews[i].user = Viewer
  BY DEF Listed, Submitted
<1>2. ASSUME NEW j \in Listed, j # i PROVE Earlier(j, i)
  <2>1. j \in DOMAIN reviews
    BY ListedIsFinite
  <2>2. j \in Submitted
    BY <1>1, <1>2, <2>1 DEF Listed, Submitted, ReviewsInv
  <2> QED BY <1>1, <2>1, <2>2, StampNumbers DEF Earlier
<1>3. ~Earlier(i, i)
  BY <1>1, EarlierIsOrder
<1>4. Ahead(i) = Listed \ {i}
  BY <1>2, <1>3 DEF Ahead
<1>5. Cardinality(Listed \ {i}) = Cardinality(Listed) - 1
  BY ListedIsFinite, FS_RemoveElement
<1> QED BY <1>4, <1>5, ListedIsFinite

(* ------------------- what happens on the pull request -------------------- *)

LEMMA SubmittedIsFinite ==
  ASSUME ReviewsInv
  PROVE  /\ Submitted \subseteq DOMAIN reviews
         /\ IsFiniteSet(Submitted) /\ happened \in Nat /\ happened <= Len(reviews)
<1>1. Len(reviews) \in Nat /\ DOMAIN reviews = 1..Len(reviews)
  BY StampNumbers
<1>2. IsFiniteSet(DOMAIN reviews) /\ Cardinality(DOMAIN reviews) = Len(reviews)
  <2>1. PICK n \in Nat : n = Len(reviews)
    BY <1>1
  <2>2. IsFiniteSet(1..n) /\ Cardinality(1..n) = n
    BY FS_Interval
  <2> QED BY <1>1, <2>1, <2>2
<1>3. Submitted \in SUBSET DOMAIN reviews
  BY DEF Submitted
<1>4. IsFiniteSet(Submitted) /\ Cardinality(Submitted) <= Len(reviews)
  BY <1>2, <1>3, FS_Subset
<1>5. Cardinality(Submitted) \in Nat
  BY <1>4, FS_CardinalityType
<1> QED BY <1>3, <1>4, <1>5 DEF ReviewsInv

\* A submission is later than all the others, in order and not before them in time.
LEMMA SubmissionKeeps ==
  ASSUME ReviewsInv, NEW j \in DOMAIN reviews', NEW t \in 0..MaxTime, j \notin Submitted,
         reviews' \in Seq(ReviewRecords), Submitted' = Submitted \cup {j},
         \A k \in Submitted : reviews'[k] = reviews[k],
         reviews'[j].at = t, reviews'[j].order = happened + 1,
         t >= clock, clock' = t, happened' = happened + 1, head' = head,
         \A k, l \in (DOMAIN reviews \ Submitted)' : reviews'[k].user = reviews'[l].user => k = l
  PROVE  ReviewsInv'
<1>1. IsFiniteSet(Submitted) /\ happened \in Nat /\ happened = Cardinality(Submitted)
      /\ Submitted \subseteq DOMAIN reviews
  BY SubmittedIsFinite DEF ReviewsInv
<1>2. happened' = Cardinality(Submitted')
  BY <1>1, FS_AddElement
<1>3. \A k \in Submitted : /\ reviews[k].at \in Nat /\ reviews[k].at <= clock
                           /\ reviews[k].order \in 1..happened
  BY <1>1, StampNumbers DEF ReviewsInv
<1>4. clock \in Nat /\ t \in Nat
  BY PullRequestAssumption DEF ReviewsInv
<1>5. \A k \in Submitted' : reviews'[k].at <= clock' /\ reviews'[k].order \in 1..happened'
  BY <1>1, <1>3, <1>4
<1>6. \A k, l \in Submitted' :
        reviews'[k].order <= reviews'[l].order => reviews'[k].at <= reviews'[l].at
  <2> SUFFICES ASSUME NEW k \in Submitted', NEW l \in Submitted',
                      reviews'[k].order <= reviews'[l].order
               PROVE  reviews'[k].at <= reviews'[l].at
    OBVIOUS
  <2>1. CASE k \in Submitted /\ l \in Submitted
    BY <2>1 DEF ReviewsInv
  <2>2. CASE l = j
    BY <1>3, <1>4, <2>2
  <2>3. CASE k = j /\ l \in Submitted
    BY <1>1, <1>3, <2>3
  <2> QED BY <2>1, <2>2, <2>3
<1> QED BY <1>2, <1>5, <1>6 DEF ReviewsInv

LEMMA HeadIsCommit ==
  ASSUME ReviewsInv PROVE Commits[head] \in Range(Commits)
BY DEF ReviewsInv, Range

\* What a step does to the reviews that the capture depends on: only j may be
\* submitted by it, and a submitted review is at most dismissed.
Moves(j) ==
  /\ \A i \in DOMAIN reviews :
       /\ i \in DOMAIN reviews'
       /\ reviews'[i].user = reviews[i].user /\ reviews'[i].commit = reviews[i].commit
       /\ i \in Submitted =>
            /\ i \in Submitted'
            /\ reviews'[i].at = reviews[i].at /\ reviews'[i].order = reviews[i].order
            /\ \/ reviews'[i].state = reviews[i].state
               \/ reviews'[i].state = "DISMISSED" /\ reviews[i].state \in DECIDING
  /\ Submitted' \subseteq Submitted \cup {j}

LEMMA Appended ==
  ASSUME ReviewsInv, NEW r \in ReviewRecords, reviews' = Append(reviews, r)
  PROVE  /\ reviews' \in Seq(ReviewRecords)
         /\ DOMAIN reviews' = DOMAIN reviews \cup {Len(reviews) + 1}
         /\ Len(reviews) + 1 \notin DOMAIN reviews
         /\ reviews'[Len(reviews) + 1] = r
         /\ \A i \in DOMAIN reviews : reviews'[i] = reviews[i]
<1>1. reviews \in Seq(ReviewRecords) /\ Len(reviews) \in Nat /\ DOMAIN reviews = 1..Len(reviews)
  BY StampNumbers DEF ReviewsInv
<1>2. reviews' \in Seq(ReviewRecords) /\ Len(reviews') = Len(reviews) + 1
      /\ DOMAIN reviews' = 1..(Len(reviews) + 1)
  BY <1>1
<1> QED BY <1>1, <1>2

LEMMA OpenKeeps ==
  ASSUME ReviewsInv, NEW u \in Accounts, Open(u)
  PROVE  ReviewsInv' /\ Moves(0)
<1> DEFINE new == [user |-> u, state |-> "PENDING", at |-> 0, commit |-> Commits[head], order |-> 0]
           n   == Len(reviews) + 1
<1>1. new \in ReviewRecords
  BY HeadIsCommit, PullRequestAssumption DEF ReviewRecords, ReviewStates, STATES
<1>2. reviews' = Append(reviews, new) /\ UNCHANGED <<head, clock, happened>> /\ Idle(u)
  BY DEF Open
<1>3. new.user = u /\ new.state = "PENDING"
  OBVIOUS
<1> HIDE DEF new, n
<1>4. /\ reviews' \in Seq(ReviewRecords) /\ DOMAIN reviews' = DOMAIN reviews \cup {n}
      /\ n \notin DOMAIN reviews /\ reviews'[n] = new
      /\ \A i \in DOMAIN reviews : reviews'[i] = reviews[i]
  BY <1>1, <1>2, Appended DEF n
<1>5. Submitted' = Submitted
  BY <1>3, <1>4 DEF Submitted
<1>6. \A k, l \in (DOMAIN reviews \ Submitted)' : reviews'[k].user = reviews'[l].user => k = l
  BY <1>2, <1>3, <1>4, <1>5 DEF ReviewsInv, Idle, Submitted
<1>7. \A k \in Submitted : reviews'[k] = reviews[k] /\ k \in DOMAIN reviews
  BY <1>4 DEF Submitted
<1>8. ReviewsInv'
  BY <1>2, <1>4, <1>5, <1>6, <1>7 DEF ReviewsInv
<1> QED BY <1>4, <1>5, <1>8 DEF Moves

LEMMA ReviewKeeps ==
  ASSUME ReviewsInv, NEW u \in Accounts, NEW t \in 0..MaxTime,
         NEW s \in {"APPROVED", "CHANGES_REQUESTED", "COMMENTED", "UNKNOWN"}, Review(u, s, t)
  PROVE  ReviewsInv' /\ \E j : j \notin Submitted /\ Moves(j)
<1> DEFINE new == [user |-> u, state |-> s, at |-> t, commit |-> Commits[head],
                   order |-> happened + 1]
           n   == Len(reviews) + 1
<1>1. new \in ReviewRecords
  BY HeadIsCommit, SubmittedIsFinite DEF ReviewRecords, ReviewStates, STATES
<1>2. /\ reviews' = Append(reviews, new) /\ t >= clock /\ clock' = t
      /\ happened' = happened + 1 /\ head' = head
  BY DEF Review
<1>3. new.state # "PENDING" /\ new.at = t /\ new.order = happened + 1
  OBVIOUS
<1> HIDE DEF new, n
<1>4. /\ reviews' \in Seq(ReviewRecords) /\ DOMAIN reviews' = DOMAIN reviews \cup {n}
      /\ n \notin DOMAIN reviews /\ reviews'[n] = new
      /\ \A i \in DOMAIN reviews : reviews'[i] = reviews[i]
  BY <1>1, <1>2, Appended DEF n
<1>5. Submitted' = Submitted \cup {n} /\ n \notin Submitted /\ n \in DOMAIN reviews'
  BY <1>3, <1>4 DEF Submitted
<1>6. \A k, l \in (DOMAIN reviews \ Submitted)' : reviews'[k].user = reviews'[l].user => k = l
  BY <1>4, <1>5 DEF ReviewsInv
<1>7. \A k \in Submitted : reviews'[k] = reviews[k]
  BY <1>4 DEF Submitted
<1>8. ReviewsInv'
  BY <1>2, <1>3, <1>4, <1>5, <1>6, <1>7, SubmissionKeeps
<1>9. Moves(n)
  BY <1>4, <1>5 DEF Moves
<1> QED BY <1>5, <1>8, <1>9

LEMMA Changed ==
  ASSUME ReviewsInv, NEW i \in DOMAIN reviews, NEW r \in ReviewRecords,
         reviews' = [reviews EXCEPT ![i] = r]
  PROVE  /\ reviews' \in Seq(ReviewRecords) /\ DOMAIN reviews' = DOMAIN reviews
         /\ reviews'[i] = r
         /\ \A k \in DOMAIN reviews : k # i => reviews'[k] = reviews[k]
<1>1. reviews \in Seq(ReviewRecords)
  BY DEF ReviewsInv
<1> QED BY <1>1

LEMMA SubmitKeeps ==
  ASSUME ReviewsInv, NEW i \in DOMAIN reviews, NEW t \in 0..MaxTime,
         NEW s \in {"APPROVED", "CHANGES_REQUESTED"}, Submit(i, s, t)
  PROVE  ReviewsInv' /\ \E j : j \notin Submitted /\ Moves(j)
<1> DEFINE new == [reviews[i] EXCEPT !.state = s, !.at = t, !.order = happened + 1]
<1>1. reviews[i] \in ReviewRecords
  BY StampNumbers
<1>2. new \in ReviewRecords
  <2>1. s \in ReviewStates /\ happened + 1 \in Nat
    BY SubmittedIsFinite DEF ReviewStates, STATES
  <2> QED BY <1>1, <2>1 DEF ReviewRecords
<1>3. /\ new.state # "PENDING" /\ new.at = t /\ new.order = happened + 1
      /\ new.user = reviews[i].user /\ new.commit = reviews[i].commit
  BY <1>1 DEF ReviewRecords
<1>4. /\ reviews' = [reviews EXCEPT ![i] = new] /\ t >= clock /\ clock' = t
      /\ happened' = happened + 1 /\ head' = head /\ reviews[i].state = "PENDING"
  BY DEF Submit
<1> HIDE DEF new
<1>5. /\ reviews' \in Seq(ReviewRecords) /\ DOMAIN reviews' = DOMAIN reviews
      /\ reviews'[i] = new /\ \A k \in DOMAIN reviews : k # i => reviews'[k] = reviews[k]
  BY <1>2, <1>4, Changed
<1>6. Submitted' = Submitted \cup {i} /\ i \notin Submitted
  BY <1>3, <1>4, <1>5 DEF Submitted
<1>7. \A k, l \in (DOMAIN reviews \ Submitted)' : reviews'[k].user = reviews'[l].user => k = l
  BY <1>5, <1>6 DEF ReviewsInv
<1>8. \A k \in Submitted : reviews'[k] = reviews[k]
  BY <1>5, <1>6 DEF Submitted
<1>9. i \in DOMAIN reviews' /\ reviews'[i].at = t /\ reviews'[i].order = happened + 1
  BY <1>3, <1>5
<1>10. ReviewsInv'
  BY <1>4, <1>5, <1>6, <1>7, <1>8, <1>9, SubmissionKeeps
<1>11. Moves(i)
  BY <1>3, <1>5, <1>6, <1>8 DEF Moves
<1> QED BY <1>6, <1>10, <1>11

LEMMA DismissKeeps ==
  ASSUME ReviewsInv, NEW i \in DOMAIN reviews, Dismiss(i)
  PROVE  ReviewsInv' /\ Moves(0)
<1> DEFINE new == [reviews[i] EXCEPT !.state = "DISMISSED"]
<1>1. reviews[i] \in ReviewRecords
  BY StampNumbers
<1>2. new \in ReviewRecords
  BY <1>1 DEF ReviewRecords, ReviewStates, STATES
<1>3. /\ new.state = "DISMISSED" /\ new.at = reviews[i].at /\ new.order = reviews[i].order
      /\ new.user = reviews[i].user /\ new.commit = reviews[i].commit
  BY <1>1 DEF ReviewRecords
<1>4. /\ reviews' = [reviews EXCEPT ![i] = new] /\ UNCHANGED <<head, clock, happened>>
      /\ reviews[i].state \in DECIDING
  BY DEF Dismiss, DECIDING
<1> HIDE DEF new
<1>5. /\ reviews' \in Seq(ReviewRecords) /\ DOMAIN reviews' = DOMAIN reviews
      /\ reviews'[i] = new /\ \A k \in DOMAIN reviews : k # i => reviews'[k] = reviews[k]
  BY <1>2, <1>4, Changed
<1>6. i \in Submitted
  BY <1>4 DEF Submitted, DECIDING
<1>7. Submitted' = Submitted
  BY <1>3, <1>5, <1>6 DEF Submitted
<1>8. \A k \in DOMAIN reviews : /\ reviews'[k].at = reviews[k].at
                                /\ reviews'[k].order = reviews[k].order
                                /\ reviews'[k].user = reviews[k].user
                                /\ reviews'[k].commit = reviews[k].commit
  BY <1>3, <1>5
<1>9. Submitted \subseteq DOMAIN reviews
  BY DEF Submitted
<1>10. ReviewsInv'
  BY <1>4, <1>5, <1>7, <1>8, <1>9 DEF ReviewsInv
<1>11. Moves(0)
  BY <1>3, <1>4, <1>5, <1>7, <1>8, <1>9 DEF Moves
<1> QED BY <1>10, <1>11

(* ------------------ submissions between two captured pages ---------------- *)

\* What the listing is, in a form that can be used of the next state too.
ListingFacts ==
  /\ Listed \subseteq DOMAIN reviews /\ Submitted \subseteq Listed
  /\ IsFiniteSet(Listed) /\ Cardinality(Listed) \in Nat
  /\ \A i : /\ IsFiniteSet(Ahead(i)) /\ Cardinality(Ahead(i)) \in Nat
            /\ Position(i) = 1 + Cardinality(Ahead(i))
  /\ \A i \in Listed : Position(i) \in 1..Cardinality(Listed)
  /\ \A i, j \in Listed : Earlier(i, j) => Position(i) < Position(j)
  /\ \A i, j \in Listed : Position(i) = Position(j) => i = j
  /\ \A p \in 1..Cardinality(Listed) : \E i \in Listed : Position(i) = p
  /\ \A i \in Listed \ Submitted : Position(i) = Cardinality(Listed)
  /\ \A i, j \in DOMAIN reviews : i = j \/ Earlier(i, j) \/ Earlier(j, i)
  /\ \A i, j, k \in DOMAIN reviews : Earlier(i, j) /\ Earlier(j, k) => Earlier(i, k)

StampFacts ==
  \A i \in DOMAIN reviews :
    /\ i \in Nat /\ Stamp(i) \in Nat
    /\ reviews[i].at \in Nat /\ reviews[i].at <= MaxTime
    /\ i \in Submitted => Stamp(i) = reviews[i].at
    /\ i \notin Submitted => Stamp(i) = MaxTime + 1

LEMMA ListingFactsHold == ReviewsInv => ListingFacts /\ StampFacts
<1> SUFFICES ASSUME ReviewsInv PROVE ListingFacts /\ StampFacts
  OBVIOUS
<1>1. StampFacts
  BY StampNumbers DEF StampFacts
<1>2. Submitted \subseteq Listed
  BY DEF Submitted, Listed
<1>3. /\ \A i \in Listed : Position(i) \in 1..Cardinality(Listed)
      /\ \A i, j \in Listed : Earlier(i, j) => Position(i) < Position(j)
  BY PositionRange, PositionGrows
<1>4. /\ \A i, j \in Listed : Position(i) = Position(j) => i = j
      /\ \A p \in 1..Cardinality(Listed) : \E i \in Listed : Position(i) = p
  BY PositionIsUnique, PositionIsTaken
<1>5. \A i \in Listed \ Submitted : Position(i) = Cardinality(Listed)
  BY PendingIsLast
<1>6. /\ \A i, j \in DOMAIN reviews : i = j \/ Earlier(i, j) \/ Earlier(j, i)
      /\ \A i, j, k \in DOMAIN reviews : Earlier(i, j) /\ Earlier(j, k) => Earlier(i, k)
  BY EarlierIsOrder
<1>7. /\ Listed \subseteq DOMAIN reviews
      /\ IsFiniteSet(Listed) /\ Cardinality(Listed) \in Nat
      /\ \A i : IsFiniteSet(Ahead(i)) /\ Cardinality(Ahead(i)) \in Nat
                /\ Position(i) = 1 + Cardinality(Ahead(i))
  BY ListedIsFinite
<1> QED BY <1>1, <1>2, <1>3, <1>4, <1>5, <1>6, <1>7 DEF ListingFacts

LEMMA NextListingFacts == ReviewsInv' => ListingFacts' /\ StampFacts'
BY ListingFactsHold, PTL

\* A submitted review keeps its stamp and everything listed before it; only what
\* is submitted by the step may come to stand before it.
LEMMA MovesAhead ==
  ASSUME ReviewsInv, ReviewsInv', NEW j, Moves(j)
  PROVE  /\ \A e, f \in Submitted : Earlier(e, f)' <=> Earlier(e, f)
         /\ \A e \in Submitted : Ahead(e) \subseteq Ahead(e)' /\ Ahead(e)' \subseteq Ahead(e) \cup {j}
         /\ Listed \subseteq Listed'
         /\ Cardinality(Listed) <= Cardinality(Listed)'
<1> USE NextListingFacts, ListingFactsHold
<1>1. PICK S, T : S = Submitted /\ T = Submitted'
  OBVIOUS
<1>2. /\ S \subseteq DOMAIN reviews /\ T \subseteq DOMAIN reviews'
      /\ DOMAIN reviews \subseteq DOMAIN reviews'
      /\ S \subseteq T /\ T \subseteq S \cup {j}
      /\ \A e \in S : reviews'[e].at = reviews[e].at
  BY <1>1 DEF Moves, Submitted
<1>3. \A e \in S : Stamp(e)' = Stamp(e) /\ Stamp(e) \in Nat /\ Stamp(e) <= MaxTime
  <2>1. \A e \in S : Stamp(e) = reviews[e].at /\ reviews[e].at \in Nat /\ reviews[e].at <= MaxTime
    BY <1>1, <1>2 DEF StampFacts
  <2>2. \A e \in T : Stamp(e)' = reviews'[e].at
    BY <1>1, <1>2 DEF StampFacts
  <2> QED BY <1>2, <2>1, <2>2
<1>4. \A e, f \in S : Earlier(e, f)' <=> Earlier(e, f)
  <2> SUFFICES ASSUME NEW e \in S, NEW f \in S PROVE Earlier(e, f)' <=> Earlier(e, f)
    OBVIOUS
  <2> QED BY <1>3 DEF Earlier
\* Only submitted reviews stand before a submitted one.
<1>5. \A e \in S, k \in DOMAIN reviews : Earlier(k, e) => k \in S
  <2> SUFFICES ASSUME NEW e \in S, NEW k \in DOMAIN reviews, k \notin S PROVE ~Earlier(k, e)
    OBVIOUS
  <2>1. Stamp(k) = MaxTime + 1 /\ Stamp(e) \in Nat /\ Stamp(e) <= MaxTime /\ MaxTime \in Nat
    BY <1>1, <1>3, PullRequestAssumption DEF StampFacts
  <2> QED BY <2>1 DEF Earlier
<1>6. \A e \in S, k \in DOMAIN reviews' : Earlier(k, e)' => k \in T
  <2> SUFFICES ASSUME NEW e \in S, NEW k \in DOMAIN reviews', k \notin T PROVE ~Earlier(k, e)'
    OBVIOUS
  <2>1. Stamp(k)' = MaxTime + 1 /\ Stamp(e)' \in Nat /\ Stamp(e)' <= MaxTime /\ MaxTime \in Nat
    BY <1>1, <1>3, PullRequestAssumption DEF StampFacts
  <2> QED BY <2>1 DEF Earlier
<1>7. Listed \subseteq DOMAIN reviews /\ Listed' \subseteq DOMAIN reviews'
      /\ S \subseteq Listed /\ T \subseteq Listed'
  BY <1>1 DEF ListingFacts
<1>8. ASSUME NEW e \in S, NEW k \in Ahead(e) PROVE k \in Ahead(e)'
  <2>1. k \in S /\ Earlier(k, e)
    BY <1>5, <1>7, <1>8 DEF Ahead
  <2>2. k \in Listed' /\ Earlier(k, e)'
    BY <1>2, <1>4, <1>7, <2>1
  <2> QED BY <2>2 DEF Ahead
<1>9. ASSUME NEW e \in S, NEW k \in Ahead(e)' PROVE k \in Ahead(e) \cup {j}
  <2>1. k \in T /\ Earlier(k, e)'
    BY <1>6, <1>7, <1>9 DEF Ahead
  <2>2. CASE k \in S
    <3>1. k \in Listed /\ Earlier(k, e)
      BY <1>4, <1>7, <2>1, <2>2
    <3> QED BY <3>1 DEF Ahead
  <2> QED BY <1>2, <2>1, <2>2
<1>10. Listed \in SUBSET Listed'
  BY DEF Listed, Moves, Submitted
<1>11. Cardinality(Listed) <= Cardinality(Listed')
  BY <1>10, FS_Subset DEF ListingFacts
<1> QED BY <1>1, <1>4, <1>8, <1>9, <1>10, <1>11

\* Before the last page, what was captured is submitted.
LEMMA TakenIsSubmitted ==
  ASSUME CaptureInv, ~Captured, NEW e \in Taken
  PROVE  e \in Submitted
<1>1. PICK x \in PageItems : x.id = e
  BY DEF Taken
<1>2. Faithful(x) /\ x.state # "PENDING"
  BY <1>1 DEF CaptureInv, Faithful
<1> QED BY <1>1, <1>2 DEF Faithful, Submitted, DECIDING

LEMMA MovesPage ==
  ASSUME ReviewsInv, ReviewsInv', CaptureInv, PagingInv, NEW j, Moves(j),
         j \in Submitted => Submitted' = Submitted,
         UNCHANGED capture
  PROVE  PagingInv'
<1> SUFFICES ASSUME ~Captured PROVE (Repeat \/ Clean \/ Doomed)'
  BY DEF PagingInv, Captured
<1> USE NextListingFacts, ListingFactsHold
<1>1. Repeat' = Repeat /\ Taken' = Taken /\ Reach' = Reach
  BY DEF Repeat, Taken, Reach, PageItems
<1>2. PICK K, R : K = Taken /\ R = Reach
  OBVIOUS
<1>3. R \in Nat
  BY <1>2, PullRequestAssumption DEF Reach, CaptureInv
<1>4. K \subseteq Submitted
  BY <1>2, TakenIsSubmitted
<1>5. /\ \A e, f \in Submitted : Earlier(e, f)' <=> Earlier(e, f)
      /\ \A e \in Submitted : Ahead(e) \subseteq Ahead(e)' /\ Ahead(e)' \subseteq Ahead(e) \cup {j}
      /\ Listed \subseteq Listed'
      /\ Cardinality(Listed) <= Cardinality(Listed)'
  BY MovesAhead
<1>6. \A e \in K : /\ Position(e) \in Nat /\ Position(e)' \in Nat /\ Position(e) <= Position(e)'
                   /\ e \in Listed /\ e \in Listed'
  <2> SUFFICES ASSUME NEW e \in K
               PROVE  /\ Position(e) \in Nat /\ Position(e)' \in Nat /\ Position(e) <= Position(e)'
                      /\ e \in Listed /\ e \in Listed'
    OBVIOUS
  <2>1. Ahead(e) \in SUBSET Ahead(e)' /\ IsFiniteSet(Ahead(e)')
    BY <1>4, <1>5 DEF ListingFacts
  <2>2. Cardinality(Ahead(e)) <= Cardinality(Ahead(e)')
    BY <2>1, FS_Subset
  <2>3. Position(e) = 1 + Cardinality(Ahead(e)) /\ Position(e)' = 1 + Cardinality(Ahead(e)')
        /\ Cardinality(Ahead(e)) \in Nat /\ Cardinality(Ahead(e)') \in Nat
    BY DEF ListingFacts
  <2>4. e \in Listed /\ e \in Listed'
    BY <1>4, <1>5 DEF ListingFacts
  <2> QED BY <2>2, <2>3, <2>4
<1>7. CASE Doomed
  <2>1. PICK e \in K : Position(e) > R
    BY <1>2, <1>7 DEF Doomed
  <2>2. Position(e)' > R
    BY <1>3, <1>6, <2>1
  <2> QED BY <1>1, <1>2, <2>2 DEF Doomed
<1>8. CASE Clean
  <2>1. R <= Cardinality(Listed) /\ K = {i \in Listed : Position(i) <= R}
    BY <1>2, <1>8 DEF Clean
  <2>2. CASE \E e \in K : j \in Ahead(e)' /\ j \notin Ahead(e)
    <3>1. PICK e \in K : j \in Ahead(e)' /\ j \notin Ahead(e)
      BY <2>2
    <3>2. R \in 1..Cardinality(Listed)
      <4>1. Position(e) \in 1..Cardinality(Listed) /\ Position(e) <= R
            /\ Cardinality(Listed) \in Nat
        BY <2>1, <1>6 DEF ListingFacts
      <4> QED BY <1>3, <2>1, <4>1
    <3>3. PICK f \in Listed : Position(f) = R
      BY <3>2 DEF ListingFacts
    <3>4. f \in K
      BY <1>3, <2>1, <3>3
    <3>5. e = f \/ Earlier(e, f)
      <4>1. e \in DOMAIN reviews /\ f \in DOMAIN reviews /\ e \in Listed /\ f \in Listed
        BY <1>6, <3>4 DEF ListingFacts
      <4>2. ~Earlier(f, e)
        <5>1. Position(e) <= R /\ Position(e) \in Nat
          BY <1>6, <2>1
        <5>2. Earlier(f, e) => R < Position(e)
          BY <3>3, <4>1 DEF ListingFacts
        <5> QED BY <1>3, <5>1, <5>2
      <4> QED BY <4>1, <4>2 DEF ListingFacts
    <3>6. j \in Listed' /\ Earlier(j, e)'
      BY <3>1 DEF Ahead
    <3>7. Earlier(j, f)'
      <4>1. CASE e = f
        BY <3>6, <4>1
      <4>2. CASE Earlier(e, f)
        <5>1. Earlier(e, f)'
          BY <1>4, <1>5, <3>4, <4>2
        <5>2. j \in DOMAIN reviews' /\ e \in DOMAIN reviews' /\ f \in DOMAIN reviews'
          BY <1>6, <3>4, <3>6 DEF ListingFacts
        <5> QED BY <3>6, <5>1, <5>2 DEF ListingFacts
      <4> QED BY <3>5, <4>1, <4>2
    <3>8. j \in Ahead(f)' /\ j \notin Ahead(f)
      <4>1. j \in Ahead(f)'
        BY <3>6, <3>7 DEF Ahead
      <4>2. CASE j \in Ahead(f)
        <5>1. j \in Listed /\ Earlier(j, f)
          BY <4>2 DEF Ahead
        <5>2. f \in Submitted /\ j \in DOMAIN reviews /\ f \in DOMAIN reviews
          BY <1>4, <3>4, <5>1 DEF ListingFacts
        <5>3. j \in Submitted
          <6> SUFFICES ASSUME j \notin Submitted PROVE FALSE
            OBVIOUS
          <6>1. Stamp(j) = MaxTime + 1 /\ Stamp(f) \in Nat /\ Stamp(f) <= MaxTime
                /\ MaxTime \in Nat
            BY <5>2, PullRequestAssumption DEF StampFacts
          <6> QED BY <5>1, <6>1 DEF Earlier
        <5>4. Earlier(j, e)
          BY <1>4, <1>5, <3>6, <5>3
        <5> QED BY <3>1, <5>1, <5>4 DEF Ahead
      <4> QED BY <4>1, <4>2
    <3>9. Ahead(f) \subseteq Ahead(f)' /\ Ahead(f)' \subseteq Ahead(f) \cup {j}
      BY <1>4, <1>5, <3>4
    <3>10. Ahead(f)' = Ahead(f) \cup {j}
      BY <3>8, <3>9
    <3>11. Cardinality(Ahead(f)') = Cardinality(Ahead(f)) + 1
      <4>1. PICK A : A = Ahead(f)
        OBVIOUS
      <4>2. IsFiniteSet(A)
        BY <4>1 DEF ListingFacts
      <4>3. Cardinality(A \cup {j}) = Cardinality(A) + 1
        BY <3>8, <4>1, <4>2, FS_AddElement
      <4> QED BY <3>10, <4>1, <4>3
    <3>12. Position(f)' > R
      <4>1. Position(f) = 1 + Cardinality(Ahead(f)) /\ Position(f)' = 1 + Cardinality(Ahead(f)')
            /\ Cardinality(Ahead(f)) \in Nat
        BY DEF ListingFacts
      <4> QED BY <3>3, <3>11, <4>1
    <3> QED BY <1>1, <1>2, <3>4, <3>12 DEF Doomed
  <2>3. CASE ~\E e \in K : j \in Ahead(e)' /\ j \notin Ahead(e)
    <3>1. \A e \in K : Position(e)' = Position(e)
      <4> SUFFICES ASSUME NEW e \in K PROVE Position(e)' = Position(e)
        OBVIOUS
      <4>1. Ahead(e)' = Ahead(e)
        BY <1>4, <1>5, <2>3
      <4>2. Position(e) = 1 + Cardinality(Ahead(e)) /\ Position(e)' = 1 + Cardinality(Ahead(e)')
        BY DEF ListingFacts
      <4> QED BY <4>1, <4>2
    <3>2. ASSUME NEW i \in Listed', Position(i)' <= R PROVE i \in K
      <4>1. PICK p : p = Position(i)'
        OBVIOUS
      <4>2. p \in Nat /\ p >= 1 /\ p <= R
        BY <3>2, <4>1 DEF ListingFacts
      <4>3. p \in 1..Cardinality(Listed)
        BY <1>3, <2>1, <4>2 DEF ListingFacts
      <4>4. PICK e \in Listed : Position(e) = p
        BY <4>3 DEF ListingFacts
      <4>5. e \in K
        BY <2>1, <4>2, <4>4
      <4>6. Position(e)' = Position(i)' /\ e \in Listed'
        BY <1>6, <3>1, <4>1, <4>4, <4>5
      <4>7. e = i
        BY <4>6 DEF ListingFacts
      <4> QED BY <4>5, <4>7
    <3>3. ASSUME NEW i \in K PROVE i \in Listed' /\ Position(i)' <= R
      <4>1. Position(i) <= R
        BY <2>1
      <4> QED BY <1>6, <3>1, <4>1
    <3>4. K = {i \in Listed' : Position(i)' <= R}
      BY <3>2, <3>3
    <3>5. R <= Cardinality(Listed)'
      BY <1>3, <1>5, <2>1 DEF ListingFacts
    <3> QED BY <1>1, <1>2, <3>4, <3>5 DEF Clean
  <2> QED BY <2>2, <2>3
<1>9. CASE Repeat
  BY <1>1, <1>9
<1> QED BY <1>7, <1>8, <1>9 DEF PagingInv

(* -------------- the captured reviews while the others change -------------- *)

LEMMA MovesCapture ==
  ASSUME ReviewsInv, CaptureInv, NEW j, Moves(j), UNCHANGED <<capture, truth>>
  PROVE  CaptureInv'
<1>1. PageItems' = PageItems /\ Captured' = Captured
  BY DEF PageItems, Captured
<1>2. ASSUME NEW x \in PageItems PROVE Faithful(x)'
  <2>1. Faithful(x)
    BY DEF CaptureInv
  <2>2. x.state # "PENDING" => x.id \in Submitted
    BY <2>1 DEF Faithful, Submitted, DECIDING
  <2> QED BY <1>1, <2>1, <2>2 DEF Faithful, Moves, DECIDING
<1>3. DOMAIN reviews \subseteq DOMAIN reviews'
  BY DEF Moves
<1> QED BY <1>1, <1>2, <1>3 DEF CaptureInv

LEMMA MovesApprovals ==
  ASSUME ReviewsInv, CaptureInv, ApprovalsInv, NEW j, Moves(j), UNCHANGED <<capture, truth>>
  PROVE  ApprovalsInv'
<1>1. PageItems' = PageItems /\ Captured' = Captured
  BY DEF PageItems, Captured
<1> SUFFICES ASSUME ~Captured, NEW a \in PageItems, a.state = "APPROVED", a.id \notin truth.inForce
             PROVE  \E i \in DOMAIN reviews' : Overrides(i, a.id)'
  BY <1>1 DEF ApprovalsInv
<1>2. PICK i \in DOMAIN reviews : Overrides(i, a.id)
  BY DEF ApprovalsInv
<1>3. Faithful(a)
  BY DEF CaptureInv
<1>4. PICK b : b = a.id
  OBVIOUS
<1>5. b \in Submitted /\ b \in DOMAIN reviews
  BY <1>3, <1>4 DEF Faithful, Submitted
<1>6. i \in Submitted
  BY <1>2 DEF Overrides, Submitted
<1>7. reviews'[b].user = reviews[b].user /\ reviews'[b].order = reviews[b].order
  BY <1>5 DEF Moves
<1>8. /\ reviews'[i].user = reviews[i].user /\ reviews'[i].order = reviews[i].order
      /\ reviews'[i].state = reviews[i].state \/ reviews'[i].state = "DISMISSED"
      /\ i \in DOMAIN reviews'
  BY <1>6 DEF Moves
<1>9. Overrides(i, b)'
  BY <1>1, <1>2, <1>4, <1>7, <1>8 DEF Overrides
<1> QED BY <1>4, <1>8, <1>9

LEMMA EndStays ==
  ASSUME EndInv, capture'.pages = capture.pages, truth' = truth
  PROVE  EndInv'
<1>1. PageItems' = PageItems /\ Captured' = Captured /\ Repeat' = Repeat
  BY DEF PageItems, Captured, Repeat
<1> QED BY <1>1 DEF EndInv, ApprovalsShown, ObjectionsShown

LEMMA MovesKeep ==
  ASSUME PRInv, ReviewsInv', NEW j, j \notin Submitted, Moves(j), UNCHANGED <<capture, truth>>
  PROVE  PRInv'
BY MovesCapture, MovesApprovals, MovesPage, EndStays DEF PRInv

(* -------------------------------- one page ------------------------------- *)

\* The reviews on the page that ends at a position of the listing.
PageTo(last) == {i \in Listed : Reach < Position(i) /\ Position(i) <= last}

LEMMA RawIsTyped ==
  ASSUME ReviewsInv, NEW i \in DOMAIN reviews
  PROVE  /\ Raw(i) \in RawRecords
         /\ Raw(i).id = i /\ Raw(i).user = User(reviews[i].user)
         /\ Raw(i).state = reviews[i].state /\ Raw(i).at = reviews[i].at
         /\ Raw(i).commit = reviews[i].commit
<1>1. reviews[i] \in ReviewRecords /\ i \in Nat
  BY StampNumbers
<1> QED BY <1>1 DEF Raw, RawRecords, ReviewRecords

LEMMA ReachIsNumber ==
  ASSUME CaptureInv
  PROVE  Reach \in Nat /\ PageSize \in Nat /\ PageSize > 0 /\ Len(capture.pages) \in Nat
         /\ (Len(capture.pages) + 1) * PageSize = Reach + PageSize
<1>1. Len(capture.pages) \in Nat /\ PageSize \in Nat /\ PageSize > 0
  BY PullRequestAssumption DEF CaptureInv
<1>2. PICK k \in Nat, p \in Nat : k = Len(capture.pages) /\ p = PageSize
  BY <1>1
<1>3. k * p \in Nat /\ (k + 1) * p = k * p + p
  OBVIOUS
<1> QED BY <1>1, <1>2, <1>3 DEF Reach

LEMMA PageStep ==
  ASSUME ReviewsInv, CaptureInv, CapturePage
  PROVE  \E p \in PageRecords, last \in Nat :
           /\ last = IF Reach + PageSize < Cardinality(Listed) THEN Reach + PageSize
                     ELSE Cardinality(Listed)
           /\ capture' = [capture EXCEPT !.pages = Append(@, p)]
           /\ p.next = (last < Cardinality(Listed))
           /\ Range(p.items) = {Raw(i) : i \in PageTo(last)}
           /\ truth'.inForce = {i \in truth.inForce : ~Overridden(i)}
                               \cup {i \in PageTo(last) : InForce(i)}
           /\ truth'.objections = {i \in DOMAIN reviews : Objection(i)}
<1> DEFINE k     == Len(capture.pages)
           last  == IF (k + 1) * PageSize < Len(Listing) THEN (k + 1) * PageSize
                    ELSE Len(Listing)
           items == [n \in 1..(last - k * PageSize) |-> Raw(Listing[k * PageSize + n])]
           p     == [items |-> items, next |-> last < Len(Listing)]
<1>1. PICK N \in Nat : N = Cardinality(Listed) /\ Len(Listing) = N
  BY ListedIsFinite, ListingLength
<1>2. PICK R \in Nat : R = Reach /\ k * PageSize = R /\ (k + 1) * PageSize = R + PageSize
                       /\ PageSize \in Nat
  BY ReachIsNumber DEF Reach
<1>3. last = IF R + PageSize < N THEN R + PageSize ELSE N
  BY <1>1, <1>2
<1>4. items = [n \in 1..(last - R) |-> Raw(Listing[R + n])]
  BY <1>2
<1>5. capture' = [capture EXCEPT !.pages = Append(@, p)]
  BY DEF CapturePage
<1>6. truth' = [inForce |-> {i \in truth.inForce : ~Overridden(i)}
                          \cup {i \in {items[n].id : n \in DOMAIN items} : InForce(i)},
                objections |-> {i \in DOMAIN reviews : Objection(i)}]
  BY DEF CapturePage
<1>7. p.items = items /\ p.next = (last < N)
  BY <1>1
<1> HIDE DEF p
<1>8. last \in Nat /\ last <= N
  BY <1>1, <1>2, <1>3
<1> HIDE DEF last, items
<1>9. ASSUME NEW n \in 1..(last - R)
      PROVE  /\ Listing[R + n] \in PageTo(last) /\ Listing[R + n] \in DOMAIN reviews
             /\ items[n] = Raw(Listing[R + n])
             /\ items[n].id = Listing[R + n]
  <2>1. R + n \in 1..N /\ R < R + n /\ R + n <= last
    BY <1>8
  <2>2. Listing[R + n] \in Listed /\ Position(Listing[R + n]) = R + n
    BY <1>1, <2>1, ListingAt
  <2>3. Listing[R + n] \in DOMAIN reviews
    BY <2>2, ListedIsFinite
  <2>4. items[n] = Raw(Listing[R + n])
    BY <1>4
  <2>5. items[n].id = Listing[R + n]
    BY <2>3, <2>4, RawIsTyped
  <2> QED BY <1>2, <2>1, <2>2, <2>3, <2>4, <2>5 DEF PageTo
<1>10. ASSUME NEW i \in PageTo(last)
       PROVE  \E n \in 1..(last - R) : Listing[R + n] = i
  <2>1. i \in Listed /\ Position(i) \in 1..N /\ R < Position(i) /\ Position(i) <= last
    BY <1>1, <1>2, PositionRange DEF PageTo
  <2>2. PICK q \in 1..N : q = Position(i)
    BY <2>1
  <2>3. q - R \in 1..(last - R) /\ R + (q - R) = q
    BY <1>8, <2>1, <2>2
  <2>4. Listing[q] \in Listed /\ Position(Listing[q]) = Position(i)
    BY <1>1, <2>2, ListingAt
  <2>5. Listing[q] = i
    BY <2>1, <2>4, PositionIsUnique
  <2> QED BY <2>3, <2>5
<1>11. DOMAIN items = 1..(last - R)
  BY <1>4
<1>12. items \in Seq(RawRecords)
  <2>1. PICK m \in Nat : 1..(last - R) = 1..m
    <3>1. CASE last - R \in Nat
      BY <3>1
    <3>2. CASE last - R \notin Nat
      <4>1. 1..(last - R) = 1..0
        BY <1>8, <3>2
      <4> QED BY <4>1
    <3> QED BY <3>1, <3>2
  <2>2. ASSUME NEW n \in 1..m PROVE items[n] \in RawRecords
    <3>1. items[n] = Raw(Listing[R + n]) /\ Listing[R + n] \in DOMAIN reviews
      BY <1>9, <2>1
    <3> QED BY <3>1, RawIsTyped
  <2>3. items = [n \in 1..m |-> items[n]]
    BY <1>4, <2>1
  <2> QED BY <2>2, <2>3
<1>13. p \in PageRecords
  BY <1>7, <1>12 DEF PageRecords, p
<1>14. Range(items) = {Raw(i) : i \in PageTo(last)}
  BY <1>9, <1>10, <1>11 DEF Range
<1>15. {items[n].id : n \in DOMAIN items} = PageTo(last)
  BY <1>9, <1>10, <1>11
<1> QED BY <1>1, <1>2, <1>3, <1>5, <1>6, <1>7, <1>8, <1>13, <1>14, <1>15

\* The pages and the captured reviews after one page more.
LEMMA PageAppended ==
  ASSUME CaptureInv, NEW p \in PageRecords,
         capture' = [capture EXCEPT !.pages = Append(@, p)]
  PROVE  /\ capture'.pages = Append(capture.pages, p)
         /\ capture' = [pull |-> capture.pull, number |-> capture.number,
                        pages |-> Append(capture.pages, p), complete |-> capture.complete]
         /\ capture'.pages \in Seq(PageRecords) /\ Len(capture'.pages) = Len(capture.pages) + 1
         /\ DOMAIN capture'.pages = DOMAIN capture.pages \cup {Len(capture.pages) + 1}
         /\ Len(capture.pages) \in Nat /\ DOMAIN capture.pages = 1..Len(capture.pages)
         /\ \A m \in DOMAIN capture.pages : capture'.pages[m] = capture.pages[m]
         /\ capture'.pages[Len(capture.pages) + 1] = p
         /\ PageItems' = PageItems \cup Range(p.items)
         /\ Captured' = ~p.next
<1>1. PICK q : q = capture.pages
  OBVIOUS
<1>2. q \in Seq(PageRecords)
  BY <1>1 DEF CaptureInv
<1>3. capture' = [pull |-> capture.pull, number |-> capture.number,
                  pages |-> Append(q, p), complete |-> capture.complete]
  BY <1>1 DEF CaptureInv
<1>4. capture'.pages = Append(q, p)
  BY <1>3
<1>5. /\ Append(q, p) \in Seq(PageRecords) /\ Len(Append(q, p)) = Len(q) + 1
      /\ Len(q) \in Nat /\ DOMAIN q = 1..Len(q) /\ DOMAIN Append(q, p) = 1..(Len(q) + 1)
      /\ \A m \in DOMAIN q : Append(q, p)[m] = q[m]
      /\ Append(q, p)[Len(q) + 1] = p
  BY <1>2
<1>6. DOMAIN Append(q, p) = DOMAIN q \cup {Len(q) + 1}
  BY <1>5
<1>7. PageItems' = PageItems \cup Range(p.items)
  <2>1. PICK r : r = Append(q, p)
    OBVIOUS
  <2>2. PageItems' = UNION {Range(r[m].items) : m \in DOMAIN r}
    BY <1>4, <2>1 DEF PageItems
  <2>3. PageItems = UNION {Range(q[m].items) : m \in DOMAIN q}
    BY <1>1 DEF PageItems
  <2>4. /\ DOMAIN r = DOMAIN q \cup {Len(q) + 1} /\ r[Len(q) + 1] = p
        /\ \A m \in DOMAIN q : r[m] = q[m]
    BY <1>5, <1>6, <2>1
  <2> QED BY <2>2, <2>3, <2>4
<1>8. Captured' = ~p.next
  <2>1. Append(q, p) # <<>> /\ Last(Append(q, p)) = p
    BY <1>2, <1>5 DEF Last
  <2>2. p.next \in BOOLEAN
    BY DEF PageRecords
  <2> QED BY <1>4, <2>1, <2>2 DEF Captured
<1> QED BY <1>1, <1>3, <1>4, <1>5, <1>6, <1>7, <1>8

(* -------------------- every page keeps the invariant --------------------- *)

\* What a page adds, in the words of the invariant.
PageFacts(p, last) ==
  /\ p \in PageRecords /\ last \in Nat
  /\ last = IF Reach + PageSize < Cardinality(Listed) THEN Reach + PageSize
            ELSE Cardinality(Listed)
  /\ p.next = (last < Cardinality(Listed))
  /\ Range(p.items) = {Raw(i) : i \in PageTo(last)}
  /\ capture' = [capture EXCEPT !.pages = Append(@, p)]
  /\ truth'.inForce = {i \in truth.inForce : ~Overridden(i)}
                      \cup {i \in PageTo(last) : InForce(i)}
  /\ truth'.objections = {i \in DOMAIN reviews : Objection(i)}

LEMMA PageFactsHold ==
  ASSUME ReviewsInv, CaptureInv, CapturePage
  PROVE  \E p, last : PageFacts(p, last)
BY PageStep DEF PageFacts

\* A captured review is an old one, which was submitted, or is as its review is.
LEMMA PageContents ==
  ASSUME ReviewsInv, CaptureInv, CapturePage, NEW p, NEW last, PageFacts(p, last),
         NEW x \in PageItems'
  PROVE  /\ Faithful(x)' /\ x.id \in DOMAIN reviews
         /\ \/ x \in PageItems /\ x.state # "PENDING"
            \/ x.id \in PageTo(last) /\ x = Raw(x.id) /\ x.state = reviews[x.id].state
         /\ x.state # "PENDING" =>
              /\ x.at = reviews[x.id].at
              /\ \/ reviews[x.id].state = x.state
                 \/ reviews[x.id].state = "DISMISSED" /\ x.state \in DECIDING
         /\ x.state = "PENDING" => x.id \notin Submitted
<1>1. PageItems' = PageItems \cup {Raw(i) : i \in PageTo(last)} /\ (Captured' <=> ~p.next)
  BY PageAppended DEF PageFacts
<1>2. ~Captured /\ reviews' = reviews
  BY DEF CapturePage
<1>3. CASE x \in PageItems
  <2>1. Faithful(x) /\ x.state # "PENDING"
    BY <1>2, <1>3 DEF CaptureInv, Faithful
  <2> QED BY <1>2, <1>3, <2>1 DEF Faithful
<1>4. CASE x \notin PageItems
  <2>1. PICK i \in PageTo(last) : x = Raw(i)
    BY <1>1, <1>4
  <2>2. i \in Listed /\ i \in DOMAIN reviews /\ Position(i) <= last
    BY ListedIsFinite, <2>1 DEF PageTo
  <2>3. /\ x.id = i /\ x.user = User(reviews[i].user) /\ x.state = reviews[i].state
        /\ x.at = reviews[i].at /\ x.commit = reviews[i].commit
    BY <2>1, <2>2, RawIsTyped
  <2>4. ASSUME x.state = "PENDING" PROVE Captured' /\ i \notin Submitted
    <3>1. i \notin Submitted
      BY <2>2, <2>3, <2>4 DEF Submitted
    <3>2. Position(i) = Cardinality(Listed) /\ Cardinality(Listed) \in Nat
      BY <2>2, <3>1, PendingIsLast, ListedIsFinite
    <3>3. ~(last < Cardinality(Listed))
      BY <2>2, <3>2 DEF PageFacts
    <3> QED BY <1>1, <3>1, <3>3 DEF PageFacts
  <2>5. Faithful(x)'
    BY <1>2, <2>2, <2>3, <2>4 DEF Faithful
  <2> QED BY <2>1, <2>2, <2>3, <2>4, <2>5
<1> QED BY <1>3, <1>4

LEMMA PageCapture ==
  ASSUME ReviewsInv, CaptureInv, CapturePage, NEW p, NEW last, PageFacts(p, last)
  PROVE  CaptureInv'
<1>1. \A x \in PageItems' : Faithful(x)'
  BY PageContents
<1>2. /\ capture' = [pull |-> capture.pull, number |-> capture.number,
                     pages |-> Append(capture.pages, p), complete |-> capture.complete]
      /\ capture'.pages \in Seq(PageRecords) /\ Len(capture'.pages) = Len(capture.pages) + 1
      /\ DOMAIN capture'.pages = DOMAIN capture.pages \cup {Len(capture.pages) + 1}
      /\ Len(capture.pages) \in Nat /\ DOMAIN capture.pages = 1..Len(capture.pages)
      /\ \A m \in DOMAIN capture.pages : capture'.pages[m] = capture.pages[m]
  BY PageAppended DEF PageFacts
<1>3. ~Captured /\ reviews' = reviews
  BY DEF CapturePage
<1>4. ASSUME NEW m \in DOMAIN capture'.pages, m < Len(capture'.pages)
      PROVE  capture'.pages[m].next
  <2>1. m \in DOMAIN capture.pages /\ capture'.pages[m] = capture.pages[m]
    BY <1>2, <1>4
  <2>2. CASE m < Len(capture.pages)
    BY <2>1, <2>2 DEF CaptureInv
  <2>3. CASE m = Len(capture.pages)
    <3>1. capture.pages # <<>> /\ Last(capture.pages) = capture.pages[m]
      BY <1>2, <2>1, <2>3 DEF Last
    <3> QED BY <1>3, <2>1, <3>1 DEF Captured
  <2> QED BY <1>2, <2>1, <2>2, <2>3
<1>5. truth'.inForce \cup truth'.objections \subseteq DOMAIN reviews'
  <2>1. PageTo(last) \subseteq DOMAIN reviews
    BY ListedIsFinite DEF PageTo
  <2> QED BY <1>3, <2>1 DEF PageFacts, CaptureInv
<1>6. capture'.pull \in Pulls /\ capture'.complete \in BOOLEAN
  BY <1>2 DEF CaptureInv
<1>7. capture' = [pull |-> capture'.pull, number |-> capture'.number, pages |-> capture'.pages,
                  complete |-> capture'.complete]
  BY <1>2
<1> QED BY <1>1, <1>2, <1>4, <1>5, <1>6, <1>7 DEF CaptureInv

\* Whatever was captured once and is listed on the new page is there twice.
LEMMA PageRepeats ==
  ASSUME ReviewsInv, CaptureInv, CapturePage, NEW p, NEW last, PageFacts(p, last),
         Repeat \/ \E e \in Taken : e \in PageTo(last)
  PROVE  Repeat'
<1>1. /\ DOMAIN capture'.pages = DOMAIN capture.pages \cup {Len(capture.pages) + 1}
      /\ Len(capture.pages) \in Nat /\ DOMAIN capture.pages = 1..Len(capture.pages)
      /\ \A m \in DOMAIN capture.pages : capture'.pages[m] = capture.pages[m]
      /\ capture'.pages[Len(capture.pages) + 1] = p
  BY PageAppended DEF PageFacts
<1>2. CASE Repeat
  <2>1. PICK m \in DOMAIN capture.pages, n \in DOMAIN capture.pages :
          \E x \in DOMAIN capture.pages[m].items, y \in DOMAIN capture.pages[n].items :
             /\ m # n \/ x # y
             /\ capture.pages[m].items[x].id = capture.pages[n].items[y].id
    BY <1>2 DEF Repeat
  <2>2. capture'.pages[m] = capture.pages[m] /\ capture'.pages[n] = capture.pages[n]
        /\ m \in DOMAIN capture'.pages /\ n \in DOMAIN capture'.pages
    BY <1>1
  <2> QED BY <2>1, <2>2 DEF Repeat
<1>3. CASE \E e \in Taken : e \in PageTo(last)
  <2>1. PICK e \in Taken : e \in PageTo(last)
    BY <1>3
  <2>2. PICK m \in DOMAIN capture.pages : \E x \in DOMAIN capture.pages[m].items :
                                             capture.pages[m].items[x].id = e
    BY <2>1 DEF Taken, PageItems, Range
  <2>3. PICK x \in DOMAIN capture.pages[m].items : capture.pages[m].items[x].id = e
    BY <2>2
  <2>4. Raw(e) \in Range(p.items)
    BY <2>1 DEF PageFacts
  <2>5. PICK y \in DOMAIN p.items : p.items[y] = Raw(e)
    BY <2>4 DEF Range
  <2>6. p.items[y].id = e
    BY <2>5 DEF Raw
  <2>7. PICK n : n = Len(capture.pages) + 1
    OBVIOUS
  <2>8. /\ m \in DOMAIN capture'.pages /\ n \in DOMAIN capture'.pages /\ m # n
        /\ capture'.pages[m] = capture.pages[m] /\ capture'.pages[n] = p
    BY <1>1, <2>7
  <2> QED BY <2>3, <2>6, <2>8 DEF Repeat
<1> QED BY <1>2, <1>3

LEMMA PageTaken ==
  ASSUME ReviewsInv, CaptureInv, CapturePage, NEW p, NEW last, PageFacts(p, last)
  PROVE  Taken' = Taken \cup PageTo(last)
<1>1. PageItems' = PageItems \cup {Raw(i) : i \in PageTo(last)}
  BY PageAppended DEF PageFacts
<1>2. \A i : Raw(i).id = i
  BY DEF Raw
<1> QED BY <1>1, <1>2 DEF Taken

LEMMA SameListing ==
  ASSUME reviews' = reviews
  PROVE  /\ Listed' = Listed /\ Submitted' = Submitted
         /\ \A i : Position(i)' = Position(i)
         /\ \A i, s : Later(i, s)' = Later(i, s)
BY DEF Listed, Submitted, Position, Earlier, Stamp, Later

LEMMA PagePaging ==
  ASSUME ReviewsInv, CaptureInv, PagingInv, CapturePage, NEW p, NEW last, PageFacts(p, last)
  PROVE  /\ PagingInv'
         /\ Captured' => Repeat' \/ Taken' = Listed
<1>1. PICK N \in Nat : N = Cardinality(Listed)
  BY ListedIsFinite
<1>2. PICK R \in Nat, P \in Nat : R = Reach /\ P = PageSize
  BY ReachIsNumber
<1>3. Reach' = R + P
  <2>1. Len(capture'.pages) = Len(capture.pages) + 1
    BY PageAppended DEF PageFacts
  <2> QED BY <1>2, <2>1, ReachIsNumber DEF Reach
<1>4. /\ last = IF R + P < N THEN R + P ELSE N
      /\ Captured' <=> ~(last < N)
      /\ last \in Nat
  BY <1>1, <1>2, PageAppended DEF PageFacts
<1>5. reviews' = reviews /\ ~Captured
  BY DEF CapturePage
<1>6. Listed' = Listed /\ \A i : Position(i)' = Position(i)
  BY <1>5, SameListing
<1>7. \A i \in Listed : Position(i) \in 1..N
  BY <1>1, PositionRange
<1>8. Taken' = Taken \cup PageTo(last) /\ PageTo(last) = {i \in Listed : R < Position(i) /\ Position(i) <= last}
  BY <1>2, PageTaken DEF PageTo
<1>9. CASE Repeat
  BY <1>9, PageRepeats DEF PagingInv
<1>10. CASE Doomed
  <2>1. PICK e \in Taken : Position(e) > R
    BY <1>2, <1>10 DEF Doomed
  <2>2. e \in Listed
    <3>1. e \in Submitted
      BY <1>5, TakenIsSubmitted
    <3> QED BY <3>1 DEF Submitted, Listed
  <2>3. CASE Position(e) <= last
    <3>1. e \in PageTo(last)
      BY <1>7, <1>8, <2>1, <2>2, <2>3
    <3> QED BY <3>1, PageRepeats DEF PagingInv
  <2>4. CASE ~(Position(e) <= last)
    <3>1. last = R + P /\ last < N
      BY <1>4, <1>7, <2>2, <2>4
    <3>2. e \in Taken' /\ Position(e)' > Reach'
      BY <1>3, <1>4, <1>6, <1>7, <1>8, <2>2, <2>4, <3>1
    <3>3. Doomed'
      BY <3>2 DEF Doomed
    <3> QED BY <1>4, <3>1, <3>3 DEF PagingInv
  <2> QED BY <2>3, <2>4
<1>11. CASE Clean
  <2>1. R <= N /\ Taken = {i \in Listed : Position(i) <= R}
    BY <1>1, <1>2, <1>11 DEF Clean
  <2>2. R <= last /\ last <= N
    BY <1>4, <2>1
  <2>3. Taken' = {i \in Listed : Position(i) <= last}
    <3>1. \A i \in Listed : Position(i) <= last <=> (Position(i) <= R \/ (R < Position(i) /\ Position(i) <= last))
      BY <1>4, <1>7, <2>2
    <3> QED BY <1>8, <2>1, <3>1
  <2>4. CASE last < N
    <3>1. last = R + P
      BY <1>4, <2>4
    <3>2. Reach' <= Cardinality(Listed')
      BY <1>1, <1>3, <1>6, <2>2, <3>1
    <3>3. Taken' = {i \in Listed' : Position(i)' <= Reach'}
      BY <1>3, <1>6, <2>3, <3>1
    <3> QED BY <1>4, <2>4, <3>2, <3>3 DEF PagingInv, Clean
  <2>5. CASE ~(last < N)
    <3>1. last = N
      BY <1>4, <2>2, <2>5
    <3>2. Taken' = Listed
      BY <1>7, <2>3, <3>1
    <3> QED BY <1>4, <2>5, <3>2 DEF PagingInv
  <2> QED BY <2>4, <2>5
<1> QED BY <1>5, <1>9, <1>10, <1>11 DEF PagingInv

\* An approval that is captured, now or before, and is not in force, was overridden.
LEMMA PageApprovals ==
  ASSUME ReviewsInv, CaptureInv, ApprovalsInv, CapturePage, NEW p, NEW last, PageFacts(p, last),
         NEW a \in PageItems', a.state = "APPROVED", a.id \notin truth'.inForce
  PROVE  \E j \in DOMAIN reviews : Overrides(j, a.id)'
<1>1. reviews' = reviews /\ ~Captured
  BY DEF CapturePage
<1>2. ASSUME NEW j \in DOMAIN reviews, reviews[j].user = reviews[a.id].user,
             reviews[j].order > reviews[a.id].order,
             \/ reviews[j].state = "CHANGES_REQUESTED"
             \/ Overrides(j, a.id)
      PROVE  Overrides(j, a.id)'
  <2>1. PICK b : b = a.id
    OBVIOUS
  <2>2. reviews[j].state \in {"CHANGES_REQUESTED", "DISMISSED"}
    BY <1>2 DEF Overrides
  <2>3. ASSUME NEW x \in PageItems', x.id = j PROVE x.state # "APPROVED"
    <3> SUFFICES ASSUME x.state = "APPROVED" PROVE FALSE
      OBVIOUS
    <3>1. /\ \/ x \in PageItems
             \/ x.state = reviews[x.id].state
          /\ reviews[x.id].state = x.state \/ reviews[x.id].state = "DISMISSED"
      BY PageContents
    <3>2. reviews[j].state = "DISMISSED" /\ x \in PageItems
      BY <2>2, <2>3, <3>1
    <3> QED BY <1>2, <2>3, <3>2 DEF Overrides
  <2> QED BY <1>1, <1>2, <2>1, <2>2, <2>3 DEF Overrides
<1>3. CASE Overridden(a.id)
  BY <1>2, <1>3 DEF Overridden, Later
<1>4. CASE ~Overridden(a.id)
  <2>1. a.id \notin truth.inForce
    BY <1>4 DEF PageFacts
  <2>2. CASE a \in PageItems
    <3>1. PICK j \in DOMAIN reviews : Overrides(j, a.id)
      BY <1>1, <2>1, <2>2 DEF ApprovalsInv
    <3> QED BY <1>2, <3>1 DEF Overrides
  <2>3. CASE a \notin PageItems
    <3>1. a.id \in PageTo(last) /\ reviews[a.id].state = "APPROVED"
      BY <2>3, PageContents
    <3>2. InForce(a.id)
      BY <1>4, <3>1 DEF InForce
    <3> QED BY <3>1, <3>2 DEF PageFacts
  <2> QED BY <2>2, <2>3
<1> QED BY <1>3, <1>4

\* On the last page, every review that matters is captured.
LEMMA PageEnd ==
  ASSUME ReviewsInv, CaptureInv, ApprovalsInv, CapturePage, NEW p, NEW last, PageFacts(p, last),
         Taken' = Listed
  PROVE  ApprovalsShown' /\ ObjectionsShown'
<1>1. reviews' = reviews
  BY DEF CapturePage
<1>2. ASSUME NEW i \in Submitted
      PROVE  \E x \in PageItems' : x.id = i /\ x.state # "PENDING"
  <2>1. i \in Taken'
    BY DEF Submitted, Listed
  <2>2. PICK x \in PageItems' : x.id = i
    BY <2>1 DEF Taken
  <2> QED BY <2>2, PageContents
<1>3. \A i \in Submitted : i \in DOMAIN reviews /\ reviews[i].order \in Nat /\ reviews[i].at \in Nat
  <2>1. Submitted \subseteq DOMAIN reviews
    BY DEF Submitted
  <2>2. \A i \in DOMAIN reviews : reviews[i] \in ReviewRecords /\ reviews[i].at \in Nat
    BY StampNumbers
  <2> QED BY <2>1, <2>2 DEF ReviewRecords
<1>4. ASSUME NEW a \in PageItems', a.state = "APPROVED"
      PROVE  a.id \in Submitted /\ a.at = reviews[a.id].at /\ a.user = User(reviews[a.id].user)
             /\ reviews[a.id].state \in {"APPROVED", "DISMISSED"}
  <2>1. /\ a.at = reviews[a.id].at /\ a.id \in DOMAIN reviews
        /\ reviews[a.id].state \in {"APPROVED", "DISMISSED"}
        /\ Faithful(a)'
    BY <1>4, PageContents
  <2>2. a.user = User(reviews[a.id].user)
    BY <1>1, <2>1 DEF Faithful
  <2> QED BY <2>1, <2>2 DEF Submitted
<1>5. ASSUME NEW a \in PageItems', a.state = "APPROVED", a.id \notin truth'.inForce
      PROVE  \E b \in PageItems' : /\ b.user = a.user /\ b.at >= a.at
                                   /\ b.state \in {"CHANGES_REQUESTED", "DISMISSED"}
  <2>1. PICK j \in DOMAIN reviews : Overrides(j, a.id)'
    BY <1>5, PageApprovals
  <2>2. PICK c : c = a.id
    OBVIOUS
  <2>3. /\ reviews[j].user = reviews[c].user /\ reviews[j].order > reviews[c].order
        /\ reviews[j].state \in {"CHANGES_REQUESTED", "DISMISSED"}
        /\ \A x \in PageItems' : x.id = j => x.state # "APPROVED"
    BY <1>1, <2>1, <2>2 DEF Overrides
  <2>4. j \in Submitted
    BY <2>3 DEF Submitted
  <2>5. PICK b \in PageItems' : b.id = j /\ b.state # "PENDING"
    BY <1>2, <2>4
  <2>6. /\ b.at = reviews[j].at /\ Faithful(b)'
        /\ b.state = reviews[j].state \/ b.state \in DECIDING
    BY <2>5, PageContents
  <2>7. b.state \in {"CHANGES_REQUESTED", "DISMISSED"}
    BY <2>3, <2>5, <2>6 DEF DECIDING
  <2>8. b.user = User(reviews[j].user)
    BY <1>1, <2>5, <2>6 DEF Faithful
  <2>9. b.user = a.user
    BY <1>4, <1>5, <2>2, <2>3, <2>8
  <2>10. c \in Submitted /\ a.at = reviews[c].at
    BY <1>4, <1>5, <2>2
  <2>11. reviews[c].at <= reviews[j].at
    BY <1>3, <2>3, <2>4, <2>10 DEF ReviewsInv
  <2> QED BY <1>3, <2>4, <2>6, <2>7, <2>9, <2>10, <2>11
<1>6. ASSUME NEW o \in truth'.objections
      PROVE  \E c \in PageItems' :
               /\ c.id = o /\ c.state = "CHANGES_REQUESTED"
               /\ c.user # Nothing =>
                    \A a \in PageItems' : a.state = "APPROVED" /\ a.user = c.user => a.at <= c.at
  <2>1. o \in DOMAIN reviews /\ reviews[o].state = "CHANGES_REQUESTED"
        /\ ~Later(o, {"APPROVED", "DISMISSED"})
    BY DEF PageFacts, Objection
  <2>2. o \in Submitted
    BY <2>1 DEF Submitted
  <2>3. PICK c \in PageItems' : c.id = o /\ c.state # "PENDING"
    BY <1>2, <2>2
  <2>4. c.at = reviews[o].at /\ c.state = "CHANGES_REQUESTED" /\ Faithful(c)'
    BY <2>1, <2>3, PageContents
  <2>5. c.user = User(reviews[o].user)
    BY <1>1, <2>3, <2>4 DEF Faithful
  <2>6. ASSUME c.user # Nothing, NEW a \in PageItems', a.state = "APPROVED", a.user = c.user
        PROVE  a.at <= c.at
    <3>1. PICK b : b = a.id
      OBVIOUS
    <3>2. /\ b \in Submitted /\ a.at = reviews[b].at /\ a.user = User(reviews[b].user)
          /\ reviews[b].state \in {"APPROVED", "DISMISSED"}
      BY <1>4, <2>6, <3>1
    <3>3. reviews[b].user = reviews[o].user
      BY <2>5, <2>6, <3>2 DEF User
    <3>4. ~(reviews[b].order > reviews[o].order)
      BY <1>3, <2>1, <3>2, <3>3 DEF Later
    <3>5. reviews[b].at <= reviews[o].at
      BY <1>3, <2>2, <3>2, <3>4 DEF ReviewsInv
    <3> QED BY <2>4, <3>2, <3>5
  <2> QED BY <2>3, <2>4, <2>6
<1> QED BY <1>5, <1>6 DEF ApprovalsShown, ObjectionsShown

LEMMA PageKeeps ==
  ASSUME PRInv, CapturePage PROVE PRInv'
<1>1. PICK p, last : PageFacts(p, last)
  BY PageFactsHold DEF PRInv
<1>2. CaptureInv' /\ PagingInv'
  BY <1>1, PageCapture, PagePaging DEF PRInv
<1>3. reviews' = reviews /\ UNCHANGED <<head, clock, happened>>
  BY DEF CapturePage
<1>4. ReviewsInv'
  BY <1>3, SameListing DEF PRInv, ReviewsInv
<1>5. ApprovalsInv'
  BY <1>1, <1>3, PageApprovals DEF PRInv, ApprovalsInv
<1>6. EndInv'
  BY <1>1, PagePaging, PageEnd DEF PRInv, EndInv
<1> QED BY <1>2, <1>4, <1>5, <1>6 DEF PRInv

(* ------------------ every step of the pull request ----------------------- *)

LEMMA PRInitInv == PRInit => PRInv
<1> SUFFICES ASSUME PRInit PROVE PRInv
  OBVIOUS
<1>1. /\ reviews = <<>> /\ head = 1 /\ clock = 0 /\ happened = 0
      /\ truth = [inForce |-> {}, objections |-> {}]
      /\ capture = [pull |-> Nothing, number |-> 1, pages |-> <<>>, complete |-> TRUE]
  BY DEF PRInit
<1>2. /\ DOMAIN reviews = {} /\ reviews \in Seq(ReviewRecords)
      /\ DOMAIN capture.pages = {} /\ capture.pages \in Seq(PageRecords)
      /\ Len(capture.pages) = 0
  BY <1>1
<1>3. PageItems = {} /\ Taken = {} /\ Submitted = {} /\ Listed = {}
  BY <1>2 DEF PageItems, Taken, Submitted, Listed
<1>4. ReviewsInv
  <2>1. head \in DOMAIN Commits
    <3>1. Commits \in Seq(Range(Commits)) /\ Commits # <<>>
      BY PullRequestAssumption
    <3>2. Len(Commits) \in Nat /\ Len(Commits) # 0 /\ DOMAIN Commits = 1..Len(Commits)
      BY <3>1
    <3> QED BY <1>1, <3>2
  <2>2. clock \in 0..MaxTime
    BY <1>1, PullRequestAssumption
  <2>3. happened = Cardinality(Submitted)
    BY <1>1, <1>3, FS_EmptySet
  <2> QED BY <1>2, <1>3, <2>1, <2>2, <2>3 DEF ReviewsInv
<1>5. CaptureInv
  BY <1>1, <1>2, <1>3 DEF CaptureInv, Pulls
<1>6. ~Captured
  BY <1>1 DEF Captured
<1>7. Clean
  <2>1. Reach = 0
    BY <1>2, PullRequestAssumption DEF Reach
  <2>2. Cardinality(Listed) = 0
    BY <1>3, FS_EmptySet
  <2> QED BY <1>3, <2>1, <2>2 DEF Clean
<1> QED BY <1>3, <1>4, <1>5, <1>6, <1>7 DEF PRInv, PagingInv, ApprovalsInv, EndInv

\* A step that neither changes the reviews nor captures any.
LEMMA QuietKeeps ==
  ASSUME PRInv, UNCHANGED <<reviews, clock, happened, truth>>, head' \in DOMAIN Commits,
         capture' = [pull |-> capture'.pull, number |-> capture'.number,
                     pages |-> capture.pages, complete |-> capture'.complete],
         capture'.pull \in Pulls, capture'.complete \in BOOLEAN
  PROVE  PRInv'
<1>1. capture'.pages = capture.pages
  OBVIOUS
<1>2. /\ PageItems' = PageItems /\ Captured' = Captured /\ Repeat' = Repeat
      /\ Taken' = Taken /\ Reach' = Reach
  BY <1>1 DEF PageItems, Captured, Repeat, Taken, Reach
<1>3. Listed' = Listed /\ Submitted' = Submitted /\ \A i : Position(i)' = Position(i)
  BY SameListing
<1>4. ReviewsInv'
  BY <1>3 DEF PRInv, ReviewsInv
<1>5. CaptureInv'
  BY <1>1, <1>2 DEF PRInv, CaptureInv, Faithful
<1>6. PagingInv'
  BY <1>2, <1>3 DEF PRInv, PagingInv, Clean, Doomed
<1>7. ApprovalsInv'
  BY <1>2 DEF PRInv, ApprovalsInv, Overrides
<1>8. EndInv'
  BY <1>1, EndStays DEF PRInv
<1> QED BY <1>4, <1>5, <1>6, <1>7, <1>8 DEF PRInv

LEMMA AnswersArePulls ==
  ASSUME ReviewsInv, NEW answer \in PullAnswers PROVE answer \in Pulls
<1>1. /\ UsualPull = [number |-> 1, author |-> User(Author), head |-> Commits[head],
                      state |-> "open"]
      /\ Commits[head] \in Range(Commits)
  BY HeadIsCommit DEF UsualPull
<1> QED BY <1>1 DEF PullAnswers, Pulls

LEMMA PRStep == PRInv /\ PRNext => PRInv'
<1> SUFFICES ASSUME PRInv, PRNext PROVE PRInv'
  OBVIOUS
<1>1. ReviewsInv /\ CaptureInv
  BY DEF PRInv
<1>2. 0 \notin Submitted
  BY <1>1, StampNumbers DEF Submitted
<1>3. CASE Push
  <2>1. Commits \in Seq(Range(Commits)) /\ head \in DOMAIN Commits
    BY <1>1, PullRequestAssumption DEF ReviewsInv
  <2>2. head + 1 \in DOMAIN Commits
    <3>1. Len(Commits) \in Nat /\ DOMAIN Commits = 1..Len(Commits) /\ head < Len(Commits)
      BY <1>3, <2>1 DEF Push
    <3> QED BY <2>1, <3>1
  <2> QED BY <1>1, <1>3, <2>2, QuietKeeps DEF Push, CaptureInv
<1>4. ASSUME NEW u \in Accounts, Open(u) PROVE PRInv'
  <2>1. ReviewsInv' /\ Moves(0)
    BY <1>1, <1>4, OpenKeeps
  <2> QED BY <1>2, <1>4, <2>1, MovesKeep DEF Open
<1>5. ASSUME NEW u \in Accounts, NEW s \in {"APPROVED", "CHANGES_REQUESTED", "COMMENTED", "UNKNOWN"},
             NEW t \in 0..MaxTime, Review(u, s, t)
      PROVE  PRInv'
  <2>1. ReviewsInv' /\ \E j : j \notin Submitted /\ Moves(j)
    BY <1>1, <1>5, ReviewKeeps
  <2> QED BY <1>5, <2>1, MovesKeep DEF Review
<1>6. ASSUME NEW i \in DOMAIN reviews, NEW s \in {"APPROVED", "CHANGES_REQUESTED"},
             NEW t \in 0..MaxTime, Submit(i, s, t)
      PROVE  PRInv'
  <2>1. ReviewsInv' /\ \E j : j \notin Submitted /\ Moves(j)
    BY <1>1, <1>6, SubmitKeeps
  <2> QED BY <1>6, <2>1, MovesKeep DEF Submit
<1>7. ASSUME NEW i \in DOMAIN reviews, Dismiss(i) PROVE PRInv'
  <2>1. ReviewsInv' /\ Moves(0)
    BY <1>1, <1>7, DismissKeeps
  <2> QED BY <1>2, <1>7, <2>1, MovesKeep DEF Dismiss
<1>8. ASSUME NEW answer \in PullAnswers, CapturePull(answer) PROVE PRInv'
  <2>1. capture' = [capture EXCEPT !.pull = answer]
        /\ UNCHANGED <<reviews, head, clock, happened, truth>>
    BY <1>8 DEF CapturePull
  <2>2. capture' = [pull |-> answer, number |-> capture.number, pages |-> capture.pages,
                    complete |-> capture.complete]
    BY <1>1, <2>1 DEF CaptureInv
  <2>3. answer \in Pulls /\ capture.complete \in BOOLEAN /\ head' \in DOMAIN Commits
    BY <1>1, <2>1, AnswersArePulls DEF CaptureInv, ReviewsInv
  <2> QED BY <2>1, <2>2, <2>3, QuietKeeps
<1>9. CASE CapturePage
  BY <1>9, PageKeeps
<1>10. CASE CaptureFails
  <2>1. capture' = [capture EXCEPT !.complete = FALSE]
        /\ UNCHANGED <<reviews, head, clock, happened, truth>>
    BY <1>10 DEF CaptureFails
  <2>2. capture' = [pull |-> capture.pull, number |-> capture.number, pages |-> capture.pages,
                    complete |-> FALSE]
    BY <1>1, <2>1 DEF CaptureInv
  <2>3. capture.pull \in Pulls /\ head' \in DOMAIN Commits
    BY <1>1, <2>1 DEF CaptureInv, ReviewsInv
  <2> QED BY <2>1, <2>2, <2>3, QuietKeeps
<1> QED BY <1>3, <1>4, <1>5, <1>6, <1>7, <1>8, <1>9, <1>10 DEF PRNext

\* What happened on the pull request stays as it is while a manifest is written
\* and checked.
LEMMA PRStays ==
  ASSUME PRInv, UNCHANGED prVars PROVE PRInv'
<1>1. UNCHANGED <<reviews, head, clock, happened, truth, capture>>
  BY DEF prVars
<1>2. CaptureInv /\ head' \in DOMAIN Commits
  BY <1>1 DEF PRInv, ReviewsInv
<1>3. capture' = [pull |-> capture'.pull, number |-> capture'.number,
                  pages |-> capture.pages, complete |-> capture'.complete]
      /\ capture'.pull \in Pulls /\ capture'.complete \in BOOLEAN
  BY <1>1, <1>2 DEF CaptureInv
<1> QED BY <1>1, <1>2, <1>3, QuietKeeps

(* ---------------------- the reviews of all the pages --------------------- *)

LEMMA LeastNumber ==
  ASSUME NEW T \in SUBSET Nat, T # {}
  PROVE  \E n \in T : \A m \in T : n <= m
<1>1. PICK n \in T : \A m \in T : ~(<<m, n>> \in OpToRel(<, Nat))
  BY NatLessThanWellFounded, WFMin
<1>2. \A m \in T : ~(m < n)
  BY <1>1 DEF OpToRel
<1> QED BY <1>2

\* f joins the reviews of the pages up to n, for every n up to k.
Joins(f, pages, k) ==
  f = [n \in 0..k |-> IF n = 0 THEN <<>> ELSE f[n - 1] \o pages[n].items]

LEMMA JoinExists ==
  ASSUME NEW pages, NEW k \in Nat PROVE \E f : Joins(f, pages, k)
<1> DEFINE T == {n \in Nat : ~\E f : Joins(f, pages, n)}
<1>1. T \in SUBSET Nat
  OBVIOUS
<1> SUFFICES ASSUME T # {} PROVE FALSE
  OBVIOUS
<1>2. PICK n \in T : \A m \in T : n <= m
  <2> HIDE DEF T
  <2> QED BY <1>1, LeastNumber
<1>3. n \in Nat /\ ~\E f : Joins(f, pages, n)
  OBVIOUS
<1>4. CASE n = 0
  <2>1. Joins([m \in 0..0 |-> <<>>], pages, 0)
    <3> DEFINE g == [m \in 0..0 |-> <<>>]
    <3>1. \A m \in 0..0 : m = 0
      OBVIOUS
    <3>2. [m \in 0..0 |-> IF m = 0 THEN <<>> ELSE g[m - 1] \o pages[m].items] = g
      BY <3>1
    <3> QED BY <3>2 DEF Joins
  <2> QED BY <1>3, <1>4, <2>1
<1>5. CASE n # 0
  <2>1. n - 1 \in Nat /\ ~(n <= n - 1)
    BY <1>3, <1>5
  <2>2. n - 1 \notin T
    <3> HIDE DEF T
    <3> QED BY <1>2, <2>1
  <2>3. PICK f : Joins(f, pages, n - 1)
    BY <2>1, <2>2
  <2> DEFINE g == [m \in 0..n |-> IF m = n THEN f[n - 1] \o pages[n].items ELSE f[m]]
  <2>4. ASSUME NEW m \in 0..n
        PROVE  g[m] = IF m = 0 THEN <<>> ELSE g[m - 1] \o pages[m].items
    <3>1. CASE m = n
      <4>1. n - 1 \in 0..n /\ n - 1 # n /\ m # 0
        BY <1>3, <1>5, <3>1
      <4>2. g[n - 1] = f[n - 1]
        BY <4>1
      <4> QED BY <3>1, <4>1, <4>2
    <3>2. CASE m # n
      <4>1. m \in 0..(n - 1) /\ (m # 0 => m - 1 \in 0..n /\ m - 1 # n)
        BY <1>3, <3>2
      <4>2. f[m] = IF m = 0 THEN <<>> ELSE f[m - 1] \o pages[m].items
        BY <2>3, <4>1 DEF Joins
      <4>3. g[m] = f[m] /\ (m # 0 => g[m - 1] = f[m - 1])
        BY <3>2, <4>1
      <4> QED BY <4>2, <4>3
    <3> QED BY <3>1, <3>2
  <2>5. g = [m \in 0..n |-> g[m]]
    OBVIOUS
  <2> HIDE DEF g
  <2>6. Joins(g, pages, n)
    BY <2>4, <2>5 DEF Joins
  <2> QED BY <1>3, <2>6
<1> QED BY <1>4, <1>5

LEMMA ItemsAreJoined ==
  ASSUME NEW pages, Len(pages) \in Nat
  PROVE  \E f : Joins(f, pages, Len(pages)) /\ Items(pages) = f[Len(pages)]
<1>1. PICK k \in Nat : k = Len(pages)
  OBVIOUS
<1> DEFINE f == CHOOSE g : g = [n \in 0..Len(pages) |->
                                 IF n = 0 THEN <<>> ELSE g[n - 1] \o pages[n].items]
<1>2. \E g : g = [n \in 0..Len(pages) |-> IF n = 0 THEN <<>> ELSE g[n - 1] \o pages[n].items]
  BY <1>1, JoinExists DEF Joins
<1>3. f = [n \in 0..Len(pages) |-> IF n = 0 THEN <<>> ELSE f[n - 1] \o pages[n].items]
  BY <1>2
<1>4. Items(pages) = f[Len(pages)]
  BY DEF Items
<1> HIDE DEF f
<1> QED BY <1>3, <1>4 DEF Joins

\* The reviews of the first n pages, and a review that is among them twice.
FirstItems(pages, n) == UNION {Range(pages[m].items) : m \in 1..n}

RepeatIn(pages, n) ==
  \E m, k \in 1..n : \E x \in DOMAIN pages[m].items, y \in DOMAIN pages[k].items :
    (m # k \/ x # y) /\ pages[m].items[x].id = pages[k].items[y].id

TwiceIn(items) == \E i, j \in DOMAIN items : i # j /\ items[i].id = items[j].id

LEMMA JoinedOne ==
  ASSUME NEW s \in Seq(RawRecords), NEW t \in Seq(RawRecords)
  PROVE  /\ s \o t \in Seq(RawRecords)
         /\ \A i \in DOMAIN s : i \in DOMAIN (s \o t) /\ (s \o t)[i] = s[i]
         /\ \A i \in DOMAIN t : /\ Len(s) + i \in DOMAIN (s \o t)
                                /\ (s \o t)[Len(s) + i] = t[i]
                                /\ Len(s) + i \notin DOMAIN s
         /\ Range(s \o t) = Range(s) \cup Range(t)
<1>1. /\ s \o t \in Seq(RawRecords) /\ Len(s \o t) = Len(s) + Len(t)
      /\ Len(s) \in Nat /\ Len(t) \in Nat /\ Len(s \o t) \in Nat
      /\ DOMAIN s = 1..Len(s) /\ DOMAIN t = 1..Len(t) /\ DOMAIN (s \o t) = 1..Len(s \o t)
  OBVIOUS
<1>2. ASSUME NEW i \in DOMAIN s PROVE i \in DOMAIN (s \o t) /\ (s \o t)[i] = s[i]
  BY <1>1
<1>3. ASSUME NEW i \in DOMAIN t
      PROVE  /\ Len(s) + i \in DOMAIN (s \o t)
             /\ (s \o t)[Len(s) + i] = t[i]
             /\ Len(s) + i \notin DOMAIN s
  BY <1>1
<1>4. ASSUME NEW i \in DOMAIN (s \o t)
      PROVE  (s \o t)[i] \in Range(s) \cup Range(t)
  <2>1. CASE i \in DOMAIN s
    BY <1>2, <2>1 DEF Range
  <2>2. CASE i \notin DOMAIN s
    <3>1. i - Len(s) \in DOMAIN t /\ Len(s) + (i - Len(s)) = i
      BY <1>1, <2>2
    <3>2. (s \o t)[Len(s) + (i - Len(s))] = t[i - Len(s)]
      BY <1>3, <3>1
    <3> QED BY <3>1, <3>2 DEF Range
  <2> QED BY <2>1, <2>2
<1>5. Range(s) \cup Range(t) \subseteq Range(s \o t)
  <2>1. ASSUME NEW x \in Range(s) PROVE x \in Range(s \o t)
    BY <1>2 DEF Range
  <2>2. ASSUME NEW x \in Range(t) PROVE x \in Range(s \o t)
    BY <1>3 DEF Range
  <2> QED BY <2>1, <2>2
<1>6. Range(s \o t) \subseteq Range(s) \cup Range(t)
  BY <1>4 DEF Range
<1> QED BY <1>1, <1>2, <1>3, <1>5, <1>6

\* Joining loses no review and keeps a repeated one repeated.
JoinedTo(f, pages, n) ==
  /\ f[n] \in Seq(RawRecords)
  /\ Range(f[n]) = FirstItems(pages, n)
  /\ RepeatIn(pages, n) => TwiceIn(f[n])

LEMMA JoinedNext ==
  ASSUME NEW pages, NEW f, NEW n \in Nat, n # 0, JoinedTo(f, pages, n - 1),
         pages[n].items \in Seq(RawRecords), f[n] = f[n - 1] \o pages[n].items
  PROVE  JoinedTo(f, pages, n)
<1>0. PICK s, t : s = f[n - 1] /\ t = pages[n].items
  OBVIOUS
<1>1. /\ s \in Seq(RawRecords) /\ t \in Seq(RawRecords)
      /\ Range(s) = FirstItems(pages, n - 1)
      /\ RepeatIn(pages, n - 1) => TwiceIn(s)
      /\ f[n] = s \o t
  BY <1>0 DEF JoinedTo
<1>2. /\ f[n] \in Seq(RawRecords)
      /\ \A i \in DOMAIN s : i \in DOMAIN f[n] /\ f[n][i] = s[i]
      /\ \A i \in DOMAIN t : /\ Len(s) + i \in DOMAIN f[n]
                             /\ f[n][Len(s) + i] = t[i]
                             /\ Len(s) + i \notin DOMAIN s
      /\ Range(f[n]) = Range(s) \cup Range(t)
  BY <1>1, JoinedOne
<1>3. 1..n = 1..(n - 1) \cup {n}
  OBVIOUS
<1>4. Range(f[n]) = FirstItems(pages, n)
  <2>1. FirstItems(pages, n) = FirstItems(pages, n - 1) \cup Range(pages[n].items)
    BY <1>3 DEF FirstItems
  <2> QED BY <1>0, <1>1, <1>2, <2>1
<1>5. ASSUME RepeatIn(pages, n) PROVE TwiceIn(f[n])
  <2>1. PICK m \in 1..n, k \in 1..n :
          \E x \in DOMAIN pages[m].items, y \in DOMAIN pages[k].items :
             (m # k \/ x # y) /\ pages[m].items[x].id = pages[k].items[y].id
    BY <1>5 DEF RepeatIn
  <2>2. PICK x \in DOMAIN pages[m].items, y \in DOMAIN pages[k].items :
             (m # k \/ x # y) /\ pages[m].items[x].id = pages[k].items[y].id
    BY <2>1
  <2>3. ASSUME NEW z \in 1..(n - 1), NEW w \in DOMAIN pages[z].items
        PROVE  \E i \in DOMAIN s : s[i] = pages[z].items[w]
    <3>1. pages[z].items[w] \in FirstItems(pages, n - 1)
      BY DEF FirstItems, Range
    <3> QED BY <1>1, <3>1 DEF Range
  <2>4. CASE m \in 1..(n - 1) /\ k \in 1..(n - 1)
    <3>1. TwiceIn(s)
      BY <1>1, <2>2, <2>4 DEF RepeatIn
    <3>2. PICK i \in DOMAIN s, j \in DOMAIN s : i # j /\ s[i].id = s[j].id
      BY <3>1 DEF TwiceIn
    <3>3. f[n][i] = s[i] /\ f[n][j] = s[j] /\ i \in DOMAIN f[n] /\ j \in DOMAIN f[n]
      BY <1>2
    <3> QED BY <3>2, <3>3 DEF TwiceIn
  <2>5. CASE m \in 1..(n - 1) /\ k = n
    <3>1. PICK i \in DOMAIN s : s[i] = pages[m].items[x]
      BY <2>2, <2>3, <2>5
    <3>2. f[n][i] = s[i] /\ f[n][Len(s) + y] = t[y] /\ i # Len(s) + y
          /\ i \in DOMAIN f[n] /\ Len(s) + y \in DOMAIN f[n]
      BY <1>0, <1>2, <2>2, <2>5, <3>1
    <3> QED BY <1>0, <2>2, <2>5, <3>1, <3>2 DEF TwiceIn
  <2>6. CASE k \in 1..(n - 1) /\ m = n
    <3>1. PICK i \in DOMAIN s : s[i] = pages[k].items[y]
      BY <2>2, <2>3, <2>6
    <3>2. f[n][i] = s[i] /\ f[n][Len(s) + x] = t[x] /\ i # Len(s) + x
          /\ i \in DOMAIN f[n] /\ Len(s) + x \in DOMAIN f[n]
      BY <1>0, <1>2, <2>2, <2>6, <3>1
    <3> QED BY <1>0, <2>2, <2>6, <3>1, <3>2 DEF TwiceIn
  <2>7. CASE m = n /\ k = n
    <3>1. f[n][Len(s) + x] = t[x] /\ f[n][Len(s) + y] = t[y]
          /\ Len(s) + x \in DOMAIN f[n] /\ Len(s) + y \in DOMAIN f[n]
      BY <1>0, <1>2, <2>2, <2>7
    <3>2. Len(s) + x # Len(s) + y
      <4>1. Len(s) \in Nat /\ x \in Nat /\ y \in Nat
        BY <1>0, <1>1, <2>2, <2>7
      <4> QED BY <2>2, <2>7, <4>1
    <3> QED BY <1>0, <2>2, <2>7, <3>1, <3>2 DEF TwiceIn
  <2> QED BY <1>3, <2>4, <2>5, <2>6, <2>7
<1> QED BY <1>2, <1>4, <1>5 DEF JoinedTo

LEMMA ItemsAreThePages ==
  ASSUME CaptureInv
  PROVE  /\ Items(capture.pages) \in Seq(RawRecords)
         /\ Range(Items(capture.pages)) = PageItems
         /\ Repeat => TwiceIn(Items(capture.pages))
<1>0. PICK pages : pages = capture.pages
  OBVIOUS
<1>0a. pages \in Seq(PageRecords)
  BY <1>0 DEF CaptureInv
<1>1. PICK L \in Nat : /\ pages = capture.pages /\ L = Len(pages) /\ DOMAIN pages = 1..L
                       /\ pages \in Seq(PageRecords)
  BY <1>0, <1>0a
<1>2. PICK f : Joins(f, pages, L) /\ Items(pages) = f[L]
  BY <1>1, ItemsAreJoined
<1>3. ASSUME NEW m \in 1..L PROVE pages[m].items \in Seq(RawRecords)
  <2>1. pages[m] \in PageRecords
    BY <1>1
  <2> QED BY <2>1 DEF PageRecords
<1> DEFINE T == {n \in Nat : n <= L /\ ~JoinedTo(f, pages, n)}
<1>4. T = {}
  <2> SUFFICES ASSUME T # {} PROVE FALSE
    OBVIOUS
  <2>1. T \in SUBSET Nat
    OBVIOUS
  <2>2. PICK n \in T : \A m \in T : n <= m
    <3> HIDE DEF T
    <3> QED BY <2>1, LeastNumber
  <2>3. n \in Nat /\ n <= L /\ ~JoinedTo(f, pages, n) /\ n \in 0..L
    BY <1>1
  <2>4. f[n] = IF n = 0 THEN <<>> ELSE f[n - 1] \o pages[n].items
    BY <1>2, <2>3 DEF Joins
  <2>5. CASE n = 0
    <3>1. f[n] = <<>> /\ 1..n = {}
      BY <2>4, <2>5
    <3>2. f[n] \in Seq(RawRecords) /\ DOMAIN f[n] = {}
      BY <3>1
    <3> QED BY <2>3, <3>1, <3>2 DEF JoinedTo, FirstItems, RepeatIn, Range
  <2>6. CASE n # 0
    <3>1. n - 1 \in Nat /\ ~(n <= n - 1) /\ n - 1 <= L /\ n \in 1..L
      BY <1>1, <2>3, <2>6
    <3>2. n - 1 \notin T
      <4> HIDE DEF T
      <4> QED BY <2>2, <3>1
    <3>3. JoinedTo(f, pages, n - 1)
      BY <3>1, <3>2
    <3> QED BY <1>3, <2>3, <2>4, <2>6, <3>1, <3>3, JoinedNext
  <2> QED BY <2>5, <2>6
<1>5. JoinedTo(f, pages, L)
  BY <1>1, <1>4
<1>6. FirstItems(pages, L) = PageItems
  BY <1>1 DEF FirstItems, PageItems
<1>7. Repeat => RepeatIn(pages, L)
  BY <1>1 DEF Repeat, RepeatIn
<1> QED BY <1>1, <1>2, <1>5, <1>6, <1>7 DEF JoinedTo

\* Reviews without a code are recognised and listed once each.
LEMMA UsableItems ==
  ASSUME NEW items, UnusableCodes(items) = {}
  PROVE  ~TwiceIn(items) /\ \A i \in DOMAIN items : items[i].state \in STATES
<1> DEFINE recognised == {i \in DOMAIN items : items[i].state \in STATES}
           first(i)   == CHOOSE j \in recognised :
                           /\ items[j].id = items[i].id
                           /\ \A k \in recognised : items[k].id = items[i].id => j <= k
           repeats    == {i \in recognised : first(i) # i}
<1>1. UnusableCodes(items) =
        {"gate_source_unrecognized" : i \in DOMAIN items \ recognised}
        \cup {IF items[first(i)] = items[i] THEN "review_capture_duplicate"
              ELSE "review_conflict" : i \in repeats}
  BY DEF UnusableCodes
<1>2. DOMAIN items \ recognised = {} /\ repeats = {}
  <2> HIDE DEF recognised, repeats, first
  <2> QED BY <1>1
<1>3. ASSUME NEW i \in DOMAIN items, NEW j \in DOMAIN items, items[i].id = items[j].id
      PROVE  i = j
  <2>1. first(i) = first(j)
    BY <1>3
  <2>2. first(i) = i /\ first(j) = j
    <3>1. i \in recognised /\ j \in recognised
      BY <1>2
    <3> HIDE DEF recognised, first
    <3> QED BY <1>2, <3>1
  <2> HIDE DEF first
  <2> QED BY <2>1, <2>2
<1> QED BY <1>2, <1>3 DEF TwiceIn

(* ------------------------- what a reviewer decided ----------------------- *)

\* Among finitely many reviews, each with its own id, one is the latest.
LEMMA LatestExists ==
  ASSUME NEW set \in SUBSET RawRecords, set # {}, NEW top \in Nat,
         \A r \in set : r.id <= top /\ r.at <= MaxTime,
         \A r, q \in set : r.id = q.id => r = q
  PROVE  /\ Latest(set) \in set
         /\ \A q \in set : q = Latest(set) \/ Before(q, Latest(set))
<1>1. \A r \in set : r.id \in Nat /\ r.at \in Nat
  BY PullRequestAssumption DEF RawRecords
<1>2. MaxTime \in Nat
  BY PullRequestAssumption
<1> DEFINE T == {MaxTime - r.at : r \in set}
<1>3. T \in SUBSET Nat /\ T # {}
  BY <1>1, <1>2
<1>4. PICK n \in T : \A m \in T : n <= m
  <2> HIDE DEF T
  <2> QED BY <1>3, LeastNumber
<1>5. PICK t \in set : \A r \in set : MaxTime - t.at <= MaxTime - r.at
  BY <1>4
<1>6. \A r \in set : r.at <= t.at
  BY <1>1, <1>2, <1>5
<1> DEFINE last == {r \in set : r.at = t.at}
           U    == {top - r.id : r \in last}
<1>7. U \in SUBSET Nat /\ U # {}
  BY <1>1
<1>8. PICK n2 \in U : \A m \in U : n2 <= m
  <2> HIDE DEF U
  <2> QED BY <1>7, LeastNumber
<1>9. PICK d \in last : \A r \in last : top - d.id <= top - r.id
  BY <1>8
<1>10. \A r \in last : r.id <= d.id
  BY <1>1, <1>9
<1>11. d \in set /\ \A q \in set : q = d \/ Before(q, d)
  <2>1. d \in set /\ d.at = t.at
    OBVIOUS
  <2>2. ASSUME NEW q \in set, q # d PROVE Before(q, d)
    <3>1. q.at < d.at \/ q.at = t.at
      BY <1>1, <1>6, <2>1
    <3>2. CASE q.at = t.at
      <4>1. q.id <= d.id /\ q.id # d.id
        BY <1>10, <2>1, <2>2, <3>2
      <4> QED BY <1>1, <2>1, <3>2, <4>1 DEF Before
    <3> QED BY <3>1, <3>2 DEF Before
  <2> QED BY <2>1, <2>2
<1> QED BY <1>11 DEF Latest

\* The submitted reviews of an account.
Own(u) == {r \in PageItems : r.state # "PENDING" /\ r.user = u}

LEMMA PageItemsTyped ==
  ASSUME PRInv
  PROVE  /\ PageItems \subseteq RawRecords
         /\ \A x \in PageItems : /\ Faithful(x) /\ x.id \in Nat /\ x.id <= Len(reviews)
                                 /\ x.at \in Nat /\ x.at <= MaxTime
<1>1. CaptureInv /\ ReviewsInv
  BY DEF PRInv
<1>2. PageItems \subseteq RawRecords
  <2>1. \A m \in DOMAIN capture.pages : capture.pages[m] \in PageRecords
    BY <1>1 DEF CaptureInv
  <2>2. \A m \in DOMAIN capture.pages : capture.pages[m].items \in Seq(RawRecords)
    BY <2>1 DEF PageRecords
  <2>3. \A m \in DOMAIN capture.pages : Range(capture.pages[m].items) \subseteq RawRecords
    BY <2>2 DEF Range
  <2> QED BY <2>3 DEF PageItems
<1>3. ASSUME NEW x \in PageItems
      PROVE  /\ Faithful(x) /\ x.id \in Nat /\ x.id <= Len(reviews)
             /\ x.at \in Nat /\ x.at <= MaxTime
  <2>1. Faithful(x) /\ x.id \in DOMAIN reviews
    BY <1>1 DEF CaptureInv, Faithful
  <2>2. x.id \in Nat /\ x.id <= Len(reviews)
    BY <1>1, <2>1, StampNumbers
  <2>3. x.at \in 0..MaxTime
    BY <1>2 DEF RawRecords
  <2> QED BY <2>1, <2>2, <2>3, PullRequestAssumption
<1> QED BY <1>2, <1>3

\* An account that decided and does not ask for changes approved, strictly later
\* than each of its other decisions and dismissals.
LEMMA ReviewerApproves ==
  ASSUME PRInv, \A x, y \in PageItems : x.id = y.id => x = y,
         NEW u, \E r \in Own(u) : r.state \in DECIDING,
         reviewer_state(Own(u)).codes = {},
         reviewer_state(Own(u)).state # "changes_requested"
  PROVE  \E d \in Own(u) :
           /\ d.state = "APPROVED" /\ reviewer_state(Own(u)).deciding = d
           /\ \A c \in Own(u) : c.state \in {"CHANGES_REQUESTED", "DISMISSED"} => c.at < d.at
<1> DEFINE own      == Own(u)
           ordering == {r \in own : r.state \in DECIDING \cup {"DISMISSED"}}
           deciding == {r \in own : r.state \in DECIDING}
           d        == Latest(deciding)
<1>1. /\ own \subseteq PageItems /\ PageItems \subseteq RawRecords
      /\ \A r \in own : r.id \in Nat /\ r.id <= Len(reviews) /\ r.at \in Nat /\ r.at <= MaxTime
      /\ Len(reviews) \in Nat
  BY PageItemsTyped, StampNumbers DEF Own, PRInv
<1>2. d \in deciding /\ \A q \in deciding : q = d \/ Before(q, d)
  <2>1. deciding \in SUBSET RawRecords /\ deciding # {}
    BY <1>1
  <2>2. \A r \in deciding : r.id <= Len(reviews) /\ r.at <= MaxTime
    BY <1>1
  <2>3. \A r, q \in deciding : r.id = q.id => r = q
    BY <1>1
  <2> HIDE DEF deciding
  <2> QED BY <1>1, <2>1, <2>2, <2>3, LatestExists
<1>3. ~\E a, b \in ordering : a.at = b.at /\ a.state # b.state
  BY DEF reviewer_state
<1>4. ~\E a, b \in ordering : a.at < b.at /\ a.id > b.id
  BY <1>3 DEF reviewer_state
<1>5. deciding # {}
  OBVIOUS
<1>6. ~\E r \in ordering : r.state = "DISMISSED" /\ Before(d, r)
  BY <1>3, <1>4, <1>5 DEF reviewer_state
<1>7. reviewer_state(own).deciding = d
      /\ reviewer_state(own).state = IF d.state = "APPROVED" THEN "approved" ELSE "changes_requested"
  BY <1>3, <1>4, <1>5, <1>6 DEF reviewer_state
<1>8. d.state = "APPROVED"
  BY <1>7
<1>9. ASSUME NEW c \in own, c.state \in {"CHANGES_REQUESTED", "DISMISSED"}
      PROVE  c.at < d.at
  <2> HIDE DEF d
  <2>1. c \in ordering /\ d \in ordering
    BY <1>2, <1>9 DEF DECIDING
  <2>2. c.at # d.at
    BY <1>3, <1>8, <1>9, <2>1
  <2>3. ~(d.at < c.at)
    <3>1. CASE c.state = "DISMISSED"
      BY <1>6, <2>1, <3>1 DEF Before
    <3>2. CASE c.state = "CHANGES_REQUESTED"
      <4>1. c = d \/ Before(c, d)
        BY <1>2, <1>9, <3>2 DEF DECIDING
      <4> QED BY <1>1, <1>2, <1>9, <4>1 DEF Before
    <3> QED BY <1>9, <3>1, <3>2
  <2>4. c.at \in Nat /\ d.at \in Nat
    BY <1>1, <1>2, <1>9
  <2> QED BY <2>2, <2>3, <2>4
<1> QED BY <1>2, <1>7, <1>8, <1>9

(* ------------------- what a gate without a code has read ------------------ *)

\* The listings a manifest may have: only the page numbers may be wrong.
KnownIndexes(listing) ==
  listing.indexes \in {[i \in DOMAIN capture.pages |-> i], <<1, 1>>}

\* The page numbers and the announcements show that the last page was captured.
LEMMA SequenceShows ==
  ASSUME CaptureInv, NEW listing, KnownIndexes(listing), NamesReviews(capture, listing),
         ReviewsCodes(capture, listing) = {}
  PROVE  Captured
<1>0. PICK q : q = capture.pages
  OBVIOUS
<1>0a. q \in Seq(PageRecords) /\ q # <<>>
  BY <1>0 DEF CaptureInv, NamesReviews
<1>1. PICK L \in Nat : q = capture.pages /\ L = Len(q) /\ DOMAIN q = 1..L
                       /\ q \in Seq(PageRecords) /\ q # <<>>
  BY <1>0, <1>0a
<1>2. L # 0
  BY <1>1
<1> DEFINE hasNext == [i \in DOMAIN capture.pages |-> capture.pages[i].next]
<1>3. page_sequence_problem(listing.indexes, hasNext) = {}
  BY DEF ReviewsCodes
<1>4. PICK ix : ix = listing.indexes
  OBVIOUS
<1>5. ~(Cardinality({ix[i] : i \in 1..Len(ix)}) # Len(ix))
  BY <1>3, <1>4 DEF page_sequence_problem
<1>6. ~\E i \in 1..Len(ix) : ix[i] # i
  BY <1>3, <1>4, <1>5 DEF page_sequence_problem
<1>7. ~(Len(ix) = 0 \/ \E i \in 1..Len(ix) : hasNext[i] # (i < Len(ix)))
  BY <1>3, <1>4, <1>5, <1>6 DEF page_sequence_problem
<1>8. ix # <<1, 1>>
  <2> SUFFICES ASSUME ix = <<1, 1>> PROVE FALSE
    OBVIOUS
  <2>1. Len(ix) = 2 /\ ix[2] = 1
    OBVIOUS
  <2> QED BY <1>6, <2>1
<1>9. ix = [i \in 1..L |-> i]
  BY <1>1, <1>4, <1>8 DEF KnownIndexes
<1>10. Len(ix) = L
  <2>1. [i \in 1..L |-> i] \in Seq(Nat)
    OBVIOUS
  <2>2. DOMAIN ix = 1..L /\ DOMAIN ix = 1..Len(ix) /\ Len(ix) \in Nat
    BY <1>9, <2>1
  <2> QED BY <2>2
<1>11. hasNext[L] = (L < L)
  BY <1>2, <1>7, <1>10
<1>12. ~q[L].next
  <2>1. L \in DOMAIN q
    BY <1>1, <1>2
  <2>2. q[L] \in PageRecords
    BY <1>1, <2>1
  <2>3. q[L].next \in BOOLEAN
    BY <2>2 DEF PageRecords
  <2>4. hasNext[L] = q[L].next
    BY <1>1, <2>1
  <2>5. (L < L) = FALSE
    OBVIOUS
  <2> HIDE DEF hasNext
  <2> QED BY <1>11, <2>3, <2>4, <2>5
<1> QED BY <1>1, <1>12 DEF Captured, Last

\* Without a code the gate read whole, recognised reviews, each of them once.
LEMMA GateReadsPages ==
  ASSUME NEW cap, NEW listing, NEW entries, NEW commit,
         check(cap, listing, entries, commit) = {}
  PROVE  /\ load_sources(cap, listing).reviews /\ listing.decodes
         /\ build(cap, listing).agg = aggregate(Items(cap.pages))
         /\ build(cap, listing).agg.codes = {}
         /\ SeparationCodes(build(cap, listing)) = {}
         /\ BindingCodes(build(cap, listing), commit) = {}
         /\ StalenessCodes(entries, build(cap, listing), commit) = {}
<1> DEFINE facts == build(cap, listing)
           sources == load_sources(cap, listing)
<1>1. SeparationCodes(facts) = {}
  <2>1. ASSUME NEW c \in SeparationCodes(facts)
        PROVE  <<"account_separation", c>> \in check(cap, listing, entries, commit)
    BY CheckIsJudgement DEF Judge
  <2> QED BY <2>1
<1>2. BindingCodes(facts, commit) = {}
  <2>1. ASSUME NEW c \in BindingCodes(facts, commit)
        PROVE  <<"revision_binding", c>> \in check(cap, listing, entries, commit)
    BY CheckIsJudgement DEF Judge
  <2> QED BY <2>1
<1>3. StalenessCodes(entries, facts, commit) = {}
  <2>1. ASSUME NEW c \in StalenessCodes(entries, facts, commit)
        PROVE  <<"staleness", c>> \in check(cap, listing, entries, commit)
    BY CheckIsJudgement DEF Judge
  <2> QED BY <2>1
<1>4. facts.codes = {}
  <2>1. ASSUME NEW c \in facts.codes
        PROVE  <<"integrity", c>> \in check(cap, listing, entries, commit)
    BY CheckIsJudgement DEF Judge, IntegrityCodes
  <2> QED BY <2>1
<1>5. PICK u \in DOMAIN facts.agg.reviewers : TRUE
  BY <1>1 DEF SeparationCodes, approved
<1>6. sources.reviews /\ listing.decodes
  <2> SUFFICES ASSUME ~(sources.reviews /\ listing.decodes) PROVE FALSE
    OBVIOUS
  <2>1. facts.agg = NoAggregation
    BY DEF build
  <2> QED BY <1>5, <2>1 DEF NoAggregation
<1>7. facts.agg = aggregate(Items(cap.pages))
  BY <1>6 DEF build
<1>8. facts.agg.codes = {}
  BY <1>4, <1>7 DEF build
<1> QED BY <1>1, <1>2, <1>3, <1>6, <1>7, <1>8

LEMMA SourcesAreWhole ==
  ASSUME NEW cap, NEW listing, load_sources(cap, listing).reviews
  PROVE  NamesReviews(cap, listing) /\ ReviewsCodes(cap, listing) = {}
BY DEF load_sources

\* What aggregate says of usable reviews, in terms of their set.
LEMMA AggregateShows ==
  ASSUME NEW items, aggregate(items).codes = {},
         NEW submitted, submitted = {r \in Range(items) : r.state # "PENDING"}
  PROVE  /\ UnusableCodes(items) = {}
         /\ DOMAIN aggregate(items).reviewers = {r.user : r \in submitted} \ {Nothing}
         /\ \A u \in DOMAIN aggregate(items).reviewers :
              /\ aggregate(items).reviewers[u] = reviewer_state({r \in submitted : r.user = u})
              /\ aggregate(items).reviewers[u].codes = {}
         /\ aggregate(items).unknownActor =
              \E r \in submitted : r.user = Nothing /\ r.state \in DECIDING
<1> DEFINE set       == {items[i] : i \in {j \in DOMAIN items : items[j].state # "PENDING"}}
           accounts  == {r.user : r \in set} \ {Nothing}
           reviewers == [u \in accounts |-> reviewer_state({r \in set : r.user = u})]
<1>1. set = submitted
  BY DEF Range
<1>2. UnusableCodes(items) = {}
  BY DEF aggregate
<1>3. /\ aggregate(items).reviewers = IF UnusableCodes(items) # {} THEN << >> ELSE reviewers
      /\ aggregate(items).unknownActor =
           (UnusableCodes(items) = {} /\ \E r \in set : r.user = Nothing /\ r.state \in DECIDING)
  BY DEF aggregate
<1>4. DOMAIN reviewers = accounts /\ aggregate(items).reviewers = reviewers
  BY <1>2, <1>3
<1>5. \A u \in accounts : reviewers[u] = reviewer_state({r \in set : r.user = u})
  OBVIOUS
<1>6. ASSUME NEW u \in accounts, NEW c \in reviewers[u].codes PROVE FALSE
  <2> DEFINE agg == aggregate(items)
  <2>1. c \in UNION {agg.reviewers[w].codes : w \in DOMAIN agg.reviewers}
    <3>1. u \in DOMAIN agg.reviewers /\ c \in agg.reviewers[u].codes
      BY <1>4, <1>6
    <3> HIDE DEF agg
    <3> QED BY <3>1
  <2>2. UNION {agg.reviewers[w].codes : w \in DOMAIN agg.reviewers} \subseteq agg.codes
    <3> DEFINE R == IF UnusableCodes(items) # {} THEN << >> ELSE reviewers
    <3>1. agg = [usable |-> UnusableCodes(items) = {}, reviewers |-> R,
                 unknownActor |-> /\ UnusableCodes(items) = {}
                                  /\ \E r \in set : r.user = Nothing /\ r.state \in DECIDING,
                 codes |-> UnusableCodes(items) \cup UNION {R[w].codes : w \in DOMAIN R}]
      BY DEF aggregate
    <3> HIDE DEF R, agg
    <3>2. agg.reviewers = R
          /\ agg.codes = UnusableCodes(items) \cup UNION {R[w].codes : w \in DOMAIN R}
      BY <3>1
    <3> QED BY <3>2
  <2> QED BY <2>1, <2>2
<1>7. aggregate(items).unknownActor = \E r \in submitted : r.user = Nothing /\ r.state \in DECIDING
  BY <1>1, <1>2, <1>3
<1> HIDE DEF reviewers, set
<1>8. ASSUME NEW u \in accounts
      PROVE  /\ aggregate(items).reviewers[u] = reviewer_state({r \in submitted : r.user = u})
             /\ aggregate(items).reviewers[u].codes = {}
  BY <1>1, <1>4, <1>5, <1>6
<1> QED BY <1>1, <1>2, <1>4, <1>7, <1>8

\* A gate without a code counted a real approval, whatever entries it was shown.
LEMMA GateApproves ==
  ASSUME PRInv, NEW listing, NEW entries, NEW commit, KnownIndexes(listing),
         check(capture, listing, entries, commit) = {}
  PROVE  Approved(commit)
<1> DEFINE facts == build(capture, listing)
           items == Items(capture.pages)
           sub   == {r \in PageItems : r.state # "PENDING"}
<1>1. /\ load_sources(capture, listing).reviews /\ listing.decodes
      /\ facts.agg = aggregate(items)
      /\ aggregate(items).codes = {}
      /\ SeparationCodes(facts) = {}
      /\ BindingCodes(facts, commit) = {}
      /\ StalenessCodes(entries, facts, commit) = {}
  BY GateReadsPages
<1>2. CaptureInv /\ EndInv
  BY DEF PRInv
<1>3. Captured
  BY <1>1, <1>2, SourcesAreWhole, SequenceShows
<1>4. /\ items \in Seq(RawRecords) /\ Range(items) = PageItems
      /\ Repeat => TwiceIn(items)
  BY <1>2, ItemsAreThePages
<1>5. /\ UnusableCodes(items) = {}
      /\ DOMAIN aggregate(items).reviewers = {r.user : r \in sub} \ {Nothing}
      /\ \A u \in DOMAIN aggregate(items).reviewers :
           /\ aggregate(items).reviewers[u] = reviewer_state({r \in sub : r.user = u})
           /\ aggregate(items).reviewers[u].codes = {}
      /\ aggregate(items).unknownActor =
           \E r \in sub : r.user = Nothing /\ r.state \in DECIDING
  BY <1>1, <1>4, AggregateShows
<1>6. ~TwiceIn(items)
  BY <1>5, UsableItems
<1>7. ApprovalsShown /\ ObjectionsShown
  BY <1>2, <1>3, <1>4, <1>6 DEF EndInv
<1>8. \A x, y \in PageItems : x.id = y.id => x = y
  BY <1>4, <1>6 DEF TwiceIn, Range
<1> DEFINE reviewers == facts.agg.reviewers
<1>9. /\ DOMAIN reviewers = {r.user : r \in sub} \ {Nothing}
      /\ \A u \in DOMAIN reviewers :
           reviewers[u] = reviewer_state(Own(u)) /\ reviewers[u].codes = {}
  <2>1. reviewers = aggregate(items).reviewers
    BY <1>1
  <2>2. ASSUME NEW u \in DOMAIN reviewers
        PROVE  reviewers[u] = reviewer_state(Own(u)) /\ reviewers[u].codes = {}
    <3>1. {r \in sub : r.user = u} = Own(u)
      BY DEF Own
    <3>2. /\ aggregate(items).reviewers[u] = reviewer_state({r \in sub : r.user = u})
          /\ aggregate(items).reviewers[u].codes = {}
      BY <1>5, <2>1, <2>2
    <3> QED BY <2>1, <3>1, <3>2
  <2> QED BY <1>5, <2>1, <2>2
<1>10. /\ \A u \in DOMAIN reviewers : reviewers[u].state # "changes_requested"
       /\ ~facts.agg.unknownActor
       /\ approved(facts) # {}
       /\ facts.author # Nothing
       /\ distinct(facts) # {}
  <2>1. \A u \in DOMAIN reviewers : reviewers[u].state # "changes_requested"
    BY <1>1 DEF SeparationCodes
  <2>2. ~facts.agg.unknownActor
    BY <1>1 DEF SeparationCodes
  <2>3. approved(facts) # {}
    BY <1>1 DEF SeparationCodes
  <2>4. facts.author # Nothing
    BY <1>1, <2>3 DEF SeparationCodes
  <2>5. distinct(facts) # {}
    BY <1>1, <2>3, <2>4 DEF SeparationCodes
  <2> QED BY <2>1, <2>2, <2>3, <2>4, <2>5
<1>11. PICK u \in distinct(facts) : reviewers[u].deciding.commit = commit
  BY <1>1, <1>10 DEF BindingCodes
<1>12. /\ u \in DOMAIN reviewers /\ reviewers[u].state = "approved" /\ u # facts.author
       /\ u # Nothing
  BY <1>9, <1>11 DEF distinct, approved
<1> HIDE DEF reviewers, facts, items
<1>13. ASSUME NEW w \in DOMAIN reviewers, \E r \in Own(w) : r.state \in DECIDING
       PROVE  \E d \in Own(w) :
                /\ d.state = "APPROVED" /\ reviewers[w].deciding = d
                /\ \A c \in Own(w) : c.state \in {"CHANGES_REQUESTED", "DISMISSED"} => c.at < d.at
  <2>1. reviewers[w] = reviewer_state(Own(w)) /\ reviewers[w].codes = {}
        /\ reviewers[w].state # "changes_requested"
    BY <1>9, <1>10
  <2> QED BY <1>8, <1>13, <2>1, ReviewerApproves
<1>14. \E r \in Own(u) : r.state \in DECIDING
  <2> SUFFICES ASSUME ~\E r \in Own(u) : r.state \in DECIDING PROVE FALSE
    OBVIOUS
  <2>1. reviewers[u] = reviewer_state(Own(u)) /\ reviewers[u].codes = {}
    BY <1>9, <1>12
  <2>2. {r \in Own(u) : r.state \in DECIDING} = {}
    OBVIOUS
  <2>3. reviewer_state(Own(u)).state = "none"
    BY <2>1, <2>2 DEF reviewer_state
  <2> QED BY <1>12, <2>1, <2>3
<1>15. PICK d \in Own(u) :
         /\ d.state = "APPROVED" /\ reviewers[u].deciding = d
         /\ \A c \in Own(u) : c.state \in {"CHANGES_REQUESTED", "DISMISSED"} => c.at < d.at
  BY <1>12, <1>13, <1>14
<1>16. d \in PageItems /\ d.user = u /\ d.commit = commit /\ Faithful(d)
  BY <1>11, <1>15, PageItemsTyped DEF Own
<1>17. d.id \in truth.inForce
  <2> SUFFICES ASSUME d.id \notin truth.inForce PROVE FALSE
    OBVIOUS
  <2>1. PICK b \in PageItems : /\ b.user = d.user /\ b.at >= d.at
                               /\ b.state \in {"CHANGES_REQUESTED", "DISMISSED"}
    BY <1>7, <1>15, <1>16 DEF ApprovalsShown
  <2>2. b \in Own(u)
    BY <1>16, <2>1 DEF Own
  <2>3. b.at < d.at /\ b.at \in Nat /\ d.at \in Nat
    BY <1>15, <1>16, <2>1, <2>2, PageItemsTyped
  <2> QED BY <2>1, <2>3
<1>18. facts.author = capture.pull.author /\ capture.pull # Nothing
  <2>1. facts.author = IF load_sources(capture, listing).pull /\ listing.decodes
                       THEN capture.pull.author ELSE Nothing
    BY DEF build, facts
  <2>2. load_sources(capture, listing).pull
    BY <1>10, <2>1
  <2>3. NamesPull(capture, listing)
    BY <2>2 DEF load_sources
  <2> QED BY <1>1, <2>1, <2>2, <2>3 DEF NamesPull
<1>19. facts.author = User(Author)
  <2>1. capture.pull \in Pulls
    BY <1>2 DEF CaptureInv
  <2> QED BY <1>10, <1>18, <2>1 DEF Pulls
<1>20. reviews[d.id].user \notin {Author, "deleted"} /\ reviews[d.id].commit = commit
  <2>1. User(reviews[d.id].user) = u /\ reviews[d.id].commit = commit
    BY <1>16 DEF Faithful
  <2>2. User("deleted") = Nothing
    BY DEF User
  <2> QED BY <1>12, <1>19, <2>1, <2>2
<1>21. truth.objections = {}
  <2> SUFFICES ASSUME NEW o \in truth.objections PROVE FALSE
    OBVIOUS
  <2>1. PICK c \in PageItems :
          /\ c.id = o /\ c.state = "CHANGES_REQUESTED"
          /\ c.user # Nothing =>
               \A a \in PageItems : a.state = "APPROVED" /\ a.user = c.user => a.at <= c.at
    BY <1>7 DEF ObjectionsShown
  <2>2. c \in sub /\ c.state \in DECIDING
    BY <2>1 DEF DECIDING
  <2>3. c.user # Nothing
    BY <1>1, <1>5, <1>10, <2>2 DEF facts
  <2>4. c.user \in DOMAIN reviewers /\ c \in Own(c.user)
    BY <1>9, <2>2, <2>3 DEF Own
  <2>5. PICK e \in Own(c.user) :
          /\ e.state = "APPROVED"
          /\ \A b \in Own(c.user) : b.state \in {"CHANGES_REQUESTED", "DISMISSED"} => b.at < e.at
    BY <1>13, <2>2, <2>4
  <2>6. e \in PageItems /\ e.user = c.user
    BY <2>5 DEF Own
  <2>7. c.at < e.at /\ e.at <= c.at
    BY <2>1, <2>3, <2>4, <2>5, <2>6
  <2>8. c.at \in Nat /\ e.at \in Nat
    BY <2>1, <2>6, PageItemsTyped
  <2> QED BY <2>7, <2>8
<1>22. capture.pull.head = commit
  <2>1. facts.head = IF load_sources(capture, listing).pull /\ listing.decodes
                     THEN capture.pull.head ELSE Nothing
    BY DEF build, facts
  <2>2. facts.head # Nothing /\ facts.head = commit
    BY <1>1 DEF StalenessCodes
  <2> QED BY <2>1, <2>2
<1> QED BY <1>17, <1>20, <1>21, <1>22 DEF Approved

(* --------------------- a LINKED gate counted an approval ----------------- *)

GateInv == results.gate = Result(TRUE, {}) => Approved(manifest.head)

ApprovalInv == PRInv /\ ListingKnown /\ GateInv

LEMMA HonestGateApproves ==
  ASSUME PRInv, NEW commit, HonestGate(commit) = {}
  PROVE  Approved(commit)
<1>1. check(capture, WholeListing(capture), WholeEntries, commit) = {}
  BY DEF HonestGate
<1>2. KnownIndexes(WholeListing(capture))
  BY DEF KnownIndexes, WholeListing
<1> QED BY <1>1, <1>2, GateApproves

\* The gate of a chain reads the capture the manifest names, or nothing.
LEMMA ChainGateApproves ==
  ASSUME PRInv, ListingKnown, step >= 1, "revision" \in DOMAIN manifest.listing,
         check_gate = {}
  PROVE  Approved(manifest.head)
<1>1. check(GateCapture, GateListing, GateEntries, manifest.head) = {}
  BY DEF check_gate, Codes
<1>2. GateListing.revision /\ GateListing.pages # {}
  BY <1>1, GateReadsReviews
<1>3. GateListing = manifest.listing
  BY <1>2 DEF GateListing
<1>4. GateCapture = capture
  BY <1>2, <1>3 DEF GateCapture, NamesEvidence
<1>5. KnownIndexes(manifest.listing)
  BY DEF ListingKnown, KnownIndexes
<1> QED BY <1>1, <1>3, <1>4, <1>5, GateApproves

LEMMA ListingStays ==
  ASSUME ListingKnown, UNCHANGED <<capture, manifest>>, step \in Nat, step' \in Nat,
         step' >= 1 => step >= 1
  PROVE  ListingKnown'
BY DEF ListingKnown

LEMMA ApprovedStays ==
  ASSUME NEW commit, UNCHANGED prVars
  PROVE  Approved(commit)' = Approved(commit)
BY DEF Approved, prVars

LEMMA WrittenListing ==
  ASSUME NEW commit, WriteSome(commit) PROVE ListingKnown'
<1> DEFINE whole == WholeListing(capture)
           order == [i \in DOMAIN capture.pages |-> i]
<1>0. capture' = capture
  BY DEF WriteSome, Write, prVars
<1>1. whole.indexes = order
  BY DEF WholeListing
<1>2. ASSUME NEW f \in ListingFaults PROVE With(whole, f).indexes \in {order, <<1, 1>>}
  <2>1. CASE f = <<"indexes", <<1, 1>> >>
    <3>1. f[1] = "indexes" /\ f[2] = <<1, 1>>
      BY <2>1
    <3> QED BY <3>1 DEF With, WholeListing
  <2>2. CASE f # <<"indexes", <<1, 1>> >>
    <3>1. f \in {<<"revision", FALSE>>, <<"reads", FALSE>>, <<"twin", TRUE>>, <<"decodes", FALSE>>, <<"integrity", "V5">>,
                <<"integrity", "OTHER">>, <<"pull", FALSE>>, <<"pages", {}>>, <<"pages", {1}>>}
      BY <2>2 DEF ListingFaults
    <3>2. \A value : /\ <<"revision", value>>[1] = "revision" /\ <<"reads", value>>[1] = "reads"
                     /\ <<"twin", value>>[1] = "twin" /\ <<"decodes", value>>[1] = "decodes"
                     /\ <<"integrity", value>>[1] = "integrity"
                     /\ <<"pull", value>>[1] = "pull" /\ <<"pages", value>>[1] = "pages"
      OBVIOUS
    <3>3. f[1] # "indexes"
      BY <3>1, <3>2
    <3> QED BY <1>1, <3>3 DEF With, WholeListing
  <2> QED BY <2>1, <2>2
<1>3. ASSUME NEW contents, NEW listing, NEW entries, NEW w,
             listing.indexes \in {order, <<1, 1>>},
             Write(Manifest(commit, contents, listing, entries), w)
      PROVE  ListingKnown'
  <2>1. manifest'.listing = listing
    BY <1>3 DEF Write, Manifest
  <2> QED BY <1>0, <1>3, <2>1 DEF ListingKnown
<1>4. ASSUME NEW contents, NEW entries, NEW w, Write(Manifest(commit, contents, whole, entries), w)
      PROVE  ListingKnown'
  BY <1>1, <1>3, <1>4
<1>5. ASSUME NEW f \in ListingFaults, NEW entries,
             Write(Manifest(commit, HonestContents, With(whole, f), entries), HonestWorld)
      PROVE  ListingKnown'
  BY <1>2, <1>3, <1>5
<1> QED BY <1>4, <1>5 DEF WriteSome

LEMMA ApprovalInit == ChainInit => ApprovalInv
<1> SUFFICES ASSUME ChainInit PROVE ApprovalInv
  OBVIOUS
<1>1. PRInv
  BY PRInitInv DEF ChainInit
<1>2. ListingKnown
  BY DEF ListingKnown, ChainInit
<1>3. results.gate.present = FALSE
  BY DEF ChainInit, Unchecked, Result, LINKS
<1>4. GateInv
  BY <1>3 DEF GateInv, Result
<1> QED BY <1>1, <1>2, <1>4 DEF ApprovalInv

\* A step that leaves the gate's result and the pull request alone.
LEMMA GateStays ==
  ASSUME GateInv, UNCHANGED <<prVars, manifest>>, results'.gate = results.gate
  PROVE  GateInv'
<1>1. Approved(manifest.head)' = Approved(manifest.head)
  BY DEF Approved, prVars
<1> QED BY <1>1 DEF GateInv, Result

\* Before the fifth check the gate has no result.
LEMMA NoGateYet ==
  ASSUME ChainInv, step < 7, results'.gate = results.gate
  PROVE  GateInv'
<1>1. Order[5] = "gate" /\ LinkInv(5)
  BY DEF Order, ChainInv
<1>2. ~results.gate.present
  BY <1>1 DEF LinkInv
<1> QED BY <1>2 DEF GateInv, Result

LEMMA ApprovalStep == ChainInv /\ ApprovalInv /\ [ChainNext]_vars => ApprovalInv'
<1> SUFFICES ASSUME ChainInv, ApprovalInv, [ChainNext]_vars PROVE ApprovalInv'
  OBVIOUS
<1>0. /\ PRInv /\ ListingKnown /\ GateInv /\ step \in 0..8
      /\ results = [l \in LINKS |-> results[l]]
  BY DEF ApprovalInv, ChainInv
<1>1. CASE PRNext /\ step = 0 /\ UNCHANGED chainVars
  <2>1. step' = 0 /\ results' = results
    BY <1>1 DEF chainVars
  <2>2. PRInv'
    BY <1>0, <1>1, PRStep
  <2>3. ListingKnown'
    BY <2>1 DEF ListingKnown
  <2>4. GateInv'
    BY <1>1, <2>1, NoGateYet
  <2> QED BY <2>2, <2>3, <2>4 DEF ApprovalInv
<1>2. ASSUME NEW commit \in Range(Commits), WriteSome(commit) PROVE ApprovalInv'
  <2>1. step = 0 /\ UNCHANGED prVars /\ results' = results
    BY <1>2 DEF WriteSome, Write
  <2>2. PRInv'
    BY <1>0, <2>1, PRStays
  <2>3. ListingKnown'
    BY <1>2, WrittenListing
  <2>4. GateInv'
    BY <2>1, NoGateYet
  <2> QED BY <2>2, <2>3, <2>4 DEF ApprovalInv
<1>3. CASE LoadReport
  <2>1. step = 1 /\ step' = 2 /\ UNCHANGED <<prVars, manifest>>
    BY <1>3 DEF LoadReport
  <2>2. results'.gate = results.gate
    BY <1>0, <1>3 DEF LoadReport, LINKS
  <2>3. PRInv'
    BY <1>0, <2>1, PRStays
  <2>4. ListingKnown'
    BY <1>0, <2>1, ListingStays DEF prVars
  <2>5. GateInv'
    BY <2>1, <2>2, NoGateYet
  <2> QED BY <2>3, <2>4, <2>5 DEF ApprovalInv
<1>4. ASSUME NEW i \in 1..Len(Order), Check(i) PROVE ApprovalInv'
  <2>1. /\ step = i + 1 /\ step' = i + 2 /\ UNCHANGED <<prVars, manifest>>
        /\ i \in 1..6 /\ Order[i] \in LINKS
    BY <1>4, LinkNames DEF Check
  <2>2. PRInv'
    BY <1>0, <2>1, PRStays
  <2>3. ListingKnown'
    BY <1>0, <2>1, ListingStays DEF prVars
  <2>4. CASE i = 5
    <3>1. results'.gate = Result(Present("gate"), IF Present("gate") THEN LinkCodes("gate") ELSE {})
      BY <1>0, <1>4, <2>4 DEF Check, Order, LINKS
    <3>2. results'.gate = Result(TRUE, check_gate)
      BY <3>1 DEF Present, LinkCodes
    <3>3. ASSUME check_gate = {} PROVE Approved(manifest.head)
      <4>1. "revision" \in DOMAIN manifest.listing
        BY <2>1 DEF ChainInv, ManifestInv
      <4> QED BY <1>0, <2>1, <3>3, <4>1, ChainGateApproves
    <3>4. Approved(manifest.head)' = Approved(manifest.head)
      BY <2>1 DEF Approved, prVars
    <3>5. results'.gate = Result(TRUE, {}) => check_gate = {}
      BY <3>2 DEF Result
    <3>6. (results.gate = Result(TRUE, {}))' = (results'.gate = Result(TRUE, {}))
      BY DEF Result
    <3>7. GateInv'
      BY <3>3, <3>4, <3>5, <3>6 DEF GateInv
    <3> QED BY <2>2, <2>3, <3>7 DEF ApprovalInv
  <2>5. CASE i # 5
    <3>1. Order[i] # "gate"
      BY <2>1, <2>5 DEF Order
    <3>2. results'.gate = results.gate
      BY <1>0, <1>4, <2>1, <3>1 DEF Check, LINKS
    <3>3. GateInv'
      BY <1>0, <2>1, <3>2, GateStays
    <3> QED BY <2>2, <2>3, <3>3 DEF ApprovalInv
  <2> QED BY <2>4, <2>5
<1>5. CASE ReplaceSome
  <2>1. UNCHANGED <<prVars, manifest, results, step>>
    BY <1>5 DEF ReplaceSome, Replace
  <2>2. PRInv'
    BY <1>0, <2>1, PRStays
  <2>3. ListingKnown'
    BY <1>0, <2>1, ListingStays DEF prVars
  <2>4. GateInv'
    BY <1>0, <2>1, GateStays
  <2> QED BY <2>2, <2>3, <2>4 DEF ApprovalInv
<1>6. CASE UNCHANGED vars
  <2>1. UNCHANGED <<prVars, manifest, results, step>>
    BY <1>6 DEF vars, chainVars
  <2>2. PRInv'
    BY <1>0, <2>1, PRStays
  <2>3. ListingKnown'
    BY <1>0, <2>1, ListingStays DEF prVars
  <2>4. GateInv'
    BY <1>0, <2>1, GateStays
  <2> QED BY <2>2, <2>3, <2>4 DEF ApprovalInv
<1> QED BY <1>1, <1>2, <1>3, <1>4, <1>5, <1>6 DEF ChainNext

\* What every state satisfies: the pull request, its capture and the gate.
THEOREM ApprovalInvHolds == Spec => []ApprovalInv
BY ChainInvHolds, ApprovalInit, ApprovalStep, InitInv, PTL DEF Spec

\* A LINKED gate counted an approval that was in force while the reviews were
\* captured (gate.py, aggregate and check).
THEOREM ApprovalHolds == Spec => []CountedApprovalWasInForce
<1>1. ApprovalInv => CountedApprovalWasInForce
  <2> SUFFICES ASSUME ApprovalInv PROVE CountedApprovalWasInForce
    OBVIOUS
  <2>1. PRInv /\ GateInv
    BY DEF ApprovalInv
  <2> QED BY <2>1, HonestGateApproves DEF CountedApprovalWasInForce, GateInv
<1> QED BY <1>1, ApprovalInvHolds, PTL

(* ------------------- every code a link leaves is a reason ---------------- *)

LEMMA PageCodes ==
  ASSUME NEW indexes, NEW hasNext
  PROVE  page_sequence_problem(indexes, hasNext)
           \subseteq {"review_capture_duplicate", "review_capture_incomplete"}
BY DEF page_sequence_problem

LEMMA ReviewsCodesAreReasons ==
  ASSUME NEW cap, NEW listing
  PROVE  ReviewsCodes(cap, listing) \subseteq
           {"review_capture_duplicate", "review_capture_incomplete",
            "gate_source_integrity_not_pass"}
<1> DEFINE problem == page_sequence_problem(listing.indexes,
                        [i \in DOMAIN cap.pages |-> cap.pages[i].next])
<1>1. problem \subseteq {"review_capture_duplicate", "review_capture_incomplete"}
  BY PageCodes
<1>2. ReviewsCodes(cap, listing)
        = IF listing.pages # DOMAIN cap.pages THEN {"review_capture_incomplete"}
          ELSE IF problem # {} THEN problem
          ELSE IF ~cap.complete THEN {"review_capture_incomplete"}
          ELSE IF ~listing.reads THEN {"gate_source_integrity_not_pass"} ELSE {}
  BY DEF ReviewsCodes
<1> HIDE DEF problem
<1> QED BY <1>1, <1>2

\* The codes that say a source of the gate cannot be used.
SourceReasons ==
  {"review_capture_duplicate", "review_capture_incomplete", "gate_source_integrity_not_pass",
   "gate_source_missing"}

LEMMA SourcesCodes ==
  ASSUME NEW cap, NEW listing
  PROVE  load_sources(cap, listing).codes \subseteq SourceReasons
<1> DEFINE problem == IF NamesReviews(cap, listing) THEN ReviewsCodes(cap, listing) ELSE {}
           unread  == IF NamesPull(cap, listing) /\ ~listing.reads
                      THEN {"gate_source_integrity_not_pass"} ELSE {}
           codes   == problem \cup unread
           all     == load_sources(cap, listing).codes
<1>1. codes \subseteq SourceReasons
  BY ReviewsCodesAreReasons DEF SourceReasons
<1>2. \/ all = {"gate_source_integrity_not_pass"}
      \/ all = codes \cup {"review_capture_incomplete"}
      \/ all = codes \cup {"gate_source_integrity_not_pass"}
      \/ all = codes \cup {"gate_source_missing"}
      \/ all = codes
  BY DEF load_sources
<1> HIDE DEF codes, all
<1>3. all \subseteq SourceReasons
  BY <1>1, <1>2 DEF SourceReasons
<1> QED BY <1>3 DEF all

\* The codes of reviews that cannot be put together or in order.
ReviewReasons ==
  {"gate_source_unrecognized", "review_capture_duplicate", "review_conflict",
   "review_order_ambiguous", "review_order_inconsistent", "review_dismissal_effect_unknown"}

LEMMA AggregateCodes ==
  ASSUME NEW items
  PROVE  aggregate(items).codes \subseteq ReviewReasons
<1> DEFINE submitted == {items[i] : i \in {j \in DOMAIN items : items[j].state # "PENDING"}}
           accounts  == {r.user : r \in submitted} \ {Nothing}
           states    == [u \in accounts |-> reviewer_state({r \in submitted : r.user = u})]
           reviewers == IF UnusableCodes(items) # {} THEN << >> ELSE states
<1>1. UnusableCodes(items) \subseteq ReviewReasons
  BY DEF UnusableCodes, ReviewReasons
<1>2. ASSUME NEW own PROVE reviewer_state(own).codes \subseteq ReviewReasons
  BY DEF reviewer_state, ReviewReasons
<1>3. \A u \in DOMAIN reviewers : reviewers[u].codes \subseteq ReviewReasons
  <2>1. CASE UnusableCodes(items) # {}
    BY <2>1
  <2>2. CASE UnusableCodes(items) = {}
    <3>1. \A u \in accounts : states[u].codes \subseteq ReviewReasons
      BY <1>2
    <3>2. reviewers = states /\ DOMAIN states = accounts
      BY <2>2
    <3> HIDE DEF states, accounts
    <3> QED BY <3>1, <3>2
  <2> QED BY <2>1, <2>2
<1>4. aggregate(items).codes
        = UnusableCodes(items) \cup UNION {reviewers[u].codes : u \in DOMAIN reviewers}
  BY DEF aggregate
<1> HIDE DEF reviewers
<1> QED BY <1>1, <1>3, <1>4

FactReasons == SourceReasons \cup ReviewReasons

LEMMA FactsCodes ==
  ASSUME NEW cap, NEW listing
  PROVE  build(cap, listing).codes \subseteq FactReasons
<1> DEFINE facts == build(cap, listing)
<1>1. facts.codes \subseteq load_sources(cap, listing).codes \cup facts.agg.codes
                    \cup {"review_capture_incomplete", "gate_source_unrecognized"}
  BY DEF build
<1>2. facts.agg.codes \subseteq ReviewReasons
  <2>1. facts.agg = aggregate(Items(cap.pages)) \/ facts.agg = NoAggregation
    BY DEF build
  <2> QED BY <2>1, AggregateCodes DEF NoAggregation
<1> QED BY <1>1, <1>2, SourcesCodes DEF FactReasons, SourceReasons, ReviewReasons

LEMMA FactReasonsAreReasons == FactReasons \subseteq REASONS
BY DEF FactReasons, SourceReasons, ReviewReasons, REASONS, BrokenCodes, IncompleteCodes,
       NotProvenCodes

\* Every code of the gate is in the catalogue, whatever it was shown.
LEMMA GateCodesAreReasons ==
  ASSUME NEW cap, NEW listing, NEW entries, NEW commit
  PROVE  Codes(check(cap, listing, entries, commit)) \subseteq REASONS
<1> DEFINE facts == build(cap, listing)
           named(set) == \A p \in set : p[2] \in REASONS
<1>1. named(IntegrityCodes(entries, facts))
  <2>1. \A i \in DOMAIN entries : Refusal(entries[i]) \subseteq REASONS
    BY DEF Refusal, REASONS, IncompleteCodes, BrokenCodes
  <2>2. facts.codes \subseteq REASONS
    BY FactsCodes, FactReasonsAreReasons
  <2>3. \A c \in facts.codes \cup UNION {Refusal(entries[i]) : i \in DOMAIN entries} : c \in REASONS
    BY <2>1, <2>2
  <2>4. \A c \in {"gate_record_invalid", "gate_record_missing", "approval_self_declared_only"} :
          c \in REASONS
    BY DEF REASONS, IncompleteCodes, NotProvenCodes
  <2>5. \A c : <<"integrity", c>>[2] = c
    OBVIOUS
  <2> QED BY <2>3, <2>4, <2>5 DEF IntegrityCodes
<1>2. ASSUME NEW i \in Good(entries)
      PROVE  named(RecordCodes(entries[i].record, facts, Cited(entries[i].record, cap, listing)))
  <2>1. \A a, c : <<a, c>>[2] = c
    OBVIOUS
  <2>2. {"gate_source_missing", "gate_binds_other_commit", "gate_record_mismatch",
         "approval_revision_misrecorded"} \subseteq REASONS
    BY DEF REASONS, IncompleteCodes, BrokenCodes
  <2> QED BY <2>1, <2>2 DEF RecordCodes
<1>3. \A c \in SeparationCodes(facts) \cup BindingCodes(facts, commit)
             \cup StalenessCodes(entries, facts, commit) \cup {"gate_record_missing"} :
        c \in REASONS
  BY DEF SeparationCodes, BindingCodes, StalenessCodes, REASONS, BrokenCodes, NotProvenCodes,
         IncompleteCodes
<1>4. ASSUME NEW p \in Judge(facts, cap, listing, entries, commit) PROVE p[2] \in REASONS
  <2> HIDE DEF facts
  <2>1. CASE p \in IntegrityCodes(entries, facts)
    BY <1>1, <2>1
  <2>2. CASE \E i \in Good(entries) :
               p \in RecordCodes(entries[i].record, facts, Cited(entries[i].record, cap, listing))
    BY <1>2, <2>2
  <2>3. CASE \E a, c : /\ p = <<a, c>>
                       /\ c \in SeparationCodes(facts) \cup BindingCodes(facts, commit)
                            \cup StalenessCodes(entries, facts, commit) \cup {"gate_record_missing"}
    BY <1>3, <2>3
  <2> QED BY <1>4, <2>1, <2>2, <2>3 DEF Judge
<1>5. check(cap, listing, entries, commit) = Judge(facts, cap, listing, entries, commit)
  BY CheckIsJudgement
<1> QED BY <1>4, <1>5 DEF Codes

LEMMA LinkCodesAreReasons ==
  ASSUME NEW link \in LINKS, results.verification.codes \subseteq REASONS
  PROVE  LinkCodes(link) \subseteq REASONS
<1>1. check_subject \subseteq REASONS
  BY DEF check_subject, REASONS, BrokenCodes, IncompleteCodes
<1>2. check_contract \subseteq REASONS
  BY DEF check_contract, REASONS, BrokenCodes, IncompleteCodes
<1>3. review_contents \subseteq REASONS
  BY DEF review_contents, REASONS, BrokenCodes, IncompleteCodes
<1>4. check_review \subseteq REASONS
  BY <1>3 DEF check_review, REASONS, BrokenCodes, IncompleteCodes
<1>5. check_verification \subseteq REASONS
  BY DEF check_verification, REASONS, BrokenCodes, NotProvenCodes
<1>6. check_gate \subseteq REASONS
  <2>1. CASE manifest.entries = <<>>
    BY <2>1 DEF check_gate, REASONS, IncompleteCodes
  <2>2. CASE manifest.entries # <<>>
    BY <2>2, GateCodesAreReasons DEF check_gate
  <2> QED BY <2>1, <2>2
<1>7. check_github \subseteq REASONS
  BY DEF check_github, REASONS, BrokenCodes, IncompleteCodes
<1> QED BY <1>1, <1>2, <1>4, <1>5, <1>6, <1>7 DEF LinkCodes, LINKS

(* ------------------------------- types ---------------------------------- *)

ChainTypesInv ==
  /\ DOMAIN world = DOMAIN HonestWorld /\ changes \in 0..MaxChanges
  /\ report \in {Nothing, "named", "other"}
  /\ results = [l \in LINKS |-> results[l]]
  /\ \A l \in LINKS : results[l].codes \subseteq REASONS

LEMMA ReportReasons == ReportCodes \subseteq REASONS
BY DEF ReportCodes, REASONS, BrokenCodes, IncompleteCodes

LEMMA ChainTypesStep ==
  ChainInv /\ ChainTypesInv /\ [ChainNext]_vars => ChainTypesInv'
<1> SUFFICES ASSUME ChainInv, ChainTypesInv, [ChainNext]_vars PROVE ChainTypesInv'
  OBVIOUS
<1>1. CASE PRNext /\ step = 0 /\ UNCHANGED chainVars
  BY <1>1 DEF chainVars, ChainTypesInv, HonestWorld
<1>2. ASSUME NEW commit \in Range(Commits), WriteSome(commit) PROVE ChainTypesInv'
  <2>1. UNCHANGED <<changes, report, results>>
    BY <1>2 DEF WriteSome, Write
  <2>2. world' = HonestWorld \/ \E f : world' = With(HonestWorld, f)
    BY <1>2 DEF WriteSome, Write
  <2>3. DOMAIN world' = DOMAIN HonestWorld
    BY <2>2 DEF With
  <2> QED BY <2>1, <2>3 DEF ChainTypesInv, HonestWorld
<1>3. CASE LoadReport
  <2>1. UNCHANGED <<changes, world>> /\ report' \in {Nothing, "named", "other"}
    BY <1>3 DEF LoadReport, ReportLoaded
  <2>2. /\ results' = [results EXCEPT !.verification = Result(TRUE, ReportCodes)]
        /\ "verification" \in LINKS
    BY <1>3 DEF LoadReport, LINKS
  <2>3. results' = [l \in LINKS |-> results'[l]]
        /\ \A l \in LINKS : results'[l].codes \subseteq REASONS
    BY <2>2, ReportReasons DEF ChainTypesInv, Result
  <2> QED BY <2>1, <2>3 DEF ChainTypesInv, HonestWorld
<1>4. ASSUME NEW i \in 1..Len(Order), Check(i) PROVE ChainTypesInv'
  <2>1. UNCHANGED <<changes, world, report>> /\ Order[i] \in LINKS
    BY <1>4, LinkNames DEF Check
  <2>2. results' = [results EXCEPT ![Order[i]] =
          Result(Present(Order[i]), IF Present(Order[i]) THEN LinkCodes(Order[i]) ELSE {})]
    BY <1>4 DEF Check
  <2>3. LinkCodes(Order[i]) \subseteq REASONS
    <3>1. results.verification.codes \subseteq REASONS
      BY DEF ChainTypesInv, LINKS
    <3> QED BY <2>1, <3>1, LinkCodesAreReasons
  <2>4. results' = [l \in LINKS |-> results'[l]]
        /\ \A l \in LINKS : results'[l].codes \subseteq REASONS
    BY <2>1, <2>2, <2>3 DEF ChainTypesInv, Result
  <2> QED BY <2>1, <2>4 DEF ChainTypesInv, HonestWorld
<1>5. CASE ReplaceSome
  <2>1. UNCHANGED <<report, results>> /\ changes' = changes + 1 /\ changes < MaxChanges
    BY <1>5 DEF ReplaceSome, Replace
  <2>2. \E a, s : world' = [world EXCEPT ![a] = s]
    BY <1>5 DEF ReplaceSome, Replace
  <2>3. DOMAIN world' = DOMAIN world
    BY <2>2
  <2>4. changes' \in 0..MaxChanges
    BY <2>1, ChainAssumption DEF ChainTypesInv
  <2> QED BY <2>1, <2>3, <2>4 DEF ChainTypesInv, HonestWorld
<1>6. CASE UNCHANGED vars
  BY <1>6 DEF vars, chainVars, ChainTypesInv, HonestWorld
<1> QED BY <1>1, <1>2, <1>3, <1>4, <1>5, <1>6 DEF ChainNext

\* The types of the pull request, its capture and the validator, and every code
\* and status in its catalogue (reasons in status.py).
THEOREM ChainTypes == Spec => []TypeOK
<1>1. ChainInit => ChainTypesInv
  BY ChainAssumption DEF ChainInit, ChainTypesInv, Unchecked, Result
<1>2. ChainInv /\ ApprovalInv /\ ChainTypesInv => TypeOK
  <2> SUFFICES ASSUME ChainInv, ApprovalInv, ChainTypesInv PROVE TypeOK
    OBVIOUS
  <2>1. ReviewsInv /\ CaptureInv
    BY DEF ApprovalInv, PRInv
  <2>2. happened \in 0..Len(reviews)
    <3>1. Len(reviews) \in Nat /\ happened \in Nat /\ happened <= Len(reviews)
      BY <2>1, SubmittedIsFinite, StampNumbers
    <3> QED BY <3>1
  <2>3. \A i \in DOMAIN reviews : reviews[i].state \in STATES \cup {"UNKNOWN"}
    <3>1. \A i \in DOMAIN reviews : reviews[i] \in ReviewRecords
      BY <2>1 DEF ReviewsInv
    <3> QED BY <3>1 DEF ReviewRecords, ReviewStates
  <2>4. step \in 0..(Len(Order) + 2)
    BY LinkNames DEF ChainInv
  <2>5. ASSUME NEW l \in LINKS PROVE status(l) \in LINK_STATUSES
    BY DEF status, link_status, StatusOf, LINK_STATUSES
  <2>6. chain_status \in CHAIN_STATUSES
    BY DEF chain_status, compose, StatusOf, CHAIN_STATUSES
  <2> QED BY <2>1, <2>2, <2>3, <2>4, <2>5, <2>6
          DEF TypeOK, ReviewsInv, CaptureInv, ChainTypesInv
<1> QED BY <1>1, <1>2, ChainTypesStep, ChainInvHolds, ApprovalInvHolds, PTL DEF Spec

(* ------------------ the records of an honest author ---------------------- *)

LEMMA ImageIsFinite ==
  ASSUME NEW S, IsFiniteSet(S), NEW f, f = [x \in S |-> f[x]],
         NEW T, \A t \in T : \E s \in S : f[s] = t
  PROVE  IsFiniteSet(T)
<1> DEFINE R == {f[s] : s \in S}
<1>1. f \in Surjection(S, R)
  BY DEF Surjection
<1>2. IsFiniteSet(R)
  <2> HIDE DEF R
  <2> QED BY <1>1, FS_Surjection
<1>3. T \subseteq R
  OBVIOUS
<1> QED BY <1>2, <1>3, FS_Subset

\* A finite set put into a sequence is that set.
LEMMA SetInSequence ==
  ASSUME NEW S, IsFiniteSet(S)
  PROVE  \A i \in DOMAIN SetToSeq(S) : SetToSeq(S)[i] \in S
<1> DEFINE n == Cardinality(S)
<1>1. ExistsBijection(1..n, S)
  BY FS_CardinalityType
<1>2. PICK f \in [1..n -> S] : IsInjective(f)
  BY <1>1 DEF ExistsBijection, Bijection, Injection
<1>3. SetToSeq(S) \in [1..n -> S]
  <2>1. SetToSeq(S) = CHOOSE g \in [1..n -> S] : IsInjective(g)
    BY DEF SetToSeq
  <2> QED BY <1>2, <2>1
<1> QED BY <1>3

LEMMA ReviewersAreFinite ==
  ASSUME NEW items, IsFiniteSet(DOMAIN items)
  PROVE  IsFiniteSet(DOMAIN aggregate(items).reviewers)
<1> DEFINE submitted == {items[i] : i \in {j \in DOMAIN items : items[j].state # "PENDING"}}
           accounts  == {r.user : r \in submitted} \ {Nothing}
           states    == [u \in accounts |-> reviewer_state({r \in submitted : r.user = u})]
           f         == [i \in DOMAIN items |-> items[i].user]
<1>1. aggregate(items).reviewers = IF UnusableCodes(items) # {} THEN << >> ELSE states
  BY DEF aggregate
<1>2. IsFiniteSet(accounts)
  <2>1. \A u \in accounts : \E i \in DOMAIN items : f[i] = u
    OBVIOUS
  <2>2. f = [i \in DOMAIN items |-> f[i]]
    OBVIOUS
  <2> HIDE DEF f, accounts
  <2> QED BY <2>1, <2>2, ImageIsFinite
<1>3. CASE UnusableCodes(items) # {}
  <2>1. DOMAIN aggregate(items).reviewers = {}
    BY <1>1, <1>3
  <2> QED BY <2>1, FS_EmptySet
<1>4. CASE UnusableCodes(items) = {}
  <2>1. DOMAIN aggregate(items).reviewers = accounts
    BY <1>1, <1>4
  <2> QED BY <1>2, <2>1
<1> QED BY <1>3, <1>4

LEMMA RecordsAreFinite ==
  ASSUME CaptureInv, NEW listing
  PROVE  IsFiniteSet(build(capture, listing).records)
<1> DEFINE facts == build(capture, listing)
           people == DOMAIN facts.agg.reviewers
           review(u) == Record("candidate_review", u, facts.agg.reviewers[u].state,
                               IF facts.agg.reviewers[u].deciding = Nothing THEN Nothing
                               ELSE facts.agg.reviewers[u].deciding.commit,
                               relation(u, facts.author))
           merge(d)  == Record("merge_decision", "pull", d, facts.head, "unknown")
           merged    == {merge(d) : d \in {"merged", "closed_unmerged", "open"}}
           f         == [u \in people |-> review(u)]
<1>1. IsFiniteSet(people)
  <2>1. PICK items : items = Items(capture.pages) /\ items \in Seq(RawRecords)
    BY ItemsAreThePages
  <2>2. PICK n \in Nat : DOMAIN items = 1..n
    BY <2>1
  <2>3. IsFiniteSet(DOMAIN items)
    BY <2>2, FS_Interval
  <2>4. facts.agg = aggregate(items) \/ facts.agg = NoAggregation
    BY <2>1 DEF build
  <2>5. CASE facts.agg = NoAggregation
    <3>1. people = {}
      BY <2>5 DEF NoAggregation
    <3> QED BY <3>1, FS_EmptySet
  <2> QED BY <2>3, <2>4, <2>5, ReviewersAreFinite
<1>2. facts.records \subseteq {ContractRecord} \cup merged \cup {review(u) : u \in people}
  BY DEF build, MergeDecision
<1>3. IsFiniteSet({review(u) : u \in people})
  <2>1. f = [u \in people |-> f[u]] /\ \A t \in {review(u) : u \in people} : \E u \in people : f[u] = t
    OBVIOUS
  <2> HIDE DEF f, people
  <2> QED BY <1>1, <2>1, ImageIsFinite
<1>4. IsFiniteSet(merged \cup {ContractRecord})
  <2>1. IsFiniteSet({ContractRecord})
    BY FS_Singleton
  <2>2. IsFiniteSet({ContractRecord} \cup {merge("merged")})
    BY <2>1, FS_AddElement
  <2>3. IsFiniteSet(({ContractRecord} \cup {merge("merged")}) \cup {merge("closed_unmerged")})
    BY <2>2, FS_AddElement
  <2>4. IsFiniteSet((({ContractRecord} \cup {merge("merged")}) \cup {merge("closed_unmerged")})
                    \cup {merge("open")})
    BY <2>3, FS_AddElement
  <2>5. merged \cup {ContractRecord}
          = (({ContractRecord} \cup {merge("merged")}) \cup {merge("closed_unmerged")})
            \cup {merge("open")}
    OBVIOUS
  <2> QED BY <2>4, <2>5
<1>5. IsFiniteSet((merged \cup {ContractRecord}) \cup {review(u) : u \in people})
  <2> HIDE DEF merged, people, review
  <2> QED BY <1>3, <1>4, FS_Union
<1> HIDE DEF merged, people, review
<1> QED BY <1>2, <1>5, FS_Subset

\* An honest author presents records that the evidence gives, each as it should be.
LEMMA HonestEntries ==
  ASSUME CaptureInv, NEW i \in DOMAIN WholeEntries
  PROVE  /\ WholeEntries[i].record \in build(capture, WholeListing(capture)).records
         /\ WholeEntries[i].file = "read" /\ WholeEntries[i].kind = WholeEntries[i].record.kind
<1> DEFINE records == build(capture, WholeListing(capture)).records
           order   == SetToSeq(records)
<1>1. WholeEntries = [k \in DOMAIN order |->
                        [kind |-> order[k].kind, file |-> "read", record |-> order[k]]]
  BY DEF WholeEntries, Entries
<1>2. IsFiniteSet(records)
  BY RecordsAreFinite
<1>3. \A k \in DOMAIN order : order[k] \in records
  <2> HIDE DEF records
  <2> QED BY <1>2, SetInSequence
<1> HIDE DEF records, order
<1> QED BY <1>1, <1>3 DEF records

(* --------- what contradicts an honest manifest: moves and conflicts ------- *)

Moved(commit) == capture.pull.head \notin {Nothing, commit}

Conflict ==
  \E m, n \in DOMAIN capture.pages : \E x \in DOMAIN capture.pages[m].items,
     y \in DOMAIN capture.pages[n].items :
       /\ capture.pages[m].items[x].id = capture.pages[n].items[y].id
       /\ capture.pages[m].items[x] # capture.pages[n].items[y]

\* A conflict is between two of the reviews that were captured.
LEMMA ConflictInItems ==
  ASSUME NEW items, DOMAIN items \subseteq Nat, "review_conflict" \in UnusableCodes(items)
  PROVE  \E i, j \in DOMAIN items : items[i].id = items[j].id /\ items[i] # items[j]
<1> DEFINE recognised == {i \in DOMAIN items : items[i].state \in STATES}
           first(i)   == CHOOSE j \in recognised :
                           /\ items[j].id = items[i].id
                           /\ \A k \in recognised : items[k].id = items[i].id => j <= k
           repeats    == {i \in recognised : first(i) # i}
<1>1. UnusableCodes(items) =
        {"gate_source_unrecognized" : i \in DOMAIN items \ recognised}
        \cup {IF items[first(i)] = items[i] THEN "review_capture_duplicate"
              ELSE "review_conflict" : i \in repeats}
  BY DEF UnusableCodes
<1>2. PICK i \in repeats : items[first(i)] # items[i]
  <2> HIDE DEF recognised, repeats, first
  <2> QED BY <1>1
<1>3. first(i) \in recognised /\ items[first(i)].id = items[i].id
  <2> DEFINE T == {k \in recognised : items[k].id = items[i].id}
  <2>1. T \in SUBSET Nat /\ T # {}
    OBVIOUS
  <2>2. PICK j \in T : \A k \in T : j <= k
    <3> HIDE DEF T
    <3> QED BY <2>1, LeastNumber
  <2>3. /\ j \in recognised /\ items[j].id = items[i].id
        /\ \A k \in recognised : items[k].id = items[i].id => j <= k
    BY <2>2
  <2> HIDE DEF recognised, T
  <2> QED BY <2>3
<1>4. first(i) \in DOMAIN items /\ i \in DOMAIN items
  BY <1>3
<1> HIDE DEF first
<1> QED BY <1>2, <1>3, <1>4

LEMMA ConflictIsCaptured ==
  ASSUME CaptureInv, "review_conflict" \in UnusableCodes(Items(capture.pages))
  PROVE  Conflict
<1>1. PICK items : items = Items(capture.pages) /\ items \in Seq(RawRecords)
                   /\ Range(items) = PageItems
  BY ItemsAreThePages
<1>2. PICK n \in Nat : DOMAIN items = 1..n
  BY <1>1
<1>3. PICK i, j \in DOMAIN items : items[i].id = items[j].id /\ items[i] # items[j]
  BY <1>1, <1>2, ConflictInItems
<1>4. items[i] \in PageItems /\ items[j] \in PageItems
  BY <1>1 DEF Range
<1>5. ASSUME NEW z \in PageItems
      PROVE  \E m \in DOMAIN capture.pages : \E x \in DOMAIN capture.pages[m].items :
               capture.pages[m].items[x] = z
  BY DEF PageItems, Range
<1>6. PICK m \in DOMAIN capture.pages : \E x \in DOMAIN capture.pages[m].items :
        capture.pages[m].items[x] = items[i]
  BY <1>4, <1>5
<1>7. PICK k \in DOMAIN capture.pages : \E y \in DOMAIN capture.pages[k].items :
        capture.pages[k].items[y] = items[j]
  BY <1>4, <1>5
<1> QED BY <1>3, <1>6, <1>7 DEF Conflict

\* The facts of a capture contradict each other only when reviews do.
LEMMA FactsContradict ==
  ASSUME CaptureInv, NEW listing,
         NEW c \in build(capture, listing).codes \cap BrokenCodes
  PROVE  Conflict
<1> DEFINE facts == build(capture, listing)
           items == Items(capture.pages)
<1>1. c = "review_conflict"
  BY FactsCodes DEF FactReasons, SourceReasons, ReviewReasons, BrokenCodes
<1>2. c \in facts.agg.codes
  <2>1. facts.codes \subseteq load_sources(capture, listing).codes \cup facts.agg.codes
                      \cup {"review_capture_incomplete", "gate_source_unrecognized"}
    BY DEF build
  <2> QED BY <1>1, <2>1, SourcesCodes DEF SourceReasons
<1>3. facts.agg = aggregate(items)
  <2>1. facts.agg = aggregate(items) \/ facts.agg = NoAggregation
    BY DEF build
  <2> QED BY <1>2, <2>1 DEF NoAggregation
<1>4. c \in UnusableCodes(items)
  <2> DEFINE submitted == {items[i] : i \in {j \in DOMAIN items : items[j].state # "PENDING"}}
             accounts  == {r.user : r \in submitted} \ {Nothing}
             states    == [u \in accounts |-> reviewer_state({r \in submitted : r.user = u})]
             reviewers == IF UnusableCodes(items) # {} THEN << >> ELSE states
  <2>1. aggregate(items).codes
          = UnusableCodes(items) \cup UNION {reviewers[u].codes : u \in DOMAIN reviewers}
    BY DEF aggregate
  <2>2. ASSUME NEW own PROVE "review_conflict" \notin reviewer_state(own).codes
    BY DEF reviewer_state
  <2>3. \A u \in DOMAIN reviewers : "review_conflict" \notin reviewers[u].codes
    <3>1. CASE UnusableCodes(items) # {}
      BY <3>1
    <3>2. CASE UnusableCodes(items) = {}
      <4>1. \A u \in accounts : "review_conflict" \notin states[u].codes
        BY <2>2
      <4>2. reviewers = states /\ DOMAIN states = accounts
        BY <3>2
      <4> HIDE DEF states, accounts
      <4> QED BY <4>1, <4>2
    <3> QED BY <3>1, <3>2
  <2> HIDE DEF reviewers
  <2> QED BY <1>1, <1>2, <1>3, <2>1, <2>3
<1> QED BY <1>1, <1>4, ConflictIsCaptured

\* What the gate holds against an honest manifest: another head, or reviews that
\* contradict each other.
LEMMA HonestGateContradicted ==
  ASSUME CaptureInv, NEW commit,
         NEW p \in check(capture, WholeListing(capture), WholeEntries, commit),
         p[2] \in BrokenCodes
  PROVE  Moved(commit) \/ Conflict
<1> DEFINE listing == WholeListing(capture)
           entries == WholeEntries
           facts   == build(capture, listing)
<1>0. \A a, c : <<a, c>>[2] = c
  OBVIOUS
<1>1. p \in Judge(facts, capture, listing, entries, commit)
  BY CheckIsJudgement
<1>2. \A i \in DOMAIN entries : /\ entries[i].record \in facts.records
                                /\ entries[i].file = "read"
                                /\ entries[i].kind = entries[i].record.kind
  BY HonestEntries
<1>3. CASE p \in IntegrityCodes(entries, facts)
  <2>1. \A i \in DOMAIN entries : Refusal(entries[i]) = {}
    BY <1>2 DEF Refusal
  <2>2. p[2] \in facts.codes
          \cup {"gate_record_invalid", "gate_record_missing", "approval_self_declared_only"}
    <3>1. UNION {Refusal(entries[i]) : i \in DOMAIN entries} = {}
      BY <2>1
    <3> QED BY <1>0, <1>3, <3>1 DEF IntegrityCodes
  <2>3. p[2] \in facts.codes
    BY <2>2 DEF BrokenCodes
  <2> QED BY <2>3, FactsContradict
<1>4. CASE \E i \in Good(entries) :
             p \in RecordCodes(entries[i].record, facts, Cited(entries[i].record, capture, listing))
  <2>1. PICK i \in Good(entries) :
          p \in RecordCodes(entries[i].record, facts, Cited(entries[i].record, capture, listing))
    BY <1>4
  <2> DEFINE rec   == entries[i].record
             cited == Cited(rec, capture, listing)
             twins == {r \in facts.records : Key(r) = Key(rec)}
  <2>2. rec \in facts.records /\ rec \in twins
    BY <1>2 DEF Good
  <2>3. rec.kind = "contract_approval" => rec.commit = ConfigCommit
    BY <2>2 DEF build, Record, ContractRecord
  <2>4. p = <<"integrity", "gate_source_missing">>
    BY <2>1, <2>2, <2>3 DEF RecordCodes
  <2> QED BY <1>0, <2>4 DEF BrokenCodes
<1>5. CASE \E a, c : /\ p = <<a, c>>
                     /\ c \in SeparationCodes(facts) \cup BindingCodes(facts, commit)
                          \cup {"gate_record_missing"}
  <2>1. p[2] \in SeparationCodes(facts) \cup BindingCodes(facts, commit)
                  \cup {"gate_record_missing"}
    BY <1>0, <1>5
  <2> QED BY <2>1 DEF SeparationCodes, BindingCodes, BrokenCodes
<1>6. CASE \E c \in StalenessCodes(entries, facts, commit) : p = <<"staleness", c>>
  <2>1. p[2] \in StalenessCodes(entries, facts, commit)
    BY <1>0, <1>6
  <2>2. facts.head # Nothing /\ facts.head # commit
    BY <2>1 DEF StalenessCodes, BrokenCodes
  <2>3. facts.head = IF load_sources(capture, listing).pull /\ listing.decodes
                     THEN capture.pull.head ELSE Nothing
    BY DEF build
  <2> HIDE DEF facts
  <2> QED BY <2>2, <2>3 DEF Moved
<1> HIDE DEF facts, listing, entries
<1> QED BY <1>1, <1>3, <1>4, <1>5, <1>6 DEF Judge

(* ---------------- an honest chain on untouched artifacts ----------------- *)

LEMMA BrokenHasCode ==
  ASSUME NEW codes, link_status(codes) = "BROKEN"
  PROVE  codes \cap BrokenCodes # {}
<1> DEFINE ranks == {Rank(c) : c \in codes}
<1>1. ranks # {}
  <2> SUFFICES ASSUME ranks = {} PROVE FALSE
    OBVIOUS
  <2>1. Worst(ranks) = 0
    BY DEF Worst
  <2> QED BY <2>1 DEF link_status, StatusOf
<1>2. ranks \in SUBSET (0..3)
  BY DEF Rank
<1>3. Worst(ranks) \in ranks
  <2> HIDE DEF ranks
  <2> QED BY <1>1, <1>2, WorstIsMaximum
<1>4. Worst(ranks) = 3
  <2>1. Worst(ranks) \in 0..3
    BY <1>2, <1>3
  <2> QED BY <2>1 DEF link_status, StatusOf
<1> QED BY <1>3, <1>4 DEF Rank

LEMMA BrokenHasLink ==
  ASSUME NEW statuses, DOMAIN statuses = LINKS, compose(statuses) = "BROKEN"
  PROVE  \E l \in LINKS : statuses[l] = "BROKEN"
<1> DEFINE ranks == {StatusRank(statuses[l]) : l \in LINKS \cap DOMAIN statuses} \cup {}
<1>1. compose(statuses) = StatusOf(Worst(ranks), "COMPLETE")
  BY DEF compose
<1>2. ranks \in SUBSET (0..3) /\ ranks # {}
  BY DEF StatusRank, LINKS
<1>3. Worst(ranks) \in ranks
  <2> HIDE DEF ranks
  <2> QED BY <1>2, WorstIsMaximum
<1>4. Worst(ranks) = 3
  <2>1. Worst(ranks) \in 0..3
    BY <1>2, <1>3
  <2> QED BY <1>1, <2>1 DEF StatusOf
<1> QED BY <1>3, <1>4 DEF StatusRank

Honest == changes = 0 /\ world = HonestWorld /\ manifest = HonestManifest(manifest.head)

\* As long as nobody touches the artifacts of an honest chain, only the gate's
\* check can leave a code that breaks it.
HonestInv ==
  /\ step <= 1 => \A l \in LINKS : results[l].codes = {}
  /\ Honest =>
       /\ step >= 2 => report = "named" /\ results.verification.codes = {}
       /\ \A l \in LINKS \ {"gate"} : results[l].codes \cap BrokenCodes = {}
       /\ results.gate.codes \subseteq check_gate

LEMMA HonestFields ==
  ASSUME Honest
  PROVE  /\ ~manifest.errors /\ manifest.tools /\ manifest.findings = "named"
         /\ manifest.subject = "same" /\ manifest.trust = "same" /\ manifest.payload = "same"
         /\ manifest.shape = "valid" /\ manifest.repository = "same"
         /\ manifest.listing = WholeListing(capture) /\ manifest.entries = WholeEntries
<1>1. manifest = HonestManifest(manifest.head)
  BY DEF Honest
<1> QED BY <1>1 DEF HonestManifest, Manifest, HonestContents

LEMMA HonestWorldFields ==
  ASSUME Honest
  PROVE  /\ world.repo = "there" /\ world.ancestry = "linear" /\ world.blob = "named"
         /\ world.review = "named" /\ world.verification = "named" /\ world.store = "named"
         /\ world.recompute = "same"
BY DEF Honest, HonestWorld

LEMMA HonestLinks ==
  ASSUME Honest, report = "named", results.verification.codes = {}, NEW l \in LINKS \ {"gate"}
  PROVE  /\ LinkCodes(l) \cap BrokenCodes = {}
         /\ l = "verification" => LinkCodes(l) = {}
<1>1. report # Nothing
  BY ChainAssumption
<1>2. ReportAgrees("subject") /\ ReportAgrees("trust") /\ ReportAgrees("payload")
  BY HonestFields DEF ReportAgrees
<1>3. check_subject = {}
  BY <1>2, HonestWorldFields DEF check_subject
<1>4. check_contract = {}
  BY <1>2, HonestWorldFields DEF check_contract
<1>5. check_review = {}
  BY HonestFields, HonestWorldFields DEF check_review, review_contents
<1>6. check_verification = {}
  <2>1. recompute = "same"
    BY HonestWorldFields DEF recompute
  <2> QED BY <1>2, <2>1, HonestWorldFields DEF check_verification
<1>7. check_github \cap BrokenCodes = {}
  <2>1. manifest.listing.revision
    BY HonestFields DEF WholeListing
  <2>2. check_github \subseteq {"capture_incomplete", "integrity_not_pass"}
    BY <2>1, HonestFields, HonestWorldFields DEF check_github
  <2> QED BY <2>2 DEF BrokenCodes
<1> QED BY <1>3, <1>4, <1>5, <1>6, <1>7 DEF LinkCodes, LINKS

LEMMA HonestReport ==
  ASSUME Honest
  PROVE  ReportLoaded /\ ReportCodes = {}
BY HonestFields, HonestWorldFields DEF ReportLoaded, ReportCodes

LEMMA HonestStays ==
  ASSUME UNCHANGED <<capture, manifest, world, changes>>
  PROVE  Honest' = Honest /\ check_gate' = check_gate
<1>1. Honest' = Honest
  BY DEF Honest, HonestManifest, WholeEntries
<1>2. GateListing' = GateListing
  BY DEF GateListing
<1>3. GateEntries' = GateEntries
  BY DEF GateEntries
<1>4. GateCapture' = GateCapture
  BY DEF GateCapture, NamesEvidence
<1>5. check_gate' = check_gate
  BY <1>2, <1>3, <1>4 DEF check_gate
<1> QED BY <1>1, <1>5

LEMMA HonestStep ==
  ChainInv /\ ChainTypesInv /\ HonestInv /\ [ChainNext]_vars => HonestInv'
<1> SUFFICES ASSUME ChainInv, ChainTypesInv, HonestInv, [ChainNext]_vars PROVE HonestInv'
  OBVIOUS
<1>0. /\ step \in 0..8 /\ changes \in Nat
      /\ results = [l \in LINKS |-> results[l]]
  BY ChainAssumption DEF ChainInv, ChainTypesInv
<1>1. ASSUME step \in {0, 1}, step' \in {0, 1}, results' = results PROVE HonestInv'
  BY <1>0, <1>1 DEF HonestInv, LINKS
<1>2. CASE PRNext /\ step = 0 /\ UNCHANGED chainVars
  BY <1>1, <1>2 DEF chainVars
<1>3. ASSUME NEW commit \in Range(Commits), WriteSome(commit) PROVE HonestInv'
  BY <1>1, <1>3 DEF WriteSome, Write
<1>4. CASE LoadReport
  <2>1. /\ step = 1 /\ step' = 2 /\ UNCHANGED <<prVars, manifest, world, changes>>
        /\ capture' = capture
    BY <1>4 DEF LoadReport, prVars
  <2>2. /\ results'.verification = Result(TRUE, ReportCodes)
        /\ \A l \in LINKS : l # "verification" => results'[l] = results[l]
        /\ "gate" \in LINKS /\ "verification" \in LINKS
    BY <1>0, <1>4 DEF LoadReport, LINKS
  <2>3. ASSUME Honest
        PROVE  /\ report' = "named" /\ results'.verification.codes = {}
               /\ \A l \in LINKS : results'[l].codes = {}
    <3>1. ReportLoaded /\ ReportCodes = {} /\ world.verification = "named"
      BY <2>3, HonestReport, HonestWorldFields
    <3>2. \A l \in LINKS : results[l].codes = {}
      BY <2>1 DEF HonestInv
    <3>3. report' = "named"
      BY <1>4, <3>1 DEF LoadReport
    <3>4. results'.verification.codes = {}
      BY <2>2, <3>1 DEF Result
    <3>5. ASSUME NEW l \in LINKS PROVE results'[l].codes = {}
      BY <2>2, <3>2, <3>4
    <3> QED BY <3>3, <3>4, <3>5
  <2>4. Honest' = Honest
    BY <2>1, HonestStays
  <2>5. ASSUME Honest'
        PROVE  /\ report' = "named" /\ results'.verification.codes = {}
               /\ \A l \in LINKS : results'[l].codes = {}
    BY <2>3, <2>4, <2>5
  <2>6. ~(step' <= 1)
    BY <2>1
  <2> QED BY <2>2, <2>5, <2>6 DEF HonestInv
<1>5. ASSUME NEW i \in 1..Len(Order), Check(i) PROVE HonestInv'
  <2>1. /\ step = i + 1 /\ step' = i + 2 /\ i \in 1..6 /\ Order[i] \in LINKS
        /\ UNCHANGED <<prVars, manifest, world, changes, report>> /\ capture' = capture
    BY <1>5, LinkNames DEF Check, prVars
  <2> DEFINE link == Order[i]
  <2>2. /\ results'[link] = Result(Present(link), IF Present(link) THEN LinkCodes(link) ELSE {})
        /\ \A l \in LINKS : l # link => results'[l] = results[l]
    BY <1>0, <1>5, <2>1 DEF Check
  <2>3. Honest' = Honest /\ check_gate' = check_gate
    BY <2>1, HonestStays
  <2>4. results'[link].codes \subseteq LinkCodes(link)
    BY <2>2 DEF Result
  <2>5. ASSUME Honest
        PROVE  /\ report' = "named" /\ results'.verification.codes = {}
               /\ \A l \in LINKS \ {"gate"} : results'[l].codes \cap BrokenCodes = {}
               /\ results'.gate.codes \subseteq check_gate
    <3>1. /\ report = "named" /\ results.verification.codes = {}
          /\ \A l \in LINKS \ {"gate"} : results[l].codes \cap BrokenCodes = {}
          /\ results.gate.codes \subseteq check_gate
      BY <2>1, <2>5 DEF HonestInv
    <3>2. ASSUME NEW l \in LINKS \ {"gate"}
          PROVE  /\ results'[l].codes \cap BrokenCodes = {}
                 /\ l = "verification" => results'[l].codes = {}
      <4>1. CASE l = link
        <5>1. LinkCodes(l) \cap BrokenCodes = {} /\ (l = "verification" => LinkCodes(l) = {})
          BY <2>5, <3>1, HonestLinks
        <5> HIDE DEF link
        <5> QED BY <2>4, <4>1, <5>1
      <4>2. CASE l # link
        BY <2>2, <3>1, <4>2
      <4> QED BY <4>1, <4>2
    <3>3. results'.gate.codes \subseteq check_gate
      <4>1. CASE link = "gate"
        BY <2>4, <4>1 DEF LinkCodes
      <4>2. CASE link # "gate"
        BY <2>2, <3>1, <4>2 DEF LINKS
      <4> QED BY <4>1, <4>2
    <3>4. results'.verification.codes = {}
      BY <3>2 DEF LINKS
    <3> QED BY <2>1, <3>1, <3>2, <3>3, <3>4
  <2>6. ~(step' <= 1)
    BY <2>1
  <2> HIDE DEF link
  <2> QED BY <2>3, <2>5, <2>6 DEF HonestInv
<1>6. CASE ReplaceSome
  <2>1. step' = step /\ changes' = changes + 1 /\ results' = results
    BY <1>6 DEF ReplaceSome, Replace
  <2>2. ~Honest'
    BY <1>0, <2>1 DEF Honest
  <2> QED BY <2>1, <2>2 DEF HonestInv
<1>7. CASE UNCHANGED vars
  <2>1. /\ UNCHANGED <<step, manifest, world, changes, report, results>> /\ capture' = capture
    BY <1>7 DEF vars, chainVars, prVars
  <2>2. Honest' = Honest /\ check_gate' = check_gate
    BY <2>1, HonestStays
  <2> QED BY <2>1, <2>2 DEF HonestInv
<1> QED BY <1>2, <1>3, <1>4, <1>5, <1>6, <1>7 DEF ChainNext

\* An honest chain that nobody touched is broken only by what contradicts it.
LEMMA HonestChainContradicted ==
  ASSUME ChainInv, ApprovalInv, HonestInv, Done, Honest, chain_status = "BROKEN"
  PROVE  Moved(manifest.head) \/ Conflict
<1>1. step = 8
  BY LinkNames DEF Done
<1>2. PICK l \in LINKS : status(l) = "BROKEN"
  <2> DEFINE s == [l \in LINKS |-> status(l)]
  <2>1. DOMAIN s = LINKS /\ compose(s) = "BROKEN"
    BY DEF chain_status
  <2>2. PICK l \in LINKS : s[l] = "BROKEN"
    <3> HIDE DEF s
    <3> QED BY <2>1, BrokenHasLink
  <2> QED BY <2>2
<1>3. results[l].codes \cap BrokenCodes # {}
  BY <1>2, BrokenHasCode DEF status
<1>4. l = "gate"
  BY <1>3 DEF HonestInv
<1>5. PICK c \in check_gate : c \in BrokenCodes
  BY <1>3, <1>4 DEF HonestInv
<1>6. /\ manifest.listing = WholeListing(capture) /\ manifest.entries = WholeEntries
      /\ world.store = "named"
  BY HonestFields, HonestWorldFields
<1>7. GateListing = WholeListing(capture) /\ GateEntries = WholeEntries
  BY <1>6 DEF GateListing, GateEntries
<1>8. GateCapture = capture
  BY <1>6 DEF GateCapture, NamesEvidence, WholeListing
<1>9. c \in Codes(check(capture, WholeListing(capture), WholeEntries, manifest.head))
  <2>1. c # "gate_record_missing"
    BY <1>5 DEF BrokenCodes
  <2> QED BY <1>5, <1>7, <1>8, <2>1 DEF check_gate
<1>10. PICK p \in check(capture, WholeListing(capture), WholeEntries, manifest.head) : p[2] = c
  BY <1>9 DEF Codes
<1>11. CaptureInv
  BY DEF ApprovalInv, PRInv
<1> QED BY <1>5, <1>10, <1>11, HonestGateContradicted

\* An honest chain that nobody touched is BROKEN only if the pull request moved or
\* its reviews changed between two pages: never because the evidence is
\* inconclusive (status.py, gate.py).
THEOREM ContradictionHolds == Spec => []BrokenIsContradicted
<1>1. ChainInit => HonestInv
  BY DEF ChainInit, HonestInv, Unchecked, Result, LINKS
<1>2. ChainInit => ChainTypesInv
  BY ChainAssumption DEF ChainInit, ChainTypesInv, Unchecked, Result
<1>3. ChainInv /\ ApprovalInv /\ HonestInv => BrokenIsContradicted
  BY HonestChainContradicted DEF BrokenIsContradicted, Honest, Moved, Conflict
<1> QED BY <1>1, <1>2, <1>3, ChainTypesStep, HonestStep, ChainInvHolds, ApprovalInvHolds, PTL
        DEF Spec

================================================================================
