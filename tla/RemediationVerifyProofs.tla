---------------------- MODULE RemediationVerifyProofs ----------------------
(***************************************************************************)
(* Proofs about RemediationVerify, for every repository, contract, profile *)
(* and set of Templates, any number of edits and branch moves.             *)
(***************************************************************************)
EXTENDS RemediationVerify, FiniteSetTheorems, WellFoundedInduction, TLAPS

-----------------------------------------------------------------------------
\* Trust is established before anything can be VERIFIED or BLOCKED.

BeforeTrust == {"load", "base", "head"}
AfterTrust == {"list", "hash", "hash others", "compare", "check"}

\* The contract is the one of the resolved commit.
ContractBound ==
    /\ configCommit \in Commits
    /\ contract = Scope[Tree[configCommit][ContractPath].oid]

Trusted ==
    /\ <<baseCommit, headCommit>> \in Ancestors
    /\ Approved => <<configCommit, baseCommit>> \in Ancestors

\* The inductive invariant: what is already known of the trust at each place
\* of run(), and that nothing is decided, nor any code recorded, before.
TrustInv ==
    /\ refs \in [Revs -> Commits \cup {NoCommit}]
    /\ at \in BeforeTrust \cup AfterTrust \cup {"done"}
    /\ at \in BeforeTrust => codes = {}
    /\ at # "done" => decision = None
    /\ at \in {"base", "head"} \cup AfterTrust => (Approved => ContractBound)
    /\ at \in AfterTrust => Trusted
    /\ TrustComesFirst

\* A draft is never VERIFIED or BLOCKED, whatever was found (decide.cap_for_draft).
LEMMA DraftIsCapped ==
    ASSUME NEW found, Conclude(found), ~ Approved
    PROVE  decision' \notin {"VERIFIED", "BLOCKED"}
<1>1. CASE DecisionOf(codes \cup found) = "ERROR"
  BY <1>1 DEF Conclude
<1>2. CASE DecisionOf(codes \cup found) # "ERROR"
  BY <1>2 DEF Conclude, CapForDraft
<1> QED BY <1>1, <1>2

\* Losing the trust ends in UNVERIFIED, an unreadable revision in ERROR.
LEMMA EarlyEnd ==
    ASSUME NEW found, Conclude(found), codes = {},
           found \in {{"revision_not_found"}, {"contract_not_found"}, {"contract_invalid"},
                      {"config_not_ancestor_of_base"}, {"base_not_ancestor_of_head"},
                      {"config_not_ancestor_of_base", "base_not_ancestor_of_head"}}
    PROVE  decision' \notin {"VERIFIED", "BLOCKED"}
<1>1. codes \cup found = found
  OBVIOUS
<1>2. DecisionOf(found) \in {"ERROR", "UNVERIFIED"}
  BY DEF DecisionOf, ErrorCodes, BlockedCodes
<1>3. CASE Approved
  BY <1>1, <1>2, <1>3 DEF Conclude
<1>4. CASE ~ Approved
  BY <1>4, DraftIsCapped
<1> QED BY <1>3, <1>4

\* A step that concludes under trust keeps TrustComesFirst.
LEMMA LateEnd ==
    ASSUME NEW found, Conclude(found), TrustInv, at \in AfterTrust, UNCHANGED <<request, bound>>
    PROVE  TrustComesFirst'
<1>1. CASE Approved
  BY <1>1 DEF TrustInv, AfterTrust, TrustComesFirst, Trusted, ContractBound, Approved, bound
<1>2. CASE ~ Approved
  BY <1>2, DraftIsCapped DEF TrustComesFirst
<1> QED BY <1>1, <1>2

\* A step inside the pipeline, after trust.
LEMMA LateStep ==
    ASSUME TrustInv, at \in AfterTrust, UNCHANGED <<refs, request, bound>>,
           \/ at' \in AfterTrust /\ UNCHANGED decision
           \/ \E found : Conclude(found)
    PROVE  TrustInv'
<1>1. CASE at' \in AfterTrust /\ UNCHANGED decision
  <2>1. decision' = None
    BY <1>1 DEF TrustInv, AfterTrust
  <2>2. TrustComesFirst'
    BY <2>1, RemediationAssumption DEF TrustComesFirst, Decisions
  <2> QED BY <1>1, <2>1, <2>2
    DEF TrustInv, BeforeTrust, AfterTrust, Trusted, ContractBound, Approved, bound
<1>2. CASE \E found : Conclude(found)
  <2>1. PICK found : Conclude(found)
    BY <1>2
  <2>2. TrustComesFirst'
    BY <2>1, LateEnd
  <2>3. at' = "done"
    BY <2>1 DEF Conclude
  <2> QED BY <2>2, <2>3 DEF TrustInv, BeforeTrust, AfterTrust
<1> QED BY <1>1, <1>2

LEMMA TrustInit == Init => TrustInv
<1> SUFFICES ASSUME Init PROVE TrustInv
  OBVIOUS
<1>1. PICK s \in Starts : refs = s.refs
  BY DEF Init
<1>2. refs \in [Revs -> Commits \cup {NoCommit}]
  BY <1>1, RemediationAssumption
<1>3. TrustComesFirst
  BY RemediationAssumption DEF Init, TrustComesFirst, Decisions
<1> QED BY <1>2, <1>3 DEF Init, TrustInv, BeforeTrust, AfterTrust

LEMMA LoadKeepsTrust == TrustInv /\ LoadContract => TrustInv'
<1> SUFFICES ASSUME TrustInv, LoadContract PROVE TrustInv'
  OBVIOUS
<1>0. /\ codes = {} /\ at = "load" /\ refs' = refs /\ request' = request
      /\ decision = None /\ refs["config"] \in Commits \cup {NoCommit}
  BY DEF LoadContract, TrustInv, BeforeTrust, Revs, env
<1>1. CASE \E found \in {{"revision_not_found"}, {"contract_not_found"}, {"contract_invalid"}} :
              Conclude(found)
  <2>1. decision' \notin {"VERIFIED", "BLOCKED"}
    BY <1>0, <1>1, EarlyEnd
  <2> QED BY <1>0, <1>1, <2>1
    DEF TrustInv, BeforeTrust, AfterTrust, Conclude, TrustComesFirst
<1>2. CASE /\ configCommit' = (IF Approved THEN refs["config"] ELSE None)
           /\ ~ (Approved /\ refs["config"] = NoCommit)
           /\ \E bytes \in ContractBytes \cap DOMAIN Scope : contract' = Scope[bytes]
           /\ Continue("base", {})
  <2>1. (Approved => ContractBound)'
    <3> SUFFICES ASSUME Approved' PROVE ContractBound'
      OBVIOUS
    <3>1. Approved /\ configCommit' = refs["config"] /\ refs["config"] \in Commits
      BY <1>0, <1>2 DEF Approved
    <3>2. contract' = Scope[Tree[refs["config"]][ContractPath].oid]
      BY <1>2, <3>1 DEF ContractBytes
    <3> QED BY <3>1, <3>2 DEF ContractBound
  <2>2. at' = "base" /\ codes' = {} /\ decision' = None
    BY <1>0, <1>2 DEF Continue
  <2>3. TrustComesFirst'
    BY <2>2, RemediationAssumption DEF TrustComesFirst, Decisions
  <2> QED BY <1>0, <2>1, <2>2, <2>3 DEF TrustInv, BeforeTrust, AfterTrust
<1>3. CASE Approved /\ refs["config"] = NoCommit
  BY <1>1, <1>3 DEF LoadContract
<1>4. CASE ~ (Approved /\ refs["config"] = NoCommit)
  BY <1>1, <1>2, <1>4 DEF LoadContract
<1> QED BY <1>3, <1>4

LEMMA ResolveBaseKeepsTrust == TrustInv /\ ResolveBase => TrustInv'
<1> SUFFICES ASSUME TrustInv, ResolveBase PROVE TrustInv'
  OBVIOUS
<1>0. /\ codes = {} /\ at = "base" /\ refs' = refs /\ decision = None
      /\ UNCHANGED <<request, contract, configCommit>> /\ (Approved => ContractBound)
  BY DEF ResolveBase, TrustInv, BeforeTrust, AfterTrust, env
<1>1. CASE Conclude({"revision_not_found"})
  <2>1. decision' \notin {"VERIFIED", "BLOCKED"}
    BY <1>0, <1>1, EarlyEnd
  <2> QED BY <1>0, <1>1, <2>1
    DEF TrustInv, BeforeTrust, AfterTrust, Conclude, TrustComesFirst
<1>2. CASE Continue("head", {})
  <2>1. at' = "head" /\ codes' = {} /\ decision' = None
    BY <1>0, <1>2 DEF Continue
  <2>2. TrustComesFirst'
    BY <2>1, RemediationAssumption DEF TrustComesFirst, Decisions
  <2> QED BY <1>0, <2>1, <2>2
    DEF TrustInv, BeforeTrust, AfterTrust, Approved, ContractBound
<1> QED BY <1>1, <1>2 DEF ResolveBase

LEMMA ResolveHeadKeepsTrust == TrustInv /\ ResolveHead => TrustInv'
<1> SUFFICES ASSUME TrustInv, ResolveHead PROVE TrustInv'
  OBVIOUS
<1> DEFINE distrust == TrustCodes(configCommit, baseCommit, refs["head"])
<1>0. /\ codes = {} /\ at = "head" /\ refs' = refs /\ decision = None
      /\ UNCHANGED <<request, contract, configCommit, baseCommit>>
      /\ (Approved => ContractBound)
  BY DEF ResolveHead, TrustInv, BeforeTrust, AfterTrust, env
<1>1. CASE \E found \in {{"revision_not_found"}, {"config_not_ancestor_of_base"},
                         {"base_not_ancestor_of_head"},
                         {"config_not_ancestor_of_base", "base_not_ancestor_of_head"}} :
              Conclude(found)
  <2>1. decision' \notin {"VERIFIED", "BLOCKED"}
    BY <1>0, <1>1, EarlyEnd
  <2> QED BY <1>0, <1>1, <2>1
    DEF TrustInv, BeforeTrust, AfterTrust, Conclude, TrustComesFirst
<1>2. CASE /\ distrust = {} /\ headCommit' = refs["head"]
           /\ Continue("list", {}) \/ Continue("compare", {})
  <2>1. at' \in AfterTrust /\ codes' = {} /\ decision' = None
    BY <1>0, <1>2 DEF Continue, AfterTrust
  <2>2. TrustComesFirst'
    BY <2>1, RemediationAssumption DEF TrustComesFirst, Decisions
  <2>3. Trusted'
    <3>1. <<baseCommit, refs["head"]>> \in Ancestors
      BY <1>2 DEF TrustCodes
    <3>2. Approved => <<configCommit, baseCommit>> \in Ancestors
      <4> SUFFICES ASSUME Approved PROVE <<configCommit, baseCommit>> \in Ancestors
        OBVIOUS
      <4>1. configCommit # None
        BY <1>0, RemediationAssumption DEF ContractBound
      <4> QED BY <1>2, <4>1 DEF TrustCodes
    <3> QED BY <1>0, <1>2, <3>1, <3>2 DEF Trusted, Approved
  <2> QED BY <1>0, <2>1, <2>2, <2>3
    DEF TrustInv, BeforeTrust, AfterTrust, Approved, ContractBound
<1>3. distrust = {} \/ distrust \in {{"config_not_ancestor_of_base"}, {"base_not_ancestor_of_head"},
                         {"config_not_ancestor_of_base", "base_not_ancestor_of_head"}}
  BY DEF TrustCodes
<1> QED BY <1>1, <1>2, <1>3 DEF ResolveHead

LEMMA TrustStep == TrustInv /\ [Next]_vars => TrustInv'
<1> SUFFICES ASSUME TrustInv, [Next]_vars PROVE TrustInv'
  OBVIOUS
<1>1. CASE LoadContract
  BY <1>1, LoadKeepsTrust
<1>2. CASE ResolveBase
  BY <1>2, ResolveBaseKeepsTrust
<1>3. CASE ResolveHead
  BY <1>3, ResolveHeadKeepsTrust
<1>4. CASE ListIndex \/ HashNext \/ ListOthers
  BY <1>4, LateStep DEF ListIndex, HashNext, ListOthers, Continue, AfterTrust, env, bound
<1>5. CASE TornRead
  BY <1>5, LateStep DEF TornRead, AfterTrust, bound
<1>6. CASE SnapshotDone
  BY <1>6, LateStep DEF SnapshotDone, Continue, AfterTrust, env, bound
<1>7. CASE Compare
  <2>1. (at' = "check" /\ UNCHANGED decision) \/ \E found : Conclude(found)
    BY <1>7 DEF Compare, CompareWorktree, CompareWith, Continue
  <2> QED BY <1>7, <2>1, LateStep DEF Compare, AfterTrust, env, bound
<1>8. CASE Check
  <2>1. (at' = "list" /\ UNCHANGED decision) \/ \E found : Conclude(found)
    BY <1>8 DEF Check, RunChecks, Continue
  <2> QED BY <1>8, <2>1, LateStep DEF Check, AfterTrust, env, bound
<1>9. CASE MoveBranch
  <2>1. refs' \in [Revs -> Commits \cup {NoCommit}]
    BY <1>9, RemediationAssumption DEF MoveBranch, TrustInv
  <2> QED BY <1>9, <2>1
    DEF MoveBranch, TrustInv, Trusted, ContractBound, Approved, TrustComesFirst, bound
<1>10. CASE \E p \in PathSet : WriteFile(p) \/ RemoveFile(p) \/ ChangeIndex(p)
  BY <1>10 DEF WriteFile, RemoveFile, ChangeIndex, Edit, TrustInv, Trusted,
               ContractBound, Approved, TrustComesFirst, bound
<1>11. CASE UNCHANGED vars
  BY <1>11 DEF vars, env, bound, TrustInv, Trusted, ContractBound, Approved, TrustComesFirst
<1> QED BY <1>1, <1>2, <1>3, <1>4, <1>5, <1>6, <1>7, <1>8, <1>9, <1>10, <1>11
  DEF Next, Finished

\* A VERIFIED or BLOCKED decision is only made under a contract read from the
\* trusted commit, an ancestor of the Base, itself an ancestor of the Head.
THEOREM TrustHolds == Spec => []TrustComesFirst
<1>1. TrustInv => TrustComesFirst
  BY DEF TrustInv
<1> QED BY <1>1, TrustInit, TrustStep, PTL DEF Spec

-----------------------------------------------------------------------------
\* A comparison without a boundary code leaves the contract's edits only.

\* The codes after which outside-allowed-edits-unchanged does not pass.
BoundaryCodes ==
    (BlockedCodes \ {"outcome_not_achieved", "invariant_violated", "check_failed"})
    \cup {"comparison_incomplete", "unsupported_construct", "template_not_comparable"}

\* A change of a whole Resource, or outside the Resources, always has a code.
LEMMA ShortPathHasCode ==
    ASSUME NEW scope, NEW b, NEW h, NEW change,
           change.path \in {<<"Description">>, <<"Transform">>}
               \cup {<<"Resources", x>> : x \in {Canon[id] : id \in LogicalIds}}
    PROVE  ChangeCodes(scope, change, b, h) \cap BoundaryCodes # {}
<1>1. CASE Len(change.path) = 1
  BY <1>1 DEF ChangeCodes, Ambiguous, InTarget, BoundaryCodes, BlockedCodes
<1>2. CASE Len(change.path) = 2
  BY <1>2 DEF ChangeCodes, ResourceCode, BoundaryCodes, BlockedCodes
<1> QED BY <1>1, <1>2

\* So has a change of an attribute of a Resource, or of its Properties as a whole.
LEMMA InsideHasCode ==
    ASSUME NEW scope, NEW b, NEW h, NEW change, NEW id \in LogicalIds, NEW x,
           change.path = <<"Resources", Canon[id], x>>
    PROVE  ChangeCodes(scope, change, b, h) \cap BoundaryCodes # {}
<1>1. Len(change.path) = 3 /\ change.path[3] = x
  OBVIOUS
<1>2. TargetCodes(scope, change, b, h) \cap BoundaryCodes # {}
  BY <1>1 DEF TargetCodes, BoundaryCodes, BlockedCodes
<1> QED BY <1>1, <1>2 DEF ChangeCodes, BoundaryCodes, BlockedCodes

\* A change of one property has a code, unless it is listed by the contract, in
\* its Resource, with the operation that changed it.
LEMMA PropertyIsAllowed ==
    ASSUME NEW scope, NEW b, NEW h, NEW change, NEW p,
           NEW id \in Keys(b.resources, h.resources),
           change.path = <<"Resources", Canon[id], "Properties", p>>,
           ChangeCodes(scope, change, b, h) \cap BoundaryCodes = {}
    PROVE  /\ id = scope.resource
           /\ p \in DOMAIN scope.edits
           /\ Operation(scope, b, h, p) \in scope.edits[p]
<1>1. /\ Len(change.path) = 4 /\ change.path[2] = Canon[id]
      /\ change.path[3] = "Properties" /\ change.path[4] = p
  OBVIOUS
<1>2. ~ Ambiguous(change, b, h) /\ InTarget(scope, change, b, h)
  BY <1>1 DEF ChangeCodes, BoundaryCodes, BlockedCodes
<1>3. id = scope.resource
  BY <1>1, <1>2 DEF InTarget, Spellings
<1>4. TargetCodes(scope, change, b, h) \cap BoundaryCodes = {}
  BY <1>1, <1>2 DEF ChangeCodes
<1>5. p \in DOMAIN scope.edits /\ Operation(scope, b, h, p) \in scope.edits[p]
  BY <1>1, <1>4 DEF TargetCodes, BoundaryCodes, BlockedCodes
<1> QED BY <1>3, <1>5

\* A change that is listed has no code of the boundary.
LEMMA ChangeIsClean ==
    ASSUME NEW scope, NEW b, NEW h, TemplateCodes(scope, b, h) \cap BoundaryCodes = {}
    PROVE  \A change \in Changes(b, h) :
               ChangeCodes(scope, change, b, h) \cap BoundaryCodes = {}
BY DEF TemplateCodes

\* The two Templates have the same Resources, of the same Types.
LEMMA SameResources ==
    ASSUME NEW scope, NEW b, NEW h, IsTemplate(b), IsTemplate(h),
           TemplateCodes(scope, b, h) \cap BoundaryCodes = {}
    PROVE  /\ DOMAIN h.resources = DOMAIN b.resources
           /\ Paired(b, h) = DOMAIN b.resources
<1>1. ASSUME NEW id \in Keys(b.resources, h.resources), id \notin Paired(b, h)
      PROVE  FALSE
  <2> DEFINE change == Entry(<<"Resources", Canon[id]>>, Kind(b.resources, h.resources, id),
                             id \in DOMAIN b.resources \cap DOMAIN h.resources, FALSE)
  <2>1. change \in Changes(b, h)
    BY <1>1 DEF Changes, WholeResourceChanges
  <2>2. change.path = <<"Resources", Canon[id]>> /\ id \in LogicalIds
    BY <1>1 DEF Entry, IsTemplate, Keys
  <2>3. ChangeCodes(scope, change, b, h) \cap BoundaryCodes # {}
    <3> HIDE DEF change
    <3> QED BY <2>2, ShortPathHasCode
  <2> QED BY <2>1, <2>3, ChangeIsClean
<1> QED BY <1>1 DEF Keys, Paired

\* The rest of the Template is the same.
LEMMA SameSections ==
    ASSUME NEW scope, NEW b, NEW h, TemplateCodes(scope, b, h) \cap BoundaryCodes = {},
           b.transform \in BOOLEAN, h.transform \in BOOLEAN
    PROVE  h.other = b.other /\ h.transform = b.transform
<1>1. ~ Uncompared(b, h)
  BY DEF TemplateCodes, BoundaryCodes
<1>2. ASSUME b.other # h.other PROVE FALSE
  <2> DEFINE change == Entry(<<"Description">>, "modified", FALSE, FALSE)
  <2>1. change \in Changes(b, h)
    BY <1>1, <1>2 DEF Changes, SectionChanges, Uncompared
  <2>2. change.path = <<"Description">>
    BY DEF Entry
  <2>3. ChangeCodes(scope, change, b, h) \cap BoundaryCodes # {}
    <3> HIDE DEF change
    <3> QED BY <2>2, ShortPathHasCode
  <2> QED BY <2>1, <2>3, ChangeIsClean
<1>3. ~ TransformNotExpanded(b, h)
  BY DEF TemplateCodes, BoundaryCodes
<1> QED BY <1>2, <1>3 DEF TransformNotExpanded

\* A difference inside a Resource is one the contract lists.
LEMMA PairedDifference ==
    ASSUME NEW scope, NEW b, NEW h, IsTemplate(b), IsTemplate(h),
           TemplateCodes(scope, b, h) \cap BoundaryCodes = {},
           NEW id \in Paired(b, h),
           NEW br, br = b.resources[id], br \in Resource,
           NEW hr, hr = h.resources[id], hr \in Resource
    PROVE  /\ hr.attributes = br.attributes
           /\ hr.hasProperties = br.hasProperties
           /\ \A p \in Keys(br.properties, hr.properties) :
                Differ(br.properties, hr.properties, p) =>
                    /\ id = scope.resource
                    /\ p \in DOMAIN scope.edits
                    /\ Operation(scope, b, h, p) \in scope.edits[p]
<1>1. /\ \A p \in PropertyKeys(br, hr) : Comparable(br.properties, hr.properties, p)
      /\ \A a \in Keys(br.attributes, hr.attributes) :
            Comparable(br.attributes, hr.attributes, a)
  BY DEF TemplateCodes, BoundaryCodes, Uncompared
<1>2. \A change \in PairedChanges(br, hr, id) :
          ChangeCodes(scope, change, b, h) \cap BoundaryCodes = {}
  BY ChangeIsClean DEF Changes
<1>3. id \in Keys(b.resources, h.resources) /\ id \in LogicalIds
  BY DEF Paired, Keys, IsTemplate
<1>4. ASSUME NEW a \in Keys(br.attributes, hr.attributes),
             Differ(br.attributes, hr.attributes, a)
      PROVE  FALSE
  <2> DEFINE change == Entry(<<"Resources", Canon[id], a>>, Kind(br.attributes, hr.attributes, a),
                             FALSE, ConditionalResource(br, hr))
  <2>1. change \in PairedChanges(br, hr, id)
    BY <1>1, <1>4 DEF PairedChanges
  <2>2. change.path = <<"Resources", Canon[id], a>>
    BY DEF Entry
  <2> HIDE DEF change
  <2> QED BY <1>2, <1>3, <2>1, <2>2, InsideHasCode
<1>5. ASSUME br.hasProperties # hr.hasProperties PROVE FALSE
  <2> DEFINE change == Entry(<<"Resources", Canon[id], "Properties">>,
                             IF hr.hasProperties THEN "added" ELSE "removed",
                             FALSE, ConditionalResource(br, hr))
  <2>1. change \in PairedChanges(br, hr, id)
    BY <1>5 DEF PairedChanges
  <2>2. change.path = <<"Resources", Canon[id], "Properties">>
    BY DEF Entry
  <2> HIDE DEF change
  <2> QED BY <1>2, <1>3, <2>1, <2>2, InsideHasCode
<1>6. ASSUME NEW p \in Keys(br.properties, hr.properties),
             Differ(br.properties, hr.properties, p)
      PROVE  /\ id = scope.resource
             /\ p \in DOMAIN scope.edits
             /\ Operation(scope, b, h, p) \in scope.edits[p]
  <2> DEFINE change == Entry(<<"Resources", Canon[id], "Properties", p>>,
                             Kind(br.properties, hr.properties, p), FALSE,
                             ConditionalResource(br, hr)
                               \/ LeafQualified(br.properties, hr.properties, p))
  <2>1. p \in PropertyKeys(br, hr)
    BY <1>5, <1>6 DEF PropertyKeys, Keys, Resource
  <2>2. change \in PairedChanges(br, hr, id)
    BY <1>1, <1>6, <2>1 DEF PairedChanges
  <2>3. change.path = <<"Resources", Canon[id], "Properties", p>>
    BY DEF Entry
  <2>4. ChangeCodes(scope, change, b, h) \cap BoundaryCodes = {}
    BY <1>2, <2>2
  <2> HIDE DEF change
  <2> QED BY <1>3, <2>3, <2>4, PropertyIsAllowed
<1>7. hr.attributes = br.attributes
  <2>1. /\ br.attributes = [a \in DOMAIN br.attributes |-> br.attributes[a]]
        /\ hr.attributes = [a \in DOMAIN hr.attributes |-> hr.attributes[a]]
    BY DEF Resource, Mappings
  <2>2. DOMAIN br.attributes = DOMAIN hr.attributes
    BY <1>4 DEF Keys, Differ
  <2>3. \A a \in DOMAIN br.attributes : br.attributes[a] = hr.attributes[a]
    BY <1>4 DEF Keys, Differ
  <2> QED BY <2>1, <2>2, <2>3
<1> QED BY <1>5, <1>6, <1>7

\* The comparison, with paths that lost the spelling of names and positions
\* left out, lets no other edit through.
LEMMA NoCodeNoOtherEdit ==
    ASSUME NEW scope, NEW b, NEW h, IsTemplate(b), IsTemplate(h),
           TemplateCodes(scope, b, h) \cap BoundaryCodes = {}
    PROVE  OnlyAllowedEdits(scope, b, h)
<1>1. h.other = b.other /\ h.transform = b.transform
  BY SameSections DEF IsTemplate
<1>2. DOMAIN h.resources = DOMAIN b.resources /\ Paired(b, h) = DOMAIN b.resources
  BY SameResources
<1>3. ASSUME NEW id \in DOMAIN b.resources, h.resources[id] # b.resources[id],
             NEW br, br = b.resources[id], NEW hr, hr = h.resources[id]
      PROVE  /\ id = scope.resource
             /\ hr.type = br.type
             /\ hr.attributes = br.attributes
             /\ hr.hasProperties = br.hasProperties
             /\ \A p \in Keys(br.properties, hr.properties) :
                 Differ(br.properties, hr.properties, p) =>
                     /\ p \in DOMAIN scope.edits
                     /\ Operation(scope, b, h, p) \in scope.edits[p]
  <2>1. br \in Resource /\ hr \in Resource
    BY <1>2, <1>3 DEF IsTemplate
  <2>2. hr.type = br.type
    BY <1>2, <1>3 DEF Paired
  <2>3. /\ hr.attributes = br.attributes
        /\ hr.hasProperties = br.hasProperties
        /\ \A p \in Keys(br.properties, hr.properties) :
             Differ(br.properties, hr.properties, p) =>
                 /\ id = scope.resource
                 /\ p \in DOMAIN scope.edits
                 /\ Operation(scope, b, h, p) \in scope.edits[p]
    BY <1>2, <1>3, <2>1, PairedDifference
  <2>4. \E p \in Keys(br.properties, hr.properties) : Differ(br.properties, hr.properties, p)
    <3> SUFFICES ASSUME \A p \in Keys(br.properties, hr.properties) :
                            ~ Differ(br.properties, hr.properties, p)
                 PROVE  FALSE
      OBVIOUS
    <3>1. /\ br.properties = [p \in DOMAIN br.properties |-> br.properties[p]]
          /\ hr.properties = [p \in DOMAIN hr.properties |-> hr.properties[p]]
      BY <2>1 DEF Resource, Mappings
    <3>2. /\ DOMAIN br.properties = DOMAIN hr.properties
          /\ \A p \in DOMAIN br.properties : br.properties[p] = hr.properties[p]
      BY DEF Keys, Differ
    <3>3. br.properties = hr.properties
      BY <3>1, <3>2
    <3>4. br = hr
      BY <2>1, <2>2, <2>3, <3>3 DEF Resource
    <3> QED BY <1>3, <3>4
  <2> QED BY <2>2, <2>3, <2>4
<1> QED BY <1>1, <1>2, <1>3 DEF OnlyAllowedEdits

-----------------------------------------------------------------------------
\* What VERIFIED and the invariant of the boundary stand on.

InContract == OutsideUnchanged /\ TargetKept /\ TemplateInScope

\* The boundary was compared without a code; the Template as far as its bytes
\* on Head were read.
Compared ==
    /\ OutsideUnchanged
    /\ TargetKept
    /\ BaseSnap[Target].oid \in DOMAIN Doc
    /\ HeadTemplates # {} => TemplateInScope

Snapshotting == {"list", "hash", "hash others"}

BeforeChecks ==
    \/ at \in BeforeTrust \cup {"compare", "check"}
    \/ at \in Snapshotting /\ ~ Rehash

\* The inductive invariant: what a call knows of the boundary at each place.
StayInv ==
    /\ disk \in Files
    /\ got \in Files
    /\ headSnap \in Files
    /\ at \in {"head"} \cup AfterTrust => baseCommit \in Commits
    /\ BeforeChecks => states.boundary = "NOT_EVALUATED"
    /\ at = "check" /\ codes \cap BoundaryCodes = {} => Compared
    /\ at \in Snapshotting /\ Rehash /\ codes = {} => states.boundary = "PASS"
    /\ states.boundary = "PASS" => InContract
    /\ decision = "VERIFIED" => states.boundary = "PASS"

LEMMA FilesFact ==
    ASSUME NEW f
    PROVE  f \in Files <=> f \in [DOMAIN f -> FileEntry] /\ DOMAIN f \subseteq PathSet
BY DEF Files, Mappings

LEMMA NoFiles == << >> \in Files
<1>1. DOMAIN << >> = {}
  OBVIOUS
<1>2. << >> = [p \in {} |-> p]
  BY <1>1
<1>3. << >> \in [{} -> FileEntry]
  BY <1>2
<1> QED BY <1>1, <1>3, FilesFact

\* A call that ends in VERIFIED has no code at all.
LEMMA VerifiedHasNoCode ==
    ASSUME NEW found, Conclude(found), decision' = "VERIFIED"
    PROVE  codes \cup found = {}
<1>1. Approved
  BY DraftIsCapped
<1> QED BY <1>1 DEF Conclude, DecisionOf

\* A step that leaves the snapshots and what was decided about them alone.
LEMMA ElsewhereKeepsStay ==
    ASSUME StayInv, disk' \in Files, got' \in Files,
           UNCHANGED <<request, at, stage, bound, headSnap, raw, states, codes, decision>>
    PROVE  StayInv'
BY DEF StayInv, BeforeChecks, Rehash, Compared, InContract, OutsideUnchanged, TargetKept,
       TemplateInScope, BaseDoc, HeadDoc, BaseSnap, Target, HeadTemplates, bound

LEMMA StayInit == Init => StayInv
<1> SUFFICES ASSUME Init PROVE StayInv
  OBVIOUS
<1>1. PICK s \in Starts : disk = s.disk
  BY DEF Init
<1>2. disk \in Files
  BY <1>1, RemediationAssumption
<1>3. got \in Files /\ headSnap \in Files
  BY NoFiles DEF Init
<1>4. at = "load" /\ states.boundary = "NOT_EVALUATED" /\ decision = None
  BY DEF Init, NoChecks
<1>5. decision # "VERIFIED"
  BY <1>4, RemediationAssumption DEF Decisions
<1> QED BY <1>2, <1>3, <1>4, <1>5 DEF StayInv, AfterTrust, Snapshotting

\* Before the checks, a step that records nothing of them has little to keep.
LEMMA EarlyStep ==
    ASSUME StayInv, disk' \in Files, got' \in Files, headSnap' \in Files, UNCHANGED states,
           BeforeChecks, (at \in {"head"} \cup AfterTrust => baseCommit \in Commits)',
           at' # "check", ~ (at' \in Snapshotting /\ Rehash'),
           decision' # "VERIFIED"
    PROVE  StayInv'
BY DEF StayInv, BeforeChecks

LEMMA LoadKeepsStay == TrustInv /\ StayInv /\ LoadContract => StayInv'
<1> SUFFICES ASSUME TrustInv, StayInv, LoadContract PROVE StayInv'
  OBVIOUS
<1>1. decision' # "VERIFIED" /\ at' \in {"base", "done"}
  <2>1. CASE \E found \in {{"revision_not_found"}, {"contract_not_found"}, {"contract_invalid"}} :
                Conclude(found)
    BY <2>1, VerifiedHasNoCode DEF Conclude
  <2>2. CASE Continue("base", {})
    BY <2>2, RemediationAssumption DEF Continue, TrustInv, LoadContract, Decisions
  <2> QED BY <2>1, <2>2 DEF LoadContract
<1> QED BY <1>1, EarlyStep
  DEF LoadContract, StayInv, BeforeChecks, BeforeTrust, AfterTrust, Snapshotting, env

LEMMA ResolveBaseKeepsStay == TrustInv /\ StayInv /\ ResolveBase => StayInv'
<1> SUFFICES ASSUME TrustInv, StayInv, ResolveBase PROVE StayInv'
  OBVIOUS
<1>1. /\ decision' # "VERIFIED" /\ at' \in {"head", "done"}
      /\ at' = "head" => baseCommit' \in Commits
  <2>1. CASE Conclude({"revision_not_found"})
    BY <2>1, VerifiedHasNoCode DEF Conclude
  <2>2. CASE /\ Continue("head", {})
             /\ baseCommit' = refs["base"]
             /\ refs["base"] # NoCommit
    BY <2>2, RemediationAssumption DEF Continue, TrustInv, ResolveBase, Decisions, Revs
  <2> QED BY <2>1, <2>2 DEF ResolveBase
<1> QED BY <1>1, EarlyStep
  DEF ResolveBase, StayInv, BeforeChecks, BeforeTrust, AfterTrust, Snapshotting, env

LEMMA ResolveHeadKeepsStay == TrustInv /\ StayInv /\ ResolveHead => StayInv'
<1> SUFFICES ASSUME TrustInv, StayInv, ResolveHead PROVE StayInv'
  OBVIOUS
<1> DEFINE head == refs["head"]
           distrust == TrustCodes(configCommit, baseCommit, head)
<1>1. /\ at = "head" /\ baseCommit \in Commits /\ baseCommit' = baseCommit
      /\ UNCHANGED <<disk, got, states>> /\ decision = None
      /\ head \in Commits \cup {NoCommit}
  BY DEF ResolveHead, StayInv, TrustInv, BeforeTrust, AfterTrust, Revs, env
<1>2. CASE (\E found : found # {} /\ Conclude(found)) /\ UNCHANGED headSnap
  <2>1. decision' # "VERIFIED" /\ at' = "done"
    BY <1>2, VerifiedHasNoCode DEF Conclude
  <2> QED BY <1>1, <1>2, <2>1, EarlyStep
    DEF StayInv, BeforeChecks, BeforeTrust, AfterTrust, Snapshotting
<1>3. CASE /\ head # NoCommit
           /\ stage' = "trust_established"
           /\ \/ Continue("list", {}) /\ UNCHANGED headSnap
              \/ Continue("compare", {}) /\ headSnap' = Tree[head]
  <2>1. headSnap' \in Files
    BY <1>1, <1>3, RemediationAssumption DEF StayInv
  <2>2. /\ at' \in {"list", "compare"} /\ ~ Rehash' /\ decision' # "VERIFIED"
        /\ at' = "compare" => at' \notin Snapshotting
    BY <1>1, <1>3, RemediationAssumption DEF Continue, Rehash, Decisions, Snapshotting
  <2> QED BY <1>1, <2>1, <2>2, EarlyStep DEF StayInv, BeforeChecks, BeforeTrust
<1>4. CASE head = NoCommit
  BY <1>2, <1>4 DEF ResolveHead
<1>5. CASE head # NoCommit /\ distrust # {}
  BY <1>2, <1>5 DEF ResolveHead
<1>6. CASE head # NoCommit /\ distrust = {}
  BY <1>3, <1>6 DEF ResolveHead
<1> QED BY <1>4, <1>5, <1>6

\* Listing and hashing.
LEMMA SnapshotKeepsStay ==
    TrustInv /\ StayInv /\ (ListIndex \/ HashNext \/ TornRead \/ ListOthers) => StayInv'
<1> SUFFICES ASSUME TrustInv, StayInv, ListIndex \/ HashNext \/ TornRead \/ ListOthers
             PROVE  StayInv'
  OBVIOUS
<1>1. /\ at \in Snapshotting /\ disk' = disk /\ decision = None
      /\ UNCHANGED <<request, stage, bound, headSnap, raw, states>>
  BY DEF ListIndex, HashNext, TornRead, ListOthers, Snapshotting, TrustInv, env
<1>2. decision = None => decision # "VERIFIED"
  BY RemediationAssumption DEF Decisions
<1>3. UNCHANGED InContract
  BY <1>1 DEF InContract, OutsideUnchanged, TargetKept, TemplateInScope, BaseDoc, HeadDoc,
              BaseSnap, Target, bound
<1>4. CASE at' \in Snapshotting /\ got' \in Files /\ UNCHANGED <<codes, decision>>
  BY <1>1, <1>2, <1>3, <1>4
    DEF StayInv, BeforeChecks, BeforeTrust, AfterTrust, Snapshotting, Rehash, bound
<1>5. CASE ListIndex
  <2>1. got' \in Files
    BY <1>5, NoFiles DEF ListIndex
  <2> QED BY <1>4, <1>5, <2>1 DEF ListIndex, Continue, Snapshotting
<1>6. CASE HashNext
  <2> DEFINE read == DOMAIN disk \cap {First(todo)}
  <2>1. got' = [p \in DOMAIN got \cup read |-> IF p \in read THEN disk[p] ELSE got[p]]
    BY <1>6 DEF HashNext
  <2>2. /\ got \in [DOMAIN got -> FileEntry] /\ DOMAIN got \subseteq PathSet
        /\ disk \in [DOMAIN disk -> FileEntry] /\ DOMAIN disk \subseteq PathSet
    BY FilesFact DEF StayInv
  <2>3. got' \in [DOMAIN got' -> FileEntry] /\ DOMAIN got' \subseteq PathSet
    BY <2>1, <2>2
  <2>4. got' \in Files
    BY <2>3, FilesFact
  <2> QED BY <1>1, <1>4, <1>6, <2>4 DEF HashNext
<1>7. CASE TornRead
  <2>1. got' \in Files /\ at' = "done" /\ decision' # "VERIFIED"
    BY <1>7, VerifiedHasNoCode DEF TornRead, StayInv, Conclude
  <2> QED BY <1>1, <1>3, <2>1
    DEF StayInv, BeforeChecks, BeforeTrust, AfterTrust, Snapshotting
<1>8. CASE ListOthers
  BY <1>4, <1>8 DEF ListOthers, Continue, StayInv, Snapshotting
<1> QED BY <1>5, <1>6, <1>7, <1>8

LEMMA SnapshotDoneKeepsStay == TrustInv /\ StayInv /\ SnapshotDone => StayInv'
<1> SUFFICES ASSUME TrustInv, StayInv, SnapshotDone PROVE StayInv'
  OBVIOUS
<1>1. /\ at = "hash others" /\ at \in Snapshotting /\ decision # "VERIFIED"
      /\ UNCHANGED <<disk, got, request, stage, bound, raw, states>>
      /\ baseCommit \in Commits
  BY RemediationAssumption
    DEF SnapshotDone, Snapshotting, TrustInv, StayInv, AfterTrust, Decisions, env, bound
<1>2. CASE Rehash
  <2>1. PICK found : Conclude(found) /\ UNCHANGED headSnap
    BY <1>2 DEF SnapshotDone
  <2>2. at' = "done" /\ (decision' = "VERIFIED" => codes = {})
    BY <2>1, VerifiedHasNoCode DEF Conclude
  <2>3. decision' = "VERIFIED" => states.boundary = "PASS"
    BY <1>1, <1>2, <2>2 DEF StayInv
  <2>4. UNCHANGED InContract
    BY <1>1, <2>1 DEF InContract, OutsideUnchanged, TargetKept, TemplateInScope, BaseDoc,
                      HeadDoc, BaseSnap, Target, bound
  <2> QED BY <1>1, <2>1, <2>2, <2>3, <2>4
    DEF StayInv, BeforeChecks, BeforeTrust, AfterTrust, Snapshotting
<1>3. CASE ~ Rehash
  <2>1. /\ at' = "compare" /\ headSnap' = got /\ decision' = decision
    BY <1>3 DEF SnapshotDone, Continue
  <2> QED BY <1>1, <1>3, <2>1, EarlyStep DEF StayInv, BeforeChecks, Snapshotting, bound
<1> QED BY <1>2, <1>3

\* No code of the repository: nothing but the target's bytes changed.
LEMMA RepositoryIsClean ==
    ASSUME NEW b \in Files, NEW h \in Files, NEW target,
           RepositoryCodes(b, h, target) \cap BoundaryCodes = {}
    PROVE  /\ \A p \in Keys(b, h) \ {target} : ~ Differ(b, h, p)
           /\ Regular(b, target)
           /\ Regular(h, target)
           /\ b[target].mode = h[target].mode
<1>1. /\ OutsideCodes(b, h, target) \cap BoundaryCodes = {}
      /\ TargetFileCodes(b, h, target) \cap BoundaryCodes = {}
  BY DEF RepositoryCodes
<1>2. ASSUME NEW p \in Keys(b, h) \ {target} PROVE ~ Differ(b, h, p)
  <2>1. p \in DOMAIN b /\ p \in DOMAIN h
    BY <1>1, <1>2 DEF OutsideCodes, BoundaryCodes, BlockedCodes, Keys
  <2>2. b[p].mode = h[p].mode
    BY <1>1, <1>2, <2>1 DEF OutsideCodes, BoundaryCodes, BlockedCodes
  <2>3. b[p].oid = h[p].oid
    BY <1>1, <1>2, <2>1, <2>2 DEF OutsideCodes, BoundaryCodes, BlockedCodes
  <2>4. b[p] \in FileEntry /\ h[p] \in FileEntry
    BY <2>1, FilesFact
  <2>5. b[p] = h[p]
    BY <2>2, <2>3, <2>4 DEF FileEntry
  <2> QED BY <2>1, <2>5 DEF Differ
<1>3. target \in DOMAIN h /\ Regular(b, target) /\ Regular(h, target)
  BY <1>1 DEF TargetFileCodes, BoundaryCodes, BlockedCodes
<1>4. b[target].mode = h[target].mode
  BY <1>1, <1>3 DEF TargetFileCodes, BoundaryCodes, BlockedCodes, Regular
<1> QED BY <1>2, <1>3, <1>4

LEMMA CompareLeaves ==
    ASSUME TrustInv, StayInv, at = "compare", NEW headBytes, NEW found,
           headBytes \in {{}, TargetBytes(headSnap)},
           CompareWith(headBytes, found), UNCHANGED <<env, bound, headSnap, got, states>>
    PROVE  StayInv'
<1>1. /\ at' = "check" /\ decision' # "VERIFIED" /\ states'.boundary = "NOT_EVALUATED"
      /\ baseCommit \in Commits /\ BaseSnap \in Files
  BY RemediationAssumption DEF CompareWith, Continue, TrustInv, StayInv, BeforeChecks,
                               AfterTrust, Decisions, BaseSnap
<1>2. ASSUME codes' \cap BoundaryCodes = {} PROVE Compared'
  <2> DEFINE baseBytes == TargetBytes(BaseSnap)
             template == UNION {TemplateCodes(contract, b, h) :
                                   b \in Parsed(baseBytes), h \in Parsed(headBytes)}
  <2>1. /\ RepositoryCodes(BaseSnap, headSnap, Target) \cap BoundaryCodes = {}
        /\ Unparsed(baseBytes \cup headBytes) \cap BoundaryCodes = {}
        /\ template \cap BoundaryCodes = {}
    BY <1>2 DEF CompareWith, Continue
  <2>2. OutsideUnchanged /\ TargetKept
    BY <1>1, <2>1, RepositoryIsClean DEF StayInv, OutsideUnchanged, TargetKept
  <2>3. baseBytes = {BaseSnap[Target].oid}
    BY <2>2 DEF TargetKept, TargetBytes
  <2>4. baseBytes \cup headBytes \subseteq DOMAIN Doc
    BY <2>1 DEF Unparsed, BoundaryCodes
  <2>5. ASSUME HeadTemplates' # {} PROVE TemplateInScope
    <3>1. raw' # None /\ raw' \in DOMAIN Doc
      BY <2>5 DEF HeadTemplates, Parsed
    <3>2. headBytes = {headSnap[Target].oid} /\ raw' = headSnap[Target].oid
      <4>1. raw' = IF headBytes = {} THEN None ELSE CHOOSE c \in headBytes : TRUE
        BY DEF CompareWith
      <4>2. headBytes # {}
        BY <3>1, <4>1
      <4>3. headBytes = {headSnap[Target].oid}
        BY <2>2, <4>2 DEF TargetKept, TargetBytes
      <4> QED BY <4>1, <4>3
    <3>3. BaseDoc \in Parsed(baseBytes) /\ HeadDoc \in Parsed(headBytes)
      BY <2>3, <2>4, <3>2 DEF BaseDoc, HeadDoc, Parsed
    <3>4. TemplateCodes(contract, BaseDoc, HeadDoc) \cap BoundaryCodes = {}
      BY <2>1, <3>3
    <3>5. IsTemplate(BaseDoc) /\ IsTemplate(HeadDoc)
      BY <2>3, <2>4, <3>2, RemediationAssumption DEF BaseDoc, HeadDoc
    <3>6. OnlyAllowedEdits(contract, BaseDoc, HeadDoc)
      BY <3>4, <3>5, NoCodeNoOtherEdit
    <3> QED BY <2>3, <2>4, <3>2, <3>6 DEF TemplateInScope
  <2>6. BaseSnap[Target].oid \in DOMAIN Doc
    BY <2>3, <2>4
  <2>7. UNCHANGED <<OutsideUnchanged, TargetKept, TemplateInScope, BaseSnap, Target>>
    BY DEF OutsideUnchanged, TargetKept, TemplateInScope, BaseDoc, HeadDoc, BaseSnap, Target,
           bound
  <2> QED BY <2>2, <2>5, <2>6, <2>7 DEF Compared
<1> QED BY <1>1, <1>2 DEF StayInv, BeforeChecks, BeforeTrust, AfterTrust, Snapshotting, env, bound

LEMMA CompareKeepsStay == TrustInv /\ StayInv /\ Compare => StayInv'
<1> SUFFICES ASSUME TrustInv, StayInv, Compare PROVE StayInv'
  OBVIOUS
<1>1. at = "compare" /\ UNCHANGED <<env, request, bound, headSnap, got, states>>
  BY DEF Compare
<1>2. CASE \E headBytes \in {{}, TargetBytes(headSnap)} : \E found : CompareWith(headBytes, found)
  BY <1>1, <1>2, CompareLeaves
<1>3. CASE Conclude(RepositoryCodes(BaseSnap, headSnap, Target)
                     \cup Unparsed(TargetBytes(BaseSnap)) \cup {"repository_unreadable"})
  <2>1. at' = "done" /\ decision' # "VERIFIED"
    BY <1>3, VerifiedHasNoCode DEF Conclude
  <2> QED BY <1>1, <2>1, EarlyStep
    DEF StayInv, BeforeChecks, BeforeTrust, AfterTrust, Snapshotting, env
<1>4. ASSUME Regular(headSnap, Target), disk[Target].oid = headSnap[Target].oid
      PROVE  {disk[Target].oid} = TargetBytes(headSnap)
  BY <1>4 DEF TargetBytes
<1> QED BY <1>2, <1>3, <1>4 DEF Compare, CompareWorktree

LEMMA CheckKeepsStay == TrustInv /\ StayInv /\ Check => StayInv'
<1> SUFFICES ASSUME TrustInv, StayInv, Check PROVE StayInv'
  OBVIOUS
<1>1. /\ at = "check" /\ UNCHANGED <<disk, got, request, bound, headSnap, raw>>
      /\ decision # "VERIFIED" /\ baseCommit \in Commits
      /\ codes \cap BoundaryCodes = {} => Compared
      /\ states.boundary = "NOT_EVALUATED"
  BY RemediationAssumption DEF Check, TrustInv, StayInv, BeforeChecks, BeforeTrust, AfterTrust,
                               Decisions, env
<1>2. UNCHANGED InContract
  BY <1>1 DEF InContract, OutsideUnchanged, TargetKept, TemplateInScope, BaseDoc, HeadDoc,
              BaseSnap, Target, bound
<1>3. ASSUME NEW found, Continue("list", found) \/ Conclude(found),
             states'.boundary = "PASS" => InContract,
             codes \cup found = {} => states'.boundary = "PASS"
      PROVE  StayInv'
  <2>1. at' \in {"list", "done"} /\ (at' = "list" => codes' = codes \cup found)
    BY <1>3 DEF Continue, Conclude
  <2>2. decision' = "VERIFIED" => codes \cup found = {}
    BY <1>1, <1>3, VerifiedHasNoCode DEF Continue
  <2>3. BeforeChecks' => states'.boundary = "NOT_EVALUATED"
    <3>1. CASE UNCHANGED states
      BY <1>1, <3>1
    <3>2. CASE stage' = "checks_run"
      BY <2>1, <3>2 DEF BeforeChecks, BeforeTrust, Rehash
    <3>3. UNCHANGED states \/ stage' = "checks_run"
      BY DEF Check, RunChecks
    <3> QED BY <3>1, <3>2, <3>3
  <2> QED BY <1>1, <1>2, <1>3, <2>1, <2>2, <2>3
    DEF StayInv, AfterTrust, Snapshotting, bound
<1>4. ASSUME NEW t, RunChecks(t, HeadTemplates) PROVE StayInv'
  <2>1. PICK run, found :
            /\ run \in CheckRuns(t, HeadTemplates)
            /\ states' = [lint |-> run.lint, guardBase |-> run.guardBase,
                          guardHead |-> run.guardHead,
                          boundary |-> BoundaryState(HeadTemplates)]
            /\ Continue("list", found) \/ Conclude(found)
            /\ OutcomeCodes(run.guardBase[OutcomeRule], run.guardHead[OutcomeRule])
                   \subseteq found
    BY <1>4 DEF RunChecks
  <2>2. states'.boundary = BoundaryState(HeadTemplates)
    BY <2>1
  <2>3. states'.boundary = "PASS" => codes \cap BoundaryCodes = {} /\ HeadTemplates # {}
    BY <2>2 DEF BoundaryState, BoundaryCodes
  <2>4. states'.boundary = "PASS" => InContract
    BY <1>1, <2>3 DEF Compared, InContract
  <2>5. ASSUME codes \cup found = {} PROVE states'.boundary = "PASS"
    <3>1. run.guardHead[OutcomeRule] = "PASS"
      BY <2>1, <2>5 DEF OutcomeCodes
    <3>2. run.guardHead \in {GuardRun(HeadTemplates, {})} \cup GuardFaults(HeadTemplates)
      BY <2>1 DEF CheckRuns
    <3>3. HeadTemplates # {}
      BY <3>1, <3>2 DEF GuardRun, GuardFaults, NotRun, Rules
    <3> QED BY <2>2, <2>5, <3>3 DEF BoundaryState
  <2> QED BY <1>3, <2>1, <2>4, <2>5
<1>5. ASSUME Parsed(TargetBytes(BaseSnap)) = {}, UNCHANGED states,
             Continue("list", {}) \/ Conclude({})
      PROVE  StayInv'
  <2>1. codes # {}
    <3> SUFFICES ASSUME codes = {} PROVE FALSE
      OBVIOUS
    <3>1. Regular(BaseSnap, Target) /\ BaseSnap[Target].oid \in DOMAIN Doc
      BY <1>1 DEF Compared, TargetKept
    <3>2. Doc[BaseSnap[Target].oid] \in Parsed(TargetBytes(BaseSnap))
      BY <3>1 DEF Parsed, TargetBytes
    <3> QED BY <1>5, <3>2
  <2> QED BY <1>1, <1>3, <1>5, <2>1
<1> QED BY <1>4, <1>5 DEF Check

LEMMA StayStep == TrustInv /\ StayInv /\ [Next]_vars => StayInv'
<1> SUFFICES ASSUME TrustInv, StayInv, [Next]_vars PROVE StayInv'
  OBVIOUS
<1>1. CASE MoveBranch
  BY <1>1, ElsewhereKeepsStay DEF MoveBranch, StayInv
<1>2. ASSUME NEW p \in PathSet, WriteFile(p) PROVE StayInv'
  <2>1. PICK e \in WriteEntries :
            disk' = [q \in DOMAIN disk \cup {p} |-> IF q = p THEN e ELSE disk[q]]
    BY <1>2 DEF WriteFile
  <2>2. disk \in [DOMAIN disk -> FileEntry] /\ DOMAIN disk \subseteq PathSet
    BY FilesFact DEF StayInv
  <2>3. disk' \in [DOMAIN disk' -> FileEntry] /\ DOMAIN disk' \subseteq PathSet
    BY <2>1, <2>2, RemediationAssumption
  <2>4. disk' \in Files
    BY <2>3, FilesFact
  <2> QED BY <1>2, <2>4, ElsewhereKeepsStay DEF WriteFile, Edit, StayInv
<1>3. ASSUME NEW p \in PathSet, RemoveFile(p) PROVE StayInv'
  <2>1. disk' = [q \in DOMAIN disk \ {p} |-> disk[q]]
    BY <1>3 DEF RemoveFile
  <2>2. disk \in [DOMAIN disk -> FileEntry] /\ DOMAIN disk \subseteq PathSet
    BY FilesFact DEF StayInv
  <2>3. disk' \in [DOMAIN disk' -> FileEntry] /\ DOMAIN disk' \subseteq PathSet
    BY <2>1, <2>2
  <2>4. disk' \in Files
    BY <2>3, FilesFact
  <2> QED BY <1>3, <2>4, ElsewhereKeepsStay DEF RemoveFile, Edit, StayInv
<1>4. ASSUME NEW p \in PathSet, ChangeIndex(p) PROVE StayInv'
  BY <1>4, ElsewhereKeepsStay DEF ChangeIndex, Edit, StayInv
<1>5. CASE UNCHANGED vars
  BY <1>5, ElsewhereKeepsStay DEF vars, env, StayInv
<1>6. CASE LoadContract \/ ResolveBase \/ ResolveHead
  BY <1>6, LoadKeepsStay, ResolveBaseKeepsStay, ResolveHeadKeepsStay
<1>7. CASE ListIndex \/ HashNext \/ TornRead \/ ListOthers \/ SnapshotDone
  BY <1>7, SnapshotKeepsStay, SnapshotDoneKeepsStay
<1>8. CASE Compare \/ Check
  BY <1>8, CompareKeepsStay, CheckKeepsStay
<1> QED BY <1>1, <1>2, <1>3, <1>4, <1>5, <1>6, <1>7, <1>8 DEF Next, Finished

\* A call that ends in VERIFIED, or that says the boundary passes, was made on
\* a Head that is Base but for edits the contract allows.
THEOREM InContractHolds == Spec => []PassStaysInContract
<1>1. StayInv => PassStaysInContract
  BY DEF StayInv, InContract, PassStaysInContract
<1>2. Spec => []TrustInv
  BY TrustInit, TrustStep, PTL DEF Spec
<1> QED BY <1>1, <1>2, StayInit, StayStep, PTL DEF Spec

-----------------------------------------------------------------------------
\* What VERIFIED has been evidenced by.

Evidenced ==
    /\ raw = headSnap[Target].oid
    /\ raw \in LintClean
    /\ Verdict(OutcomeRule, HeadDoc) = "PASS"
    /\ Verdict(StatementRule, HeadDoc) = "PASS"
    /\ Statements(contract, HeadDoc) = Statements(contract, BaseDoc)
    /\ \A r \in Rules : {states.guardBase[r], states.guardHead[r]} \subseteq {"PASS", "FAIL"}

\* The inductive invariant: only the bytes of the snapshot are read, and a call
\* that has no code when its checks are over has the evidence.
EvidenceInv ==
    /\ at = "check" => raw \in {None, headSnap[Target].oid}
    /\ at \in Snapshotting /\ Rehash /\ codes = {} => Evidenced
    /\ decision = "VERIFIED" => Evidenced

LEMMA RunIsNoFault ==
    ASSUME NEW ts, NEW t, ts = {t}, NEW run \in {GuardRun(ts, {})} \cup GuardFaults(ts),
           \A r \in Rules : run[r] \notin DOMAIN FaultCode
    PROVE  run = [r \in Rules |-> Verdict(r, t)]
<1>1. ASSUME NEW f \in ToolFaults, run = [r \in Rules |-> f] PROVE FALSE
  BY <1>1, RemediationAssumption DEF Rules
<1>2. ASSUME NEW skipped \in SUBSET Rules, skipped # {}, run = GuardRun(ts, skipped)
      PROVE  FALSE
  <2>1. PICK r \in Rules : r \in skipped
    BY <1>2
  <2>2. run[r] = "NOT_PASSED"
    BY <1>2, <2>1 DEF GuardRun
  <2>3. "NOT_PASSED" \in DOMAIN FaultCode
    BY DEF FaultCode
  <2> QED BY <2>1, <2>2, <2>3
<1>3. run = GuardRun(ts, {})
  BY <1>1, <1>2 DEF GuardFaults
<1>4. (CHOOSE x \in ts : TRUE) = t
  OBVIOUS
<1> QED BY <1>3, <1>4 DEF GuardRun

\* Checks that record nothing are evidence.
LEMMA CleanChecks ==
    ASSUME Compared, raw \in {None, headSnap[Target].oid},
           NEW t \in Parsed(TargetBytes(BaseSnap)), RunChecks(t, HeadTemplates),
           decision # "VERIFIED", codes' = {} \/ decision' = "VERIFIED",
           UNCHANGED <<bound, headSnap, raw>>
    PROVE  Evidenced'
<1>1. t = BaseDoc
  BY DEF Compared, TargetKept, TargetBytes, Parsed, BaseDoc
<1> DEFINE hs == HeadTemplates
<1>2. PICK run, found :
          /\ run \in CheckRuns(t, hs)
          /\ states' = [lint |-> run.lint, guardBase |-> run.guardBase,
                        guardHead |-> run.guardHead, boundary |-> BoundaryState(hs)]
          /\ found = FaultsOf({run.lint} \cup {run.guardBase[r] : r \in Rules}
                              \cup {run.guardHead[r] : r \in Rules})
                \cup {c \in {"check_failed"} : run.lint = "FAIL"}
                \cup OutcomeCodes(run.guardBase[OutcomeRule], run.guardHead[OutcomeRule])
                \cup StatementCodes(StatementOnBase(run.guardBase[StatementRule], t),
                                    StatementOnHead(run.guardHead[StatementRule], t, hs))
          /\ Continue("list", found) \/ Conclude(found)
  BY DEF RunChecks
<1>3. found = {}
  BY <1>2, VerifiedHasNoCode DEF Continue, Conclude
<1>4. /\ run.lint \notin DOMAIN FaultCode /\ run.lint # "FAIL"
      /\ \A r \in Rules : run.guardBase[r] \notin DOMAIN FaultCode
      /\ \A r \in Rules : run.guardHead[r] \notin DOMAIN FaultCode
      /\ OutcomeCodes(run.guardBase[OutcomeRule], run.guardHead[OutcomeRule]) = {}
      /\ StatementCodes(StatementOnBase(run.guardBase[StatementRule], t),
                        StatementOnHead(run.guardHead[StatementRule], t, hs)) = {}
  <2> DEFINE seen == {run.lint} \cup {run.guardBase[r] : r \in Rules}
                       \cup {run.guardHead[r] : r \in Rules}
  <2>1. FaultsOf(seen) = {} /\ run.lint # "FAIL"
    BY <1>2, <1>3
  <2>2. seen \cap DOMAIN FaultCode = {}
    BY <2>1 DEF FaultsOf
  <2> QED BY <1>2, <1>3, <2>1, <2>2
<1>5. /\ run.lint \in {LintRun(hs)} \cup LintFaults(hs)
      /\ run.guardBase \in {GuardRun({t}, {})} \cup GuardFaults({t})
      /\ run.guardHead \in {GuardRun(hs, {})} \cup GuardFaults(hs)
  BY <1>2 DEF CheckRuns
<1>6. run.guardHead[OutcomeRule] = "PASS"
  BY <1>4 DEF OutcomeCodes
<1>7. hs # {}
  BY <1>5, <1>6 DEF GuardRun, GuardFaults, NotRun, Rules
<1>8. raw = headSnap[Target].oid /\ hs = {HeadDoc}
  BY <1>7 DEF HeadTemplates, Parsed, HeadDoc
<1>9. raw \in LintClean
  BY <1>4, <1>5, <1>7, RemediationAssumption DEF LintRun, LintFaults
<1>10. run.guardHead = [r \in Rules |-> Verdict(r, HeadDoc)]
  BY <1>4, <1>5, <1>8, RunIsNoFault
<1>11. run.guardBase = [r \in Rules |-> Verdict(r, BaseDoc)]
  BY <1>1, <1>4, <1>5, RunIsNoFault
<1>12. StatementOnHead(run.guardHead[StatementRule], t, hs) = "PASS"
  BY <1>4 DEF StatementCodes
<1>13. /\ run.guardHead[StatementRule] = "PASS"
       /\ Statements(contract, HeadDoc) = Statements(contract, BaseDoc)
  BY <1>1, <1>8, <1>12 DEF StatementOnHead
<1>14. \A r \in Rules : {run.guardBase[r], run.guardHead[r]} \subseteq {"PASS", "FAIL"}
  BY <1>10, <1>11 DEF Verdict
<1>15. states'.guardBase = run.guardBase /\ states'.guardHead = run.guardHead
  BY <1>2
<1>16. Evidenced'
  <2>1. /\ UNCHANGED <<HeadDoc, BaseDoc, Target>>
        /\ \A r \in Rules : Verdict(r, HeadDoc)' = Verdict(r, HeadDoc)
    BY DEF HeadDoc, BaseDoc, BaseSnap, Target, Verdict, GuardedLeaf, bound
  <2>2. Statements(contract, HeadDoc)' = Statements(contract, BaseDoc)'
    BY <1>13, <2>1 DEF bound
  <2>3. Verdict(OutcomeRule, HeadDoc) = "PASS" /\ Verdict(StatementRule, HeadDoc) = "PASS"
    BY <1>6, <1>10, <1>13 DEF Rules
  <2>4. OutcomeRule \in Rules /\ StatementRule \in Rules
    BY DEF Rules
  <2> QED BY <1>8, <1>9, <1>14, <1>15, <2>1, <2>2, <2>3, <2>4 DEF Evidenced
<1> QED BY <1>16

\* A step that leaves what was read and checked alone.
LEMMA EvidenceUnchanged ==
    ASSUME UNCHANGED <<baseCommit, contract, headSnap, raw, states>>
    PROVE  UNCHANGED Evidenced
BY DEF Evidenced, Verdict, Statements, GuardedLeaf, HeadDoc, BaseDoc, BaseSnap, Target

LEMMA EvidenceInit == Init => EvidenceInv
BY RemediationAssumption DEF Init, EvidenceInv, Snapshotting, Decisions

\* Compare reads the target's bytes of the snapshot, or none.
LEMMA CompareReads ==
    ASSUME NEW headBytes, NEW found, headBytes \in {{}, TargetBytes(headSnap)},
           CompareWith(headBytes, found), UNCHANGED <<contract, headSnap>>
    PROVE  (raw \in {None, headSnap[Target].oid})' /\ at' = "check" /\ decision' = decision
<1>1. at' = "check" /\ decision' = decision /\ Target' = Target
  BY DEF CompareWith, Continue, Target
<1>2. headBytes \subseteq {headSnap[Target].oid}
  BY DEF TargetBytes
<1>3. raw' = IF headBytes = {} THEN None ELSE CHOOSE c \in headBytes : TRUE
  BY DEF CompareWith
<1>4. headBytes # {} => (CHOOSE c \in headBytes : TRUE) \in headBytes
  OBVIOUS
<1> QED BY <1>1, <1>2, <1>3, <1>4

LEMMA CompareKeepsEvidence == TrustInv /\ Compare => EvidenceInv'
<1> SUFFICES ASSUME TrustInv, Compare PROVE EvidenceInv'
  OBVIOUS
<1>1. at = "compare" /\ decision # "VERIFIED" /\ UNCHANGED <<bound, headSnap>>
  BY RemediationAssumption DEF Compare, TrustInv, Decisions
<1>2. CASE \E headBytes \in {{}, TargetBytes(headSnap)} : \E found : CompareWith(headBytes, found)
  <2>1. PICK headBytes, found :
            headBytes \in {{}, TargetBytes(headSnap)} /\ CompareWith(headBytes, found)
    BY <1>2
  <2>2. at' = "check" /\ decision' = decision /\ (raw \in {None, headSnap[Target].oid})'
    BY <1>1, <2>1, CompareReads DEF bound
  <2> QED BY <1>1, <2>2 DEF EvidenceInv, Snapshotting
<1>3. CASE Conclude(RepositoryCodes(BaseSnap, headSnap, Target)
                     \cup Unparsed(TargetBytes(BaseSnap)) \cup {"repository_unreadable"})
  BY <1>3, VerifiedHasNoCode DEF Conclude, EvidenceInv, Snapshotting
<1>4. ASSUME Regular(headSnap, Target), disk[Target].oid = headSnap[Target].oid
      PROVE  {disk[Target].oid} = TargetBytes(headSnap)
  BY <1>4 DEF TargetBytes
<1> QED BY <1>2, <1>3, <1>4 DEF Compare, CompareWorktree

LEMMA CheckKeepsEvidence == TrustInv /\ StayInv /\ EvidenceInv /\ Check => EvidenceInv'
<1> SUFFICES ASSUME TrustInv, StayInv, EvidenceInv, Check PROVE EvidenceInv'
  OBVIOUS
<1>1. /\ at = "check" /\ decision # "VERIFIED" /\ UNCHANGED <<bound, headSnap, raw>>
      /\ raw \in {None, headSnap[Target].oid}
      /\ codes \cap BoundaryCodes = {} => Compared
      /\ at' \in {"list", "done"}
  BY RemediationAssumption
    DEF Check, RunChecks, Continue, Conclude, TrustInv, StayInv, EvidenceInv, Decisions
<1>2. ASSUME codes' = {} \/ decision' = "VERIFIED" PROVE Evidenced'
  <2>1. codes = {}
    <3>1. \E found : Continue("list", found) \/ Conclude(found)
      BY DEF Check, RunChecks
    <3>2. PICK found : Continue("list", found) \/ Conclude(found)
      BY <3>1
    <3> QED BY <1>1, <1>2, <3>2, VerifiedHasNoCode DEF Continue, Conclude
  <2>2. Compared
    BY <1>1, <2>1
  <2>3. Parsed(TargetBytes(BaseSnap)) # {}
    BY <2>2 DEF Compared, TargetKept, TargetBytes, Parsed
  <2>4. PICK t \in Parsed(TargetBytes(BaseSnap)) : RunChecks(t, HeadTemplates)
    BY <2>3 DEF Check
  <2> QED BY <1>1, <1>2, <2>2, <2>4, CleanChecks
<1> QED BY <1>1, <1>2 DEF EvidenceInv

LEMMA EvidenceStep == TrustInv /\ StayInv /\ EvidenceInv /\ [Next]_vars => EvidenceInv'
<1> SUFFICES ASSUME TrustInv, StayInv, EvidenceInv, [Next]_vars PROVE EvidenceInv'
  OBVIOUS
<1>0. at # "done" => decision # "VERIFIED"
  BY RemediationAssumption DEF TrustInv, Decisions
<1>1. CASE LoadContract \/ ResolveBase
  <2>1. at' # "check" /\ at' \notin Snapshotting /\ at # "done"
    BY <1>1 DEF LoadContract, ResolveBase, Continue, Conclude, Snapshotting
  <2>2. decision' # "VERIFIED"
    <3>1. CASE \E found : found # {} /\ Conclude(found)
      BY <3>1, VerifiedHasNoCode
    <3>2. CASE UNCHANGED decision
      BY <1>0, <2>1, <3>2
    <3> QED BY <1>1, <3>1, <3>2 DEF LoadContract, ResolveBase, Continue
  <2> QED BY <2>1, <2>2 DEF EvidenceInv
<1>2. CASE ResolveHead
  <2>1. at = "head" /\ at' # "check" /\ (at' \in Snapshotting => ~ Rehash')
    BY <1>2 DEF ResolveHead, Continue, Conclude, Snapshotting, Rehash
  <2>2. decision' # "VERIFIED"
    <3>1. CASE \E found : found # {} /\ Conclude(found)
      BY <3>1, VerifiedHasNoCode
    <3>2. CASE UNCHANGED decision
      BY <1>0, <2>1, <3>2
    <3> QED BY <1>2, <3>1, <3>2 DEF ResolveHead, Continue
  <2> QED BY <2>1, <2>2 DEF EvidenceInv
<1>3. CASE ListIndex \/ HashNext \/ ListOthers
  <2>1. /\ at \in Snapshotting /\ at' \in Snapshotting
        /\ UNCHANGED <<stage, codes, decision, bound, headSnap, raw, states>>
    BY <1>3 DEF ListIndex, HashNext, ListOthers, Continue, Snapshotting
  <2> QED BY <1>0, <2>1, EvidenceUnchanged DEF EvidenceInv, Snapshotting, Rehash, bound
<1>4. CASE TornRead
  BY <1>4, VerifiedHasNoCode DEF TornRead, Conclude, EvidenceInv, Snapshotting
<1>5. CASE SnapshotDone
  <2>1. /\ at = "hash others"
        /\ UNCHANGED <<stage, bound, raw, states>>
    BY <1>5 DEF SnapshotDone
  <2>2. CASE Rehash
    <3>1. PICK found : Conclude(found) /\ UNCHANGED headSnap
      BY <1>5, <2>2 DEF SnapshotDone
    <3>2. UNCHANGED Evidenced
      BY <2>1, <3>1, EvidenceUnchanged DEF bound
    <3>3. decision' = "VERIFIED" => codes = {}
      BY <3>1, VerifiedHasNoCode
    <3> QED BY <2>1, <2>2, <3>1, <3>2, <3>3 DEF EvidenceInv, Snapshotting, Conclude
  <2>3. CASE ~ Rehash
    BY <1>0, <1>5, <2>1, <2>3 DEF SnapshotDone, Continue, EvidenceInv, Snapshotting
  <2> QED BY <2>2, <2>3
<1>6. CASE Compare
  BY <1>6, CompareKeepsEvidence
<1>7. CASE Check
  BY <1>7, CheckKeepsEvidence
<1>8. CASE \/ MoveBranch
           \/ \E p \in PathSet : WriteFile(p) \/ RemoveFile(p) \/ ChangeIndex(p)
           \/ UNCHANGED vars
  <2>1. UNCHANGED <<at, stage, bound, headSnap, raw, states, codes, decision>>
    BY <1>8 DEF MoveBranch, WriteFile, RemoveFile, ChangeIndex, Edit, vars
  <2>2. UNCHANGED Evidenced
    BY <2>1, EvidenceUnchanged DEF bound
  <2> QED BY <2>1, <2>2 DEF EvidenceInv, Rehash, Target, bound
<1> QED BY <1>1, <1>2, <1>3, <1>4, <1>5, <1>6, <1>7, <1>8 DEF Next, Finished

\* VERIFIED stands on evidence about the very bytes of the snapshot.
THEOREM EvidenceHolds == Spec => []VerifiedIsEvidenced
<1>1. EvidenceInv => VerifiedIsEvidenced
  BY DEF EvidenceInv, Evidenced, VerifiedIsEvidenced
<1>2. Spec => []TrustInv
  BY TrustInit, TrustStep, PTL DEF Spec
<1>3. Spec => []StayInv
  BY <1>2, StayInit, StayStep, PTL DEF Spec
<1> QED BY <1>1, <1>2, <1>3, EvidenceInit, EvidenceStep, PTL DEF Spec

-----------------------------------------------------------------------------
\* What BLOCKED names.

\* There is a violation: of the contract, by a check or by a rule.
Violated ==
    \/ ~ OutsideUnchanged
    \/ ~ TargetKept
    \/ ~ TemplateInScope
    \/ raw \notin LintClean
    \/ Verdict(OutcomeRule, HeadDoc) = "FAIL"
    \/ /\ Verdict(StatementRule, BaseDoc) = "PASS"
       /\ \/ Verdict(StatementRule, HeadDoc) = "FAIL"
          \/ Statements(contract, HeadDoc) # Statements(contract, BaseDoc)

\* The inductive invariant: a code that blocks is recorded for a violation only.
BlockInv ==
    /\ BeforeChecks /\ at # "check" => codes = {}
    /\ at = "check" => Rehash
    /\ codes \cap BlockedCodes # {} => Violated
    /\ decision = "BLOCKED" => codes \cap BlockedCodes # {}

\* Edits the contract allows have no code that blocks: the converse of
\* NoCodeNoOtherEdit.
LEMMA AllowedEditIsNotBlocked ==
    ASSUME NEW scope, NEW b, NEW h, IsTemplate(b), IsTemplate(h),
           OnlyAllowedEdits(scope, b, h)
    PROVE  TemplateCodes(scope, b, h) \cap BlockedCodes = {}
<1>1. ASSUME NEW change \in Changes(b, h)
      PROVE  ChangeCodes(scope, change, b, h) \cap BlockedCodes = {}
  <2>1. change \notin WholeResourceChanges(b, h)
    BY DEF WholeResourceChanges, OnlyAllowedEdits, Keys, Paired
  <2>2. change \notin SectionChanges(b, h)
    BY DEF SectionChanges, OnlyAllowedEdits
  <2>3. PICK id \in Paired(b, h) :
            change \in PairedChanges(b.resources[id], h.resources[id], id)
    BY <2>1, <2>2, <1>1 DEF Changes
  <2> DEFINE br == b.resources[id]
             hr == h.resources[id]
  <2>4. id \in DOMAIN b.resources
    BY DEF Paired
  <2>5. hr.attributes = br.attributes /\ hr.hasProperties = br.hasProperties
    BY <2>4 DEF OnlyAllowedEdits
  <2>6. PICK p \in PropertyKeys(br, hr) :
            /\ Differ(br.properties, hr.properties, p)
            /\ change.path = <<"Resources", Canon[id], "Properties", p>>
    BY <2>3, <2>5 DEF PairedChanges, Differ, Keys, Entry
  <2>7. p \in Keys(br.properties, hr.properties)
    BY <2>6 DEF PropertyKeys
  <2>8. hr # br
    BY <2>6, <2>7 DEF Differ, Keys
  <2>9. /\ id = scope.resource /\ p \in DOMAIN scope.edits
        /\ Operation(scope, b, h, p) \in scope.edits[p]
    BY <2>4, <2>6, <2>7, <2>8 DEF OnlyAllowedEdits
  <2>10. /\ Len(change.path) = 4 /\ change.path[2] = Canon[id]
         /\ change.path[3] = "Properties" /\ change.path[4] = p
    BY <2>6
  <2>11. CASE Ambiguous(change, b, h)
    BY <2>11 DEF ChangeCodes, BlockedCodes
  <2>12. CASE ~ Ambiguous(change, b, h)
    <3> DEFINE S == Spellings(Canon[id], b, h)
    <3>1. Cardinality(S) = 1
      BY <2>10, <2>12 DEF Ambiguous
    <3>2. IsFiniteSet(S)
      <4>1. IsFiniteSet(Keys(b.resources, h.resources))
        BY FS_Union DEF Keys, IsTemplate
      <4> QED BY <4>1, FS_Subset DEF Spellings
    <3>3. id \in S
      BY <2>4 DEF Spellings, Keys
    <3>4. S = {id}
      <4>1. \E x : S = {x}
        BY <3>1, <3>2, FS_Singleton
      <4> QED BY <3>3, <4>1
    <3>5. InTarget(scope, change, b, h)
      BY <2>9, <2>10, <3>4 DEF InTarget
    <3>6. TargetCodes(scope, change, b, h) \subseteq {"unsupported_construct"}
      BY <2>9, <2>10 DEF TargetCodes
    <3> QED BY <2>10, <2>12, <3>5, <3>6 DEF ChangeCodes, BlockedCodes
  <2> QED BY <2>11, <2>12
<1> QED BY <1>1 DEF TemplateCodes, BlockedCodes

LEMMA UnchangedHasNoCode ==
    ASSUME NEW b, NEW h, NEW target,
           \A p \in Keys(b, h) \ {target} : ~ Differ(b, h, p),
           Regular(b, target), Regular(h, target), b[target].mode = h[target].mode
    PROVE  RepositoryCodes(b, h, target) = {}
<1>1. OutsideCodes(b, h, target) = {}
  BY DEF OutsideCodes, Keys, Differ
<1>2. TargetFileCodes(b, h, target) = {}
  BY DEF TargetFileCodes, Regular
<1> QED BY <1>1, <1>2 DEF RepositoryCodes

\* The codes a step adds.
LEMMA CodesAdded ==
    ASSUME NEW found, NEW label, Conclude(found) \/ Continue(label, found)
    PROVE  /\ codes' \cap BlockedCodes = (codes \cup found) \cap BlockedCodes
           /\ decision' = "BLOCKED" => codes' \cap BlockedCodes # {} \/ decision' = decision
<1>1. CASE Continue(label, found)
  BY <1>1 DEF Continue
<1>2. CASE Conclude(found)
  <2>1. codes' \in {codes \cup found, codes \cup found \cup {"contract_not_approved"}}
    BY <1>2 DEF Conclude
  <2>2. "contract_not_approved" \notin BlockedCodes
    BY DEF BlockedCodes
  <2>3. decision' = "BLOCKED" => codes' \cap BlockedCodes # {}
    BY <1>2, DraftIsCapped DEF Conclude, DecisionOf
  <2> QED BY <2>1, <2>2, <2>3
<1> QED BY <1>1, <1>2

LEMMA ViolatedUnchanged ==
    ASSUME UNCHANGED <<baseCommit, contract, headSnap, raw>>
    PROVE  UNCHANGED Violated
BY DEF Violated, OutsideUnchanged, TargetKept, TemplateInScope, Verdict, Statements,
       GuardedLeaf, HeadDoc, BaseDoc, BaseSnap, Target

LEMMA BlockInit == Init => BlockInv
BY RemediationAssumption DEF Init, BlockInv, Decisions

\* The codes of a comparison of both levels.
ComparisonCodes(headBytes) ==
    RepositoryCodes(BaseSnap, headSnap, Target)
    \cup Unparsed(TargetBytes(BaseSnap) \cup headBytes)
    \cup UNION {TemplateCodes(contract, b, h) :
                   b \in Parsed(TargetBytes(BaseSnap)), h \in Parsed(headBytes)}

\* One that blocks is the code of a violation.
LEMMA CompareIsReal ==
    ASSUME NEW headBytes, NEW code,
           headBytes \in {{}, TargetBytes(headSnap)},
           code \in ComparisonCodes(headBytes),
           code \in BlockedCodes
    PROVE  ~ (OutsideUnchanged /\ TargetKept /\ TemplateInScope)
<1>1. CASE code \in RepositoryCodes(BaseSnap, headSnap, Target)
  BY <1>1, UnchangedHasNoCode DEF OutsideUnchanged, TargetKept
<1>2. code \notin Unparsed(TargetBytes(BaseSnap) \cup headBytes)
  BY DEF Unparsed, BlockedCodes
<1>3. ASSUME NEW b \in Parsed(TargetBytes(BaseSnap)), NEW h \in Parsed(headBytes),
             code \in TemplateCodes(contract, b, h)
      PROVE  ~ TemplateInScope
  <2> SUFFICES ASSUME TemplateInScope PROVE FALSE
    OBVIOUS
  <2>1. b = BaseDoc /\ h = HeadDoc
    BY DEF Parsed, TargetBytes, BaseDoc, HeadDoc
  <2>2. IsTemplate(b) /\ IsTemplate(h)
    BY RemediationAssumption DEF Parsed
  <2> QED BY <1>3, <2>1, <2>2, AllowedEditIsNotBlocked DEF TemplateInScope
<1> QED BY <1>1, <1>2, <1>3 DEF ComparisonCodes

LEMMA CompareKeepsBlock == TrustInv /\ BlockInv /\ Compare => BlockInv'
<1> SUFFICES ASSUME TrustInv, BlockInv, Compare PROVE BlockInv'
  OBVIOUS
<1>1. /\ at = "compare" /\ decision # "BLOCKED" /\ UNCHANGED <<bound, headSnap>> /\ codes = {}
  BY RemediationAssumption DEF Compare, TrustInv, BlockInv, BeforeChecks, Decisions
<1>2. UNCHANGED <<OutsideUnchanged, TargetKept, TemplateInScope>>
  BY <1>1 DEF OutsideUnchanged, TargetKept, TemplateInScope, BaseDoc, HeadDoc,
              BaseSnap, Target, bound
<1>3. ASSUME NEW headBytes \in {{}, TargetBytes(headSnap)},
             NEW found \in {{}, {"snapshot_changed"}}, CompareWith(headBytes, found)
      PROVE  BlockInv'
  <2>1. codes' = ComparisonCodes(headBytes) \cup found /\ at' = "check" /\ decision' = decision
    BY <1>1, <1>3 DEF CompareWith, Continue, ComparisonCodes
  <2>2. found \cap BlockedCodes = {}
    BY DEF BlockedCodes
  <2>3. ASSUME NEW code \in codes' \cap BlockedCodes PROVE Violated'
    <3>1. code \in ComparisonCodes(headBytes)
      BY <2>1, <2>2, <2>3
    <3>2. ~ (OutsideUnchanged /\ TargetKept /\ TemplateInScope)
      BY <2>3, <3>1, CompareIsReal
    <3> QED BY <1>2, <3>2 DEF Violated
  <2>4. Rehash'
    BY <1>3 DEF CompareWith, Rehash
  <2> QED BY <1>1, <2>1, <2>3, <2>4 DEF BlockInv
<1>4. ASSUME NEW all,
             all = RepositoryCodes(BaseSnap, headSnap, Target)
                     \cup Unparsed(TargetBytes(BaseSnap)) \cup {"repository_unreadable"},
             Conclude(all)
      PROVE  BlockInv'
  <2>1. /\ codes' \cap BlockedCodes = all \cap BlockedCodes
        /\ decision' = "BLOCKED" => codes' \cap BlockedCodes # {}
    BY <1>1, <1>4, CodesAdded
  <2>2. ASSUME NEW code \in all \cap BlockedCodes PROVE Violated'
    <3>1. code \in RepositoryCodes(BaseSnap, headSnap, Target)
      BY <1>4, <2>2 DEF Unparsed, BlockedCodes
    <3>2. code \in ComparisonCodes({})
      BY <3>1 DEF ComparisonCodes
    <3> QED BY <1>2, <2>2, <3>2, CompareIsReal DEF Violated
  <2> QED BY <1>4, <2>1, <2>2
    DEF BlockInv, BeforeChecks, BeforeTrust, Snapshotting, Conclude
<1>5. ASSUME Regular(headSnap, Target), disk[Target].oid = headSnap[Target].oid
      PROVE  {disk[Target].oid} = TargetBytes(headSnap)
  BY <1>5 DEF TargetBytes
<1> QED BY <1>3, <1>4, <1>5 DEF Compare, CompareWorktree

\* A completed rule's answer is the verdict on the Template.
LEMMA AnswerIsVerdict ==
    ASSUME NEW ts, NEW t, ts = {t}, NEW run \in {GuardRun(ts, {})} \cup GuardFaults(ts),
           NEW r \in Rules, run[r] \in {"PASS", "FAIL"}
    PROVE  run[r] = Verdict(r, t)
<1>1. (CHOOSE x \in ts : TRUE) = t
  OBVIOUS
<1>2. "PASS" \notin DOMAIN FaultCode /\ "FAIL" \notin DOMAIN FaultCode
  BY DEF FaultCode
<1>3. \A f \in ToolFaults : f \notin {"PASS", "FAIL"}
  BY <1>2, RemediationAssumption
<1>4. CASE \E f \in ToolFaults : run = [x \in Rules |-> f]
  BY <1>3, <1>4
<1>5. CASE \E skipped \in SUBSET Rules : run = GuardRun(ts, skipped)
  BY <1>1, <1>5 DEF GuardRun
<1>6. CASE run = GuardRun(ts, {})
  BY <1>1, <1>6 DEF GuardRun
<1> QED BY <1>4, <1>5, <1>6 DEF GuardFaults

\* A statement to preserve that was there can be read.
LEMMA PassedIsReadable ==
    ASSUME NEW t, IsTemplate(t), Verdict(StatementRule, t) = "PASS"
    PROVE  Statements(contract, t) # Unreadable
<1>1. PICK leaf \in GuardedLeaf(contract, t) : leaf \in Passes[StatementRule]
  BY DEF Verdict
<1>2. GuardedLeaf(contract, t) = {leaf}
  BY <1>1 DEF GuardedLeaf
<1>3. leaf \in Leaves
  BY <1>1 DEF GuardedLeaf, IsTemplate, Resource, Mappings
<1>4. (CHOOSE x \in GuardedLeaf(contract, t) : TRUE) = leaf
  BY <1>2
<1> QED BY <1>1, <1>2, <1>3, <1>4, RulesAssumption DEF Statements

LEMMA CheckKeepsBlock ==
    TrustInv /\ EvidenceInv /\ BlockInv /\ Check => BlockInv'
<1> SUFFICES ASSUME TrustInv, EvidenceInv, BlockInv, Check PROVE BlockInv'
  OBVIOUS
<1> DEFINE hs == HeadTemplates
<1>1. /\ decision # "BLOCKED" /\ UNCHANGED <<bound, headSnap, raw>>
      /\ raw \in {None, headSnap[Target].oid}
      /\ codes \cap BlockedCodes # {} => Violated
  BY RemediationAssumption DEF Check, TrustInv, EvidenceInv, BlockInv, Decisions
<1>2. UNCHANGED Violated
  BY <1>1, ViolatedUnchanged DEF bound
<1>3. Rehash'
  BY DEF Check, RunChecks, BlockInv, Rehash
<1>4. ASSUME NEW found, Continue("list", found) \/ Conclude(found),
             found \cap BlockedCodes # {} => Violated
      PROVE  BlockInv'
  <2>1. /\ codes' \cap BlockedCodes = (codes \cup found) \cap BlockedCodes
        /\ decision' = "BLOCKED" => codes' \cap BlockedCodes # {}
    BY <1>1, <1>4, CodesAdded
  <2>2. at' \in {"list", "done"}
    BY <1>4 DEF Continue, Conclude
  <2> QED BY <1>1, <1>2, <1>3, <1>4, <2>1, <2>2
    DEF BlockInv, BeforeChecks, BeforeTrust, Snapshotting
<1>5. ASSUME NEW t \in Parsed(TargetBytes(BaseSnap)), RunChecks(t, hs) PROVE BlockInv'
  <2>1. t = BaseDoc /\ IsTemplate(t)
    BY RemediationAssumption DEF Parsed, TargetBytes, BaseDoc
  <2>2. PICK run, found :
            /\ run \in CheckRuns(t, hs)
            /\ found = FaultsOf({run.lint} \cup {run.guardBase[r] : r \in Rules}
                                \cup {run.guardHead[r] : r \in Rules})
                  \cup {c \in {"check_failed"} : run.lint = "FAIL"}
                  \cup OutcomeCodes(run.guardBase[OutcomeRule], run.guardHead[OutcomeRule])
                  \cup StatementCodes(StatementOnBase(run.guardBase[StatementRule], t),
                                      StatementOnHead(run.guardHead[StatementRule], t, hs))
            /\ Continue("list", found) \/ Conclude(found)
    BY <1>5 DEF RunChecks
  <2>3. /\ run.lint \in {LintRun(hs)} \cup LintFaults(hs)
        /\ run.guardBase \in {GuardRun({t}, {})} \cup GuardFaults({t})
        /\ run.guardHead \in {GuardRun(hs, {})} \cup GuardFaults(hs)
    BY <2>2 DEF CheckRuns
  <2>4. hs = {} \/ hs = {HeadDoc}
    BY <1>1 DEF HeadTemplates, Parsed, HeadDoc
  <2>5. OutcomeRule \in Rules /\ StatementRule \in Rules
    BY DEF Rules
  <2>6. ASSUME NEW r \in Rules, run.guardHead[r] \in {"PASS", "FAIL"}
        PROVE  hs = {HeadDoc} /\ run.guardHead[r] = Verdict(r, HeadDoc)
    <3>1. hs # {}
      BY <2>3, <2>6 DEF GuardRun, GuardFaults, NotRun
    <3> QED BY <2>3, <2>4, <2>6, <3>1, AnswerIsVerdict
  <2>7. ASSUME "check_failed" \in found PROVE Violated
    <3>1. run.lint = "FAIL"
      BY <2>2, <2>7 DEF FaultsOf, FaultCode, OutcomeCodes, StatementCodes
    <3>2. "FAIL" \notin ToolFaults
      BY RemediationAssumption DEF FaultCode
    <3> QED BY <2>3, <3>1, <3>2 DEF LintRun, LintFaults, Violated
  <2>8. ASSUME "outcome_not_achieved" \in found PROVE Violated
    <3>1. run.guardHead[OutcomeRule] = "FAIL"
      BY <2>2, <2>8 DEF FaultsOf, FaultCode, OutcomeCodes, StatementCodes
    <3> QED BY <2>5, <2>6, <3>1 DEF Violated
  <2>9. ASSUME "invariant_violated" \in found PROVE Violated
    <3>1. /\ StatementOnBase(run.guardBase[StatementRule], t) = "PASS"
          /\ StatementOnHead(run.guardHead[StatementRule], t, hs) = "FAIL"
      BY <2>2, <2>9 DEF FaultsOf, FaultCode, OutcomeCodes, StatementCodes
    <3>2. run.guardBase[StatementRule] = "PASS"
      BY <3>1 DEF StatementOnBase
    <3>3. Verdict(StatementRule, BaseDoc) = "PASS"
      BY <2>1, <2>3, <2>5, <3>2, AnswerIsVerdict
    <3>4. Statements(contract, BaseDoc) # Unreadable
      BY <2>1, <3>3, PassedIsReadable
    <3>5. CASE run.guardHead[StatementRule] = "FAIL"
      BY <2>5, <2>6, <3>3, <3>5 DEF Violated
    <3>6. CASE /\ run.guardHead[StatementRule] = "PASS"
               /\ \E h \in hs : \/ Statements(contract, h) = Unreadable
                                \/ Statements(contract, h) # Statements(contract, t)
      BY <2>1, <2>5, <2>6, <3>3, <3>4, <3>6 DEF Violated
    <3> QED BY <3>1, <3>5, <3>6 DEF StatementOnHead
  <2>10. found \cap BlockedCodes
             \subseteq {"check_failed", "outcome_not_achieved", "invariant_violated"}
    <3>1. \A s \in DOMAIN FaultCode : FaultCode[s] \notin BlockedCodes
      BY DEF FaultCode, BlockedCodes
    <3>2. \A S : FaultsOf(S) \cap BlockedCodes = {}
      BY <3>1 DEF FaultsOf
    <3>3. \A b, h : OutcomeCodes(b, h) \cap BlockedCodes \subseteq {"outcome_not_achieved"}
      BY DEF OutcomeCodes, BlockedCodes
    <3>4. \A b, h : StatementCodes(b, h) \cap BlockedCodes \subseteq {"invariant_violated"}
      BY DEF StatementCodes, BlockedCodes
    <3> QED BY <2>2, <3>2, <3>3, <3>4
  <2> QED BY <1>4, <2>2, <2>7, <2>8, <2>9, <2>10
<1>6. ASSUME Continue("list", {}) \/ Conclude({}) PROVE BlockInv'
  BY <1>4, <1>6
<1> QED BY <1>5, <1>6 DEF Check

LEMMA BlockStep == TrustInv /\ EvidenceInv /\ BlockInv /\ [Next]_vars => BlockInv'
<1> SUFFICES ASSUME TrustInv, EvidenceInv, BlockInv, [Next]_vars PROVE BlockInv'
  OBVIOUS
<1>0. at # "done" => decision # "BLOCKED"
  BY RemediationAssumption DEF TrustInv, Decisions
<1>1. CASE LoadContract \/ ResolveBase \/ ResolveHead
  <2>1. codes = {} /\ at # "done"
    BY <1>1 DEF LoadContract, ResolveBase, ResolveHead, TrustInv, BeforeTrust
  <2>2. ASSUME NEW found, Conclude(found), found \cap BlockedCodes = {} PROVE BlockInv'
    <3>1. codes' \cap BlockedCodes = {} /\ decision' # "BLOCKED"
      BY <1>0, <2>1, <2>2, CodesAdded
    <3> QED BY <2>2, <3>1 DEF BlockInv, BeforeChecks, BeforeTrust, Snapshotting, Conclude
  <2>3. ASSUME NEW label, Continue(label, {}), label # "check" PROVE BlockInv'
    BY <1>0, <2>1, <2>3 DEF BlockInv, Continue
  <2>4. \A c, b, h : TrustCodes(c, b, h) \cap BlockedCodes = {}
    BY DEF TrustCodes, BlockedCodes
  <2>5. {"revision_not_found", "contract_not_found", "contract_invalid"} \cap BlockedCodes = {}
    BY DEF BlockedCodes
  <2>6. CASE LoadContract
    BY <2>2, <2>3, <2>5, <2>6 DEF LoadContract
  <2>7. CASE ResolveBase
    BY <2>2, <2>3, <2>5, <2>7 DEF ResolveBase
  <2>8. CASE ResolveHead
    BY <2>2, <2>3, <2>4, <2>5, <2>8 DEF ResolveHead
  <2> QED BY <1>1, <2>6, <2>7, <2>8
<1>2. CASE ListIndex \/ HashNext \/ ListOthers
  <2>1. /\ at \in Snapshotting /\ at' \in Snapshotting
        /\ UNCHANGED <<stage, codes, decision, bound, headSnap, raw>>
    BY <1>2 DEF ListIndex, HashNext, ListOthers, Continue, Snapshotting
  <2>2. UNCHANGED Violated
    BY <2>1, ViolatedUnchanged DEF bound
  <2> QED BY <2>1, <2>2 DEF BlockInv, BeforeChecks, BeforeTrust, Snapshotting, Rehash
<1>3. CASE TornRead \/ (SnapshotDone /\ Rehash)
  <2>1. PICK found \in {{}, {"snapshot_changed"}} :
            /\ Conclude(found)
            /\ UNCHANGED <<bound, headSnap, raw>>
    BY <1>3 DEF TornRead, SnapshotDone
  <2>2. found \cap BlockedCodes = {} /\ at # "done"
    BY <1>3 DEF BlockedCodes, TornRead, SnapshotDone
  <2>3. /\ codes' \cap BlockedCodes = codes \cap BlockedCodes
        /\ decision' = "BLOCKED" => codes' \cap BlockedCodes # {}
    BY <1>0, <2>1, <2>2, CodesAdded
  <2>4. UNCHANGED Violated
    BY <2>1, ViolatedUnchanged DEF bound
  <2> QED BY <2>1, <2>3, <2>4 DEF BlockInv, BeforeChecks, BeforeTrust, Snapshotting, Conclude
<1>4. CASE SnapshotDone /\ ~ Rehash
  <2>1. at = "hash others" /\ at' = "compare" /\ codes' = codes /\ decision' = decision
    BY <1>4 DEF SnapshotDone, Continue
  <2>2. codes = {}
    BY <1>4, <2>1 DEF BlockInv, BeforeChecks, Snapshotting
  <2> QED BY <1>0, <2>1, <2>2 DEF BlockInv
<1>5. CASE Compare
  BY <1>5, CompareKeepsBlock
<1>6. CASE Check
  BY <1>6, CheckKeepsBlock
<1>7. CASE \/ MoveBranch
           \/ \E p \in PathSet : WriteFile(p) \/ RemoveFile(p) \/ ChangeIndex(p)
           \/ UNCHANGED vars
  <2>1. UNCHANGED <<at, stage, bound, headSnap, raw, codes, decision>>
    BY <1>7 DEF MoveBranch, WriteFile, RemoveFile, ChangeIndex, Edit, vars
  <2>2. UNCHANGED Violated
    BY <2>1, ViolatedUnchanged DEF bound
  <2> QED BY <2>1, <2>2 DEF BlockInv, BeforeChecks, BeforeTrust, Snapshotting, Rehash
<1> QED BY <1>1, <1>2, <1>3, <1>4, <1>5, <1>6, <1>7 DEF Next, Finished

\* BLOCKED names a violation, of the contract, by a check or by a rule.
THEOREM BlockHolds == Spec => []BlockedIsReal
<1>1. BlockInv => BlockedIsReal
  BY DEF BlockInv, Violated, BlockedIsReal
<1>2. Spec => []TrustInv
  BY TrustInit, TrustStep, PTL DEF Spec
<1>3. Spec => []StayInv
  BY <1>2, StayInit, StayStep, PTL DEF Spec
<1>4. Spec => []EvidenceInv
  BY <1>2, <1>3, EvidenceInit, EvidenceStep, PTL DEF Spec
<1> QED BY <1>1, <1>2, <1>4, BlockInit, BlockStep, PTL DEF Spec

-----------------------------------------------------------------------------
\* What a standing change of the working tree is hidden by.

\* A file that is there and is not in the snapshot in the making, or in Head's.
Missing(p) == p \in DOMAIN disk /\ p \notin todo \cup DOMAIN got
Hidden(p) == p \in DOMAIN disk /\ p \notin DOMAIN headSnap

SameOnDisk(files, p) == p \in DOMAIN files => p \in DOMAIN disk /\ files[p] = disk[p]

\* The first snapshot misses a file that is staged and not in its listing of the
\* index when it lists the others: one change of the index, and another to take
\* the file out of the index again.
MissedOnce(p) == edits >= 1 /\ (p \notin tracked => edits >= 2)

\* The places between the two snapshots.
BetweenSnapshots == at \in {"compare", "check"} \/ (at = "list" /\ Rehash)

\* How many changes it has taken, at each place, to keep p out of what was read.
HiddenAtCost(p) ==
    /\ at = "hash" /\ ~ Rehash /\ Missing(p) => (p \in tracked => edits >= 1)
    /\ at = "hash others" /\ ~ Rehash /\ Missing(p) => MissedOnce(p)
    /\ BetweenSnapshots /\ Hidden(p) => MissedOnce(p)
    /\ at = "hash" /\ Rehash /\ Hidden(p) /\ Missing(p) =>
         edits >= 2 /\ (p \in tracked => edits >= 3)
    /\ at = "hash others" /\ Rehash /\ Hidden(p) /\ Missing(p) => edits >= 3
    /\ decision = "VERIFIED" /\ Hidden(p) => edits >= 3

\* The inductive invariant: what a snapshot holds of an untouched file is the
\* file, and what it does not hold took changes of the index to hide.
StandingOf(p) ==
    /\ SameOnDisk(got, p)
    /\ SameOnDisk(headSnap, p)
    /\ HiddenAtCost(p)

StandingInv ==
    /\ edits \in Nat
    /\ Worktree => \A p \in PathSet \ touched : StandingOf(p)

LEMMA StandingInit == Init => StandingInv
BY RemediationAssumption
  DEF Init, StandingInv, StandingOf, SameOnDisk, HiddenAtCost, BetweenSnapshots, Decisions

\* A step that leaves the files, the index and the snapshots alone, and ends at
\* a place where nothing has to be known of them.
LEMMA QuietStep ==
    ASSUME StandingInv, decision' # "VERIFIED",
           UNCHANGED <<disk, tracked, edits, touched, request, got, headSnap>>,
           at' \in BeforeTrust \cup {"done"} \/ (at' = "list" /\ ~ Rehash')
    PROVE  StandingInv'
BY DEF StandingInv, StandingOf, SameOnDisk, HiddenAtCost, BetweenSnapshots, BeforeTrust, Worktree

LEMMA EarlyKeepsStanding ==
    TrustInv /\ StayInv /\ StayInv' /\ StandingInv /\ (LoadContract \/ ResolveBase \/ ResolveHead)
        => StandingInv'
<1> SUFFICES ASSUME TrustInv, StayInv, StayInv', StandingInv,
                    LoadContract \/ ResolveBase \/ ResolveHead
             PROVE  StandingInv'
  OBVIOUS
<1>1. /\ at \in BeforeTrust
      /\ UNCHANGED <<disk, tracked, edits, touched, request, got, states>>
  BY DEF LoadContract, ResolveBase, ResolveHead, BeforeTrust, env
<1>2. decision' # "VERIFIED"
  BY <1>1 DEF StayInv, BeforeChecks
<1>3. CASE LoadContract \/ ResolveBase
  <2>1. at' \in BeforeTrust \cup {"done"} /\ UNCHANGED headSnap
    BY <1>3 DEF LoadContract, ResolveBase, Continue, Conclude, BeforeTrust
  <2> QED BY <1>1, <1>2, <2>1, QuietStep
<1>4. CASE ResolveHead /\ ~ Worktree
  BY <1>1, <1>4 DEF StandingInv, Worktree
<1>5. CASE ResolveHead /\ Worktree
  <2>1. (at' = "done" \/ (at' = "list" /\ ~ Rehash')) /\ UNCHANGED headSnap
    BY <1>5 DEF ResolveHead, Continue, Conclude, Rehash
  <2> QED BY <1>1, <1>2, <2>1, QuietStep
<1> QED BY <1>3, <1>4, <1>5

\* Another process writes, removes, adds to the index or takes from it.
LEMMA EditKeepsStanding ==
    ASSUME TrustInv, StandingInv, NEW p \in PathSet,
           WriteFile(p) \/ RemoveFile(p) \/ ChangeIndex(p)
    PROVE  StandingInv'
<1>1. /\ edits' = edits + 1 /\ edits \in Nat
      /\ at # "done"
      /\ UNCHANGED <<request, at, stage, headSnap, todo, got, decision>>
      /\ touched \subseteq touched'
  BY DEF WriteFile, RemoveFile, ChangeIndex, Edit, StandingInv
<1>2. decision' # "VERIFIED"
  BY <1>1, RemediationAssumption DEF TrustInv, Decisions
<1>3. ASSUME Worktree, NEW q \in PathSet \ touched' PROVE StandingOf(q)'
  <2>1. StandingOf(q)
    BY <1>1, <1>3 DEF StandingInv
  <2>2. /\ q \in DOMAIN disk <=> q \in DOMAIN disk'
        /\ q \in DOMAIN disk => disk'[q] = disk[q]
    BY <1>3 DEF WriteFile, RemoveFile, ChangeIndex
  <2>3. Missing(q)' <=> Missing(q)
    BY <1>1, <2>2 DEF Missing
  <2>4. Hidden(q)' <=> Hidden(q)
    BY <1>1, <2>2 DEF Hidden
  <2>5. SameOnDisk(got, q)' /\ SameOnDisk(headSnap, q)'
    BY <1>1, <2>1, <2>2 DEF StandingOf, SameOnDisk
  <2>6. (Rehash' <=> Rehash) /\ (BetweenSnapshots' <=> BetweenSnapshots)
    BY <1>1 DEF Rehash, BetweenSnapshots
  <2>7. MissedOnce(q) => MissedOnce(q)'
    BY <1>1 DEF MissedOnce
  <2>8. /\ edits' >= 1
        /\ edits >= 2 => edits' >= 3
        /\ edits >= 3 => edits' >= 3
    BY <1>1
  <2>9. HiddenAtCost(q)
    BY <2>1 DEF StandingOf
  <2>10. HiddenAtCost(q)'
    <3>1. at' = "hash" /\ Rehash' /\ Hidden(q)' /\ Missing(q)' => edits' >= 3 /\ edits' >= 2
      BY <1>1, <2>3, <2>4, <2>6, <2>8, <2>9 DEF HiddenAtCost
    <3>2. at' = "hash others" /\ Rehash' /\ Hidden(q)' /\ Missing(q)' => edits' >= 3
      BY <1>1, <2>3, <2>4, <2>6, <2>8, <2>9 DEF HiddenAtCost
    <3>3. at' = "hash others" /\ ~ Rehash' /\ Missing(q)' => MissedOnce(q)'
      BY <1>1, <2>3, <2>6, <2>7, <2>9 DEF HiddenAtCost
    <3>4. BetweenSnapshots' /\ Hidden(q)' => MissedOnce(q)'
      BY <2>4, <2>6, <2>7, <2>9 DEF HiddenAtCost
    <3> QED BY <1>2, <2>8, <3>1, <3>2, <3>3, <3>4 DEF HiddenAtCost
  <2> QED BY <2>5, <2>10 DEF StandingOf
<1> QED BY <1>1, <1>3 DEF StandingInv, Worktree

\* A step of the call between trust and its end leaves the files alone: a path
\* at a time is enough.
LEMMA CallKeepsStanding ==
    ASSUME StandingInv, UNCHANGED <<disk, tracked, edits, touched, request>>,
           ASSUME Worktree, NEW p \in PathSet \ touched, StandingOf(p)
           PROVE  StandingOf(p)'
    PROVE  StandingInv'
BY DEF StandingInv, Worktree

LEMMA ListKeepsStanding == TrustInv /\ StandingInv /\ ListIndex => StandingInv'
<1> SUFFICES ASSUME TrustInv, StandingInv, ListIndex PROVE StandingInv'
  OBVIOUS
<1>1. /\ UNCHANGED <<disk, tracked, edits, touched, request, stage, headSnap, decision>>
      /\ at = "list" /\ at' = "hash" /\ todo' = tracked /\ got' = <<>> /\ decision # "VERIFIED"
  BY RemediationAssumption DEF ListIndex, Continue, TrustInv, Decisions, env
<1>2. ASSUME NEW p \in PathSet \ touched, StandingOf(p) PROVE StandingOf(p)'
  <2>1. Missing(p)' => p \notin tracked
    BY <1>1 DEF Missing
  <2>2. UNCHANGED <<Rehash, Hidden(p)>>
    BY <1>1 DEF Rehash, Hidden
  <2>3. DOMAIN got' = {}
    BY <1>1
  <2>4. SameOnDisk(got, p)' /\ SameOnDisk(headSnap, p)'
    BY <1>1, <1>2, <2>3 DEF StandingOf, SameOnDisk
  <2>5. Rehash /\ Hidden(p) => MissedOnce(p)
    BY <1>1, <1>2 DEF StandingOf, HiddenAtCost, BetweenSnapshots
  <2>6. HiddenAtCost(p)'
    BY <1>1, <2>1, <2>2, <2>5 DEF HiddenAtCost, BetweenSnapshots, MissedOnce
  <2> QED BY <2>4, <2>6 DEF StandingOf
<1> QED BY <1>1, <1>2, CallKeepsStanding

LEMMA HashKeepsStanding == TrustInv /\ StandingInv /\ HashNext => StandingInv'
<1> SUFFICES ASSUME TrustInv, StandingInv, HashNext PROVE StandingInv'
  OBVIOUS
<1> DEFINE f == First(todo)
           read == DOMAIN disk \cap {f}
<1>1. /\ UNCHANGED <<disk, tracked, edits, touched, request, at, stage, headSnap, decision>>
      /\ todo' = todo \ {f}
      /\ got' = [p \in DOMAIN got \cup read |-> IF p \in read THEN disk[p] ELSE got[p]]
  BY DEF HashNext, env
<1> HIDE DEF f
<1>2. ASSUME NEW p \in PathSet \ touched, StandingOf(p) PROVE StandingOf(p)'
  <2>1. Missing(p)' => Missing(p)
    BY <1>1 DEF Missing
  <2>2. UNCHANGED <<Rehash, Hidden(p), BetweenSnapshots, MissedOnce(p)>>
    BY <1>1 DEF Rehash, Hidden, BetweenSnapshots, MissedOnce
  <2>3. SameOnDisk(got, p)' /\ SameOnDisk(headSnap, p)'
    BY <1>1, <1>2 DEF StandingOf, SameOnDisk
  <2>4. HiddenAtCost(p)'
    BY <1>1, <1>2, <2>1, <2>2 DEF StandingOf, HiddenAtCost
  <2> QED BY <2>3, <2>4 DEF StandingOf
<1> QED BY <1>1, <1>2, CallKeepsStanding

LEMMA OthersKeepStanding == TrustInv /\ StandingInv /\ ListOthers => StandingInv'
<1> SUFFICES ASSUME TrustInv, StandingInv, ListOthers PROVE StandingInv'
  OBVIOUS
<1>1. /\ UNCHANGED <<disk, tracked, edits, touched, request, stage, headSnap, got, decision>>
      /\ at = "hash" /\ at' = "hash others" /\ todo = {} /\ todo' = DOMAIN disk \ tracked
      /\ decision # "VERIFIED"
  BY RemediationAssumption DEF ListOthers, Continue, TrustInv, Decisions, env
<1>2. ASSUME NEW p \in PathSet \ touched, StandingOf(p) PROVE StandingOf(p)'
  <2>1. Missing(p)' => Missing(p) /\ p \in tracked
    BY <1>1 DEF Missing
  <2>2. UNCHANGED <<Rehash, Hidden(p), MissedOnce(p)>>
    BY <1>1 DEF Rehash, Hidden, MissedOnce
  <2>3. SameOnDisk(got, p)' /\ SameOnDisk(headSnap, p)'
    BY <1>1, <1>2 DEF StandingOf, SameOnDisk
  <2>4. HiddenAtCost(p)'
    BY <1>1, <1>2, <2>1, <2>2 DEF StandingOf, HiddenAtCost, BetweenSnapshots, MissedOnce
  <2> QED BY <2>3, <2>4 DEF StandingOf
<1> QED BY <1>1, <1>2, CallKeepsStanding

LEMMA DoneKeepsStanding == TrustInv /\ StandingInv /\ SnapshotDone => StandingInv'
<1> SUFFICES ASSUME TrustInv, StandingInv, SnapshotDone PROVE StandingInv'
  OBVIOUS
<1>1. /\ UNCHANGED <<disk, tracked, edits, touched, request, stage, got>>
      /\ at = "hash others" /\ todo = {} /\ decision # "VERIFIED"
  BY RemediationAssumption DEF SnapshotDone, TrustInv, Decisions, env
<1>2. CASE ~ Rehash
  <2>1. at' = "compare" /\ headSnap' = got /\ decision' = decision
    BY <1>2 DEF SnapshotDone, Continue
  <2>2. ASSUME NEW p \in PathSet \ touched, StandingOf(p) PROVE StandingOf(p)'
    <3>1. Hidden(p)' => Missing(p)
      BY <1>1, <2>1 DEF Hidden, Missing
    <3>2. SameOnDisk(got, p)' /\ SameOnDisk(headSnap, p)'
      BY <1>1, <2>1, <2>2 DEF StandingOf, SameOnDisk
    <3>3. HiddenAtCost(p)'
      BY <1>1, <1>2, <2>1, <2>2, <3>1 DEF StandingOf, HiddenAtCost, MissedOnce
    <3> QED BY <3>2, <3>3 DEF StandingOf
  <2> QED BY <1>1, <2>2, CallKeepsStanding
<1>3. CASE Rehash
  <2>1. /\ Conclude({c \in {"snapshot_changed"} : got # headSnap})
        /\ UNCHANGED headSnap
    BY <1>3 DEF SnapshotDone
  <2>2. at' = "done" /\ (decision' = "VERIFIED" => got = headSnap)
    BY <2>1, VerifiedHasNoCode DEF Conclude
  <2>3. ASSUME NEW p \in PathSet \ touched, StandingOf(p) PROVE StandingOf(p)'
    <3>1. Hidden(p)' /\ got = headSnap => Hidden(p) /\ Missing(p)
      BY <1>1, <2>1 DEF Hidden, Missing
    <3>2. SameOnDisk(got, p)' /\ SameOnDisk(headSnap, p)'
      BY <1>1, <2>1, <2>3 DEF StandingOf, SameOnDisk
    <3>3. HiddenAtCost(p)'
      BY <1>1, <1>3, <2>2, <2>3, <3>1 DEF StandingOf, HiddenAtCost, BetweenSnapshots
    <3> QED BY <3>2, <3>3 DEF StandingOf
  <2> QED BY <1>1, <2>3, CallKeepsStanding
<1> QED BY <1>2, <1>3

LEMMA CompareKeepsStanding ==
    TrustInv /\ StayInv /\ StayInv' /\ StandingInv /\ Compare => StandingInv'
<1> SUFFICES ASSUME TrustInv, StayInv, StayInv', StandingInv, Compare PROVE StandingInv'
  OBVIOUS
<1>1. /\ UNCHANGED <<disk, tracked, edits, touched, request, headSnap, got, states>>
      /\ at = "compare" /\ at' \in {"check", "done"}
  BY DEF Compare, CompareWorktree, CompareWith, Continue, Conclude, env
<1>2. decision' # "VERIFIED"
  BY <1>1 DEF StayInv, BeforeChecks
<1>3. ASSUME NEW p \in PathSet \ touched, StandingOf(p) PROVE StandingOf(p)'
  <2>1. Hidden(p)' <=> Hidden(p)
    BY <1>1 DEF Hidden
  <2>2. SameOnDisk(got, p)' /\ SameOnDisk(headSnap, p)'
    BY <1>1, <1>3 DEF StandingOf, SameOnDisk
  <2>3. HiddenAtCost(p)'
    BY <1>1, <1>2, <1>3, <2>1 DEF StandingOf, HiddenAtCost, BetweenSnapshots, MissedOnce
  <2> QED BY <2>2, <2>3 DEF StandingOf
<1> QED BY <1>1, <1>3, CallKeepsStanding

LEMMA CheckKeepsStanding == TrustInv /\ BlockInv /\ StandingInv /\ Check => StandingInv'
<1> SUFFICES ASSUME TrustInv, BlockInv, StandingInv, Check PROVE StandingInv'
  OBVIOUS
<1>1. /\ UNCHANGED <<disk, tracked, edits, touched, request, headSnap, got>>
      /\ at = "check" /\ decision # "VERIFIED"
  BY RemediationAssumption DEF Check, TrustInv, Decisions, env
<1>2. ASSUME Worktree, NEW p \in PathSet \ touched, StandingOf(p) PROVE StandingOf(p)'
  <2>1. at' = "list" /\ Rehash' /\ decision' = decision
    BY <1>1, <1>2 DEF Check, RunChecks, Continue, BlockInv, Rehash
  <2>2. Hidden(p)' <=> Hidden(p)
    BY <1>1 DEF Hidden
  <2>3. SameOnDisk(got, p)' /\ SameOnDisk(headSnap, p)'
    BY <1>1, <1>2 DEF StandingOf, SameOnDisk
  <2>4. HiddenAtCost(p)'
    BY <1>1, <1>2, <2>1, <2>2 DEF StandingOf, HiddenAtCost, BetweenSnapshots, MissedOnce
  <2> QED BY <2>3, <2>4 DEF StandingOf
<1> QED BY <1>1, <1>2, CallKeepsStanding

LEMMA StandingStep ==
    TrustInv /\ StayInv /\ StayInv' /\ BlockInv /\ StandingInv /\ [Next]_vars => StandingInv'
<1> SUFFICES ASSUME TrustInv, StayInv, StayInv', BlockInv, StandingInv, [Next]_vars
             PROVE  StandingInv'
  OBVIOUS
<1>1. CASE LoadContract \/ ResolveBase \/ ResolveHead
  BY <1>1, EarlyKeepsStanding
<1>2. CASE ListIndex \/ HashNext \/ ListOthers \/ SnapshotDone
  BY <1>2, ListKeepsStanding, HashKeepsStanding, OthersKeepStanding, DoneKeepsStanding
<1>3. CASE TornRead
  <2>1. /\ UNCHANGED <<disk, tracked, request, got, headSnap>>
        /\ edits' = edits + 1 /\ touched \subseteq touched'
    BY <1>3 DEF TornRead
  <2>2. at' = "done" /\ decision' # "VERIFIED"
    BY <1>3, VerifiedHasNoCode DEF TornRead, Conclude
  <2>3. ASSUME Worktree, NEW p \in PathSet \ touched' PROVE StandingOf(p)'
    <3>1. SameOnDisk(got, p) /\ SameOnDisk(headSnap, p)
      BY <2>1, <2>3 DEF StandingInv, StandingOf
    <3>2. HiddenAtCost(p)'
      BY <2>2 DEF HiddenAtCost, BetweenSnapshots
    <3> QED BY <2>1, <3>1, <3>2 DEF StandingOf, SameOnDisk
  <2>4. edits' \in Nat
    BY <2>1 DEF StandingInv
  <2> QED BY <2>1, <2>3, <2>4 DEF StandingInv, Worktree
<1>4. CASE Compare \/ Check
  BY <1>4, CompareKeepsStanding, CheckKeepsStanding
<1>5. CASE MoveBranch \/ UNCHANGED vars
  BY <1>5 DEF MoveBranch, vars, env, bound, StandingInv, StandingOf, SameOnDisk, HiddenAtCost,
              BetweenSnapshots, MissedOnce, Missing, Hidden, Rehash, Worktree
<1>6. CASE \E p \in PathSet : WriteFile(p) \/ RemoveFile(p) \/ ChangeIndex(p)
  BY <1>6, EditKeepsStanding
<1> QED BY <1>1, <1>2, <1>3, <1>4, <1>5, <1>6 DEF Next, Finished

\* Fewer than three changes cannot keep an untouched file out of both snapshots.
LEMMA StandingIsSeen ==
    StayInv /\ EvidenceInv /\ StandingInv /\ edits <= 2 => StandingChangeIsSeen
<1> SUFFICES ASSUME StayInv, EvidenceInv, StandingInv, edits <= 2,
                    decision = "VERIFIED", Worktree, NEW p \in PathSet \ touched
             PROVE  IF p = Target THEN Regular(disk, p) /\ disk[p].oid = raw
                    ELSE p \in Keys(BaseSnap, disk) => ~ Differ(BaseSnap, disk, p)
  BY DEF StandingChangeIsSeen
<1>1. InContract /\ raw = headSnap[Target].oid
  BY DEF StayInv, EvidenceInv, Evidenced
<1>2. SameOnDisk(headSnap, p) /\ ~ Hidden(p)
  <2>1. StandingOf(p) /\ ~ (edits >= 3)
    BY DEF StandingInv
  <2> QED BY <2>1 DEF StandingOf, HiddenAtCost
<1>3. CASE p = Target
  BY <1>1, <1>2, <1>3 DEF InContract, TargetKept, Regular, SameOnDisk
<1>4. CASE p # Target
  BY <1>1, <1>2, <1>4 DEF InContract, OutsideUnchanged, Keys, Differ, SameOnDisk, Hidden
<1> QED BY <1>3, <1>4

\* As long as other processes made at most two changes of the working tree or
\* the index, a VERIFIED preview has seen every file they did not touch: two
\* listings miss a file only if the index is changed between the listings of
\* either, and changed back in between (worktree_snapshot, twice).
THEOREM StandingHolds == Spec => [](edits <= 2 => StandingChangeIsSeen)
<1>1. Spec => []TrustInv
  BY TrustInit, TrustStep, PTL DEF Spec
<1>2. Spec => []StayInv
  BY <1>1, StayInit, StayStep, PTL DEF Spec
<1>3. Spec => []EvidenceInv
  BY <1>1, <1>2, EvidenceInit, EvidenceStep, PTL DEF Spec
<1>4. Spec => []BlockInv
  BY <1>1, <1>3, BlockInit, BlockStep, PTL DEF Spec
<1>5. Spec => []StandingInv
  BY <1>1, <1>2, <1>4, StandingInit, StandingStep, PTL DEF Spec
<1> QED BY <1>2, <1>3, <1>5, StandingIsSeen, PTL

-----------------------------------------------------------------------------
\* Types.

Catalogue == ErrorCodes \cup BlockedCodes \cup UnverifiedCodes

LEMMA LeastNumber ==
    ASSUME NEW T \in SUBSET Nat, T # {}
    PROVE  \E n \in T : \A m \in T : n <= m
<1>1. PICK n \in T : \A m \in T : ~ (<<m, n>> \in OpToRel(<, Nat))
  BY NatLessThanWellFounded, WFMin
<1>2. \A m \in T : ~ (m < n)
  BY <1>1 DEF OpToRel
<1> QED BY <1>2

\* A listing names a path of the set it lists.
LEMMA FirstIsListed ==
    ASSUME NEW S \in SUBSET PathSet, S # {}
    PROVE  First(S) \in S
<1> DEFINE places == {i \in DOMAIN Paths : Paths[i] \in S}
<1>1. places \in SUBSET Nat
  BY RemediationAssumption
<1>2. places # {}
  BY DEF PathSet
<1>3. \E i \in places : \A j \in places : i <= j
  <2> HIDE DEF places
  <2> QED BY <1>1, <1>2, LeastNumber
<1>4. (CHOOSE i \in places : \A j \in places : i <= j) \in places
  BY <1>3
<1> QED BY <1>4 DEF First

\* Every code of the comparison of two Templates is in the catalogue.
LEMMA TemplateCodesInCatalogue ==
    ASSUME NEW scope, NEW b, NEW h
    PROVE  TemplateCodes(scope, b, h) \subseteq Catalogue
<1>1. ASSUME NEW change PROVE ChangeCodes(scope, change, b, h) \subseteq Catalogue
  <2>1. ResourceCode(scope, change, b, h) \in BlockedCodes
    BY DEF ResourceCode, BlockedCodes
  <2>2. TargetCodes(scope, change, b, h) \subseteq BlockedCodes \cup UnverifiedCodes
    BY DEF TargetCodes, BlockedCodes, UnverifiedCodes
  <2>3. /\ "comparison_incomplete" \in UnverifiedCodes
        /\ "template_change_outside_scope" \in BlockedCodes
    BY DEF BlockedCodes, UnverifiedCodes
  <2> QED BY <2>1, <2>2, <2>3 DEF ChangeCodes, Catalogue
<1>2. {"comparison_incomplete", "unsupported_construct", "target_resource_missing"}
          \subseteq Catalogue
  BY DEF Catalogue, UnverifiedCodes
<1> QED BY <1>1, <1>2 DEF TemplateCodes

LEMMA RepositoryCodesInCatalogue ==
    ASSUME NEW b, NEW h, NEW target
    PROVE  RepositoryCodes(b, h, target) \subseteq Catalogue
<1>1. OutsideCodes(b, h, target) \subseteq BlockedCodes
  BY DEF OutsideCodes, BlockedCodes
<1>2. TargetFileCodes(b, h, target) \subseteq BlockedCodes
  BY DEF TargetFileCodes, BlockedCodes
<1> QED BY <1>1, <1>2 DEF RepositoryCodes, Catalogue

\* The types, what a call records and how it ends apart.
EnvTypes ==
    /\ tracked \subseteq PathSet
    /\ edits \in 0 .. MaxEdits
    /\ moves \in 0 .. MaxMoves
    /\ touched \subseteq PathSet
    /\ todo \subseteq PathSet

CallTypes ==
    /\ request \in Request
    /\ stage \in {"start", "contract_loaded", "trust_established",
                  "boundary_checked", "checks_run"}
    /\ contract \in {None} \cup {Scope[c] : c \in DOMAIN Scope}
    /\ configCommit \in Commits \cup {None}
    /\ baseCommit \in Commits \cup {None}
    /\ headCommit \in Commits \cup {None}
    /\ raw \in Contents \cup {None}

EndTypes ==
    /\ codes \subseteq Catalogue
    /\ decision \in Decisions \cup {None}
    /\ (at = "done") <=> (decision # None)

TypesInv == EnvTypes /\ CallTypes /\ EndTypes

LEMMA TypesInit == Init => TypesInv
<1> SUFFICES ASSUME Init PROVE TypesInv
  OBVIOUS
<1>1. PICK s \in Starts : request = s.request /\ tracked = s.tracked
  BY DEF Init
<1>2. request \in Request /\ tracked \subseteq PathSet
  BY <1>1, RemediationAssumption
<1>3. EnvTypes
  BY <1>2, RemediationAssumption DEF Init, EnvTypes
<1>4. CallTypes
  BY <1>2 DEF Init, CallTypes
<1>5. EndTypes
  BY DEF Init, EndTypes
<1> QED BY <1>3, <1>4, <1>5 DEF TypesInv

\* The two ways a step of the call leaves what is recorded.
LEMMA ConcludeTypes ==
    ASSUME EndTypes, NEW found, found \subseteq Catalogue, Conclude(found)
    PROVE  EndTypes'
<1> DEFINE all == codes \cup found
<1>1. all \subseteq Catalogue /\ "contract_not_approved" \in Catalogue
  BY DEF EndTypes, Catalogue, UnverifiedCodes
<1>2. codes' \subseteq Catalogue
  BY <1>1 DEF Conclude
<1>3. \A S : DecisionOf(S) \in Decisions /\ CapForDraft(DecisionOf(S)) \in Decisions
  BY DEF DecisionOf, CapForDraft, Decisions
<1>4. decision' \in Decisions
  BY <1>3 DEF Conclude
<1>5. at' = "done"
  BY DEF Conclude
<1> QED BY <1>2, <1>4, <1>5, RemediationAssumption DEF EndTypes

LEMMA ContinueTypes ==
    ASSUME EndTypes, NEW label, NEW found, found \subseteq Catalogue, Continue(label, found),
           at # "done", label # "done"
    PROVE  EndTypes'
BY DEF EndTypes, Continue

LEMMA LoadKeepsTypes == TrustInv /\ TypesInv /\ LoadContract => TypesInv'
<1> SUFFICES ASSUME TrustInv, TypesInv, LoadContract PROVE TypesInv'
  OBVIOUS
<1>1. /\ at = "load"
      /\ UNCHANGED <<tracked, edits, moves, touched, todo, request, baseCommit, headCommit, raw>>
      /\ refs["config"] \in Commits \cup {NoCommit}
  BY DEF LoadContract, TrustInv, Revs, env
<1>2. EnvTypes'
  BY <1>1 DEF TypesInv, EnvTypes
<1>3. configCommit' \in Commits \cup {None}
  BY <1>1 DEF LoadContract, TypesInv, CallTypes
<1>4. /\ contract' \in {contract} \cup {Scope[c] : c \in DOMAIN Scope}
      /\ stage' \in {stage, "contract_loaded"}
  BY DEF LoadContract
<1>5. CallTypes'
  BY <1>1, <1>3, <1>4 DEF TypesInv, CallTypes
<1>6. EndTypes'
  <2>1. {"revision_not_found", "contract_not_found", "contract_invalid"} \subseteq Catalogue
    BY DEF Catalogue, ErrorCodes
  <2>2. CASE \E found \in {{"revision_not_found"}, {"contract_not_found"}, {"contract_invalid"}} :
                Conclude(found)
    BY <2>1, <2>2, ConcludeTypes DEF TypesInv
  <2>3. CASE Continue("base", {})
    BY <1>1, <2>3, ContinueTypes DEF TypesInv
  <2> QED BY <2>2, <2>3 DEF LoadContract
<1> QED BY <1>2, <1>5, <1>6 DEF TypesInv

LEMMA ResolveKeepsTypes == TrustInv /\ TypesInv /\ (ResolveBase \/ ResolveHead) => TypesInv'
<1> SUFFICES ASSUME TrustInv, TypesInv, ResolveBase \/ ResolveHead PROVE TypesInv'
  OBVIOUS
<1>1. /\ at # "done"
      /\ UNCHANGED <<tracked, edits, moves, touched, todo, request, contract, configCommit, raw>>
      /\ refs["base"] \in Commits \cup {NoCommit}
      /\ refs["head"] \in Commits \cup {NoCommit}
  BY DEF ResolveBase, ResolveHead, TrustInv, Revs, env
<1>2. EnvTypes'
  BY <1>1 DEF TypesInv, EnvTypes
<1>3. baseCommit' \in Commits \cup {None} /\ headCommit' \in Commits \cup {None}
  BY <1>1 DEF ResolveBase, ResolveHead, TypesInv, CallTypes
<1>4. stage' \in {stage, "trust_established"}
  BY DEF ResolveBase, ResolveHead
<1>5. CallTypes'
  BY <1>1, <1>3, <1>4 DEF TypesInv, CallTypes
<1>6. EndTypes'
  <2> DEFINE distrust == TrustCodes(configCommit, baseCommit, refs["head"])
  <2>1. {"revision_not_found"} \subseteq Catalogue /\ distrust \subseteq Catalogue
    BY DEF Catalogue, ErrorCodes, UnverifiedCodes, TrustCodes
  <2>2. CASE Conclude({"revision_not_found"}) \/ Conclude(distrust)
    BY <2>1, <2>2, ConcludeTypes DEF TypesInv
  <2>3. CASE Continue("head", {}) \/ Continue("list", {}) \/ Continue("compare", {})
    BY <1>1, <2>3, ContinueTypes DEF TypesInv
  <2> QED BY <2>2, <2>3 DEF ResolveBase, ResolveHead
<1> QED BY <1>2, <1>5, <1>6 DEF TypesInv

LEMMA SnapshotKeepsTypes ==
    StayInv /\ TypesInv /\ (ListIndex \/ HashNext \/ TornRead \/ ListOthers \/ SnapshotDone)
        => TypesInv'
<1> SUFFICES ASSUME StayInv, TypesInv,
                    ListIndex \/ HashNext \/ TornRead \/ ListOthers \/ SnapshotDone
             PROVE  TypesInv'
  OBVIOUS
<1>1. /\ UNCHANGED <<tracked, moves, request, stage, bound, raw>> /\ at # "done"
  BY DEF ListIndex, HashNext, TornRead, ListOthers, SnapshotDone, env
<1>2. CallTypes'
  BY <1>1 DEF TypesInv, CallTypes, bound
<1>3. todo' \subseteq PathSet
  <2>1. DOMAIN disk \subseteq PathSet
    BY FilesFact DEF StayInv
  <2> QED BY <2>1
    DEF ListIndex, HashNext, TornRead, ListOthers, SnapshotDone, TypesInv, EnvTypes
<1>4. edits' \in 0 .. MaxEdits /\ touched' \subseteq PathSet
  <2>1. CASE TornRead
    <3>1. First(todo) \in PathSet
      BY <2>1, FirstIsListed DEF TornRead, TypesInv, EnvTypes
    <3>2. /\ edits \in 0 .. MaxEdits /\ edits < MaxEdits /\ edits' = edits + 1
          /\ touched' = touched \cup {First(todo)} /\ touched \subseteq PathSet
      BY <2>1 DEF TornRead, TypesInv, EnvTypes
    <3> QED BY <3>1, <3>2, RemediationAssumption
  <2>2. CASE ~ TornRead
    BY <2>2 DEF ListIndex, HashNext, ListOthers, SnapshotDone, env, TypesInv, EnvTypes
  <2> QED BY <2>1, <2>2
<1>5. EnvTypes'
  BY <1>1, <1>3, <1>4 DEF TypesInv, EnvTypes
<1>6. EndTypes'
  <2> DEFINE moved == {c \in {"snapshot_changed"} : got # headSnap}
  <2>1. {"snapshot_changed"} \subseteq Catalogue /\ moved \subseteq Catalogue
    BY DEF Catalogue, UnverifiedCodes
  <2>2. CASE Conclude({"snapshot_changed"}) \/ Conclude(moved)
    BY <2>1, <2>2, ConcludeTypes DEF TypesInv
  <2>3. CASE Continue("hash", {}) \/ Continue("hash others", {}) \/ Continue("compare", {})
    <3>1. EndTypes /\ at # "done" /\ {} \subseteq Catalogue
      BY <1>1 DEF TypesInv
    <3>2. PICK label \in {"hash", "hash others", "compare"} : Continue(label, {})
      BY <2>3
    <3>3. label # "done"
      OBVIOUS
    <3> QED BY <3>1, <3>2, <3>3, ContinueTypes
  <2>4. CASE UNCHANGED <<at, codes, decision>>
    BY <2>4 DEF TypesInv, EndTypes
  <2> QED BY <2>2, <2>3, <2>4 DEF ListIndex, HashNext, TornRead, ListOthers, SnapshotDone
<1> QED BY <1>2, <1>5, <1>6 DEF TypesInv

\* What comparing records, and what is read of the target on Head.
LEMMA CompareWithTypes ==
    ASSUME TypesInv, at # "done", NEW headBytes, headBytes \subseteq Contents, NEW found,
           found \subseteq Catalogue, CompareWith(headBytes, found)
    PROVE  EndTypes' /\ raw' \in Contents \cup {None} /\ stage' = "boundary_checked"
<1> DEFINE baseBytes == TargetBytes(BaseSnap)
           template == UNION {TemplateCodes(contract, b, h) :
                                 b \in Parsed(baseBytes), h \in Parsed(headBytes)}
           all == RepositoryCodes(BaseSnap, headSnap, Target)
                      \cup Unparsed(baseBytes \cup headBytes) \cup template \cup found
<1>1. template \subseteq Catalogue
  BY TemplateCodesInCatalogue
<1>2. Unparsed(baseBytes \cup headBytes) \subseteq Catalogue
  BY DEF Unparsed, Catalogue, UnverifiedCodes
<1>3. RepositoryCodes(BaseSnap, headSnap, Target) \subseteq Catalogue
  BY RepositoryCodesInCatalogue
<1>4. Continue("check", all)
  BY DEF CompareWith
<1>5. all \subseteq Catalogue
  <2> HIDE DEF template, baseBytes
  <2> QED BY <1>1, <1>2, <1>3
<1>6. EndTypes'
  <2> HIDE DEF all
  <2> QED BY <1>4, <1>5, ContinueTypes DEF TypesInv
<1>7. raw' = (IF headBytes = {} THEN None ELSE CHOOSE c \in headBytes : TRUE)
      /\ stage' = "boundary_checked"
  BY DEF CompareWith
<1> QED BY <1>6, <1>7

LEMMA CompareKeepsTypes == TrustInv /\ StayInv /\ TypesInv /\ Compare => TypesInv'
<1> SUFFICES ASSUME TrustInv, StayInv, TypesInv, Compare PROVE TypesInv'
  OBVIOUS
<1>1. at # "done" /\ UNCHANGED <<tracked, edits, moves, touched, todo, request, bound>>
  BY DEF Compare, env
<1>2. EnvTypes'
  BY <1>1 DEF TypesInv, EnvTypes
<1>3. ASSUME NEW files \in Files PROVE TargetBytes(files) \subseteq Contents
  <2>1. files \in [DOMAIN files -> FileEntry]
    BY FilesFact
  <2> QED BY <2>1 DEF TargetBytes, Regular, FileEntry
<1>4. /\ EndTypes' /\ raw' \in Contents \cup {None}
      /\ stage' \in {stage, "boundary_checked"}
  <2> DEFINE left == RepositoryCodes(BaseSnap, headSnap, Target)
                       \cup Unparsed(TargetBytes(BaseSnap)) \cup {"repository_unreadable"}
  <2>1. CASE Conclude(left) /\ UNCHANGED <<stage, raw>>
    <3>1. /\ Unparsed(TargetBytes(BaseSnap)) \subseteq Catalogue
          /\ "repository_unreadable" \in Catalogue
      BY DEF Unparsed, Catalogue, UnverifiedCodes, ErrorCodes
    <3>2. left \subseteq Catalogue
      BY <3>1, RepositoryCodesInCatalogue
    <3>3. EndTypes'
      <4> HIDE DEF left
      <4> QED BY <2>1, <3>2, ConcludeTypes DEF TypesInv
    <3> QED BY <2>1, <3>3 DEF TypesInv, CallTypes
  <2>2. CASE \E headBytes \in SUBSET Contents, found \in SUBSET Catalogue :
                 CompareWith(headBytes, found)
    BY <1>1, <2>2, CompareWithTypes
  <2>3. {} \in SUBSET Catalogue /\ {"snapshot_changed"} \in SUBSET Catalogue
    BY DEF Catalogue, UnverifiedCodes
  <2>4. CASE ~ Worktree
    <3>1. TargetBytes(headSnap) \in SUBSET Contents
      BY <1>3 DEF StayInv
    <3> QED BY <2>2, <2>3, <2>4, <3>1 DEF Compare
  <2>5. CASE Worktree /\ ~ Regular(headSnap, Target)
    BY <2>2, <2>3, <2>5 DEF Compare, CompareWorktree
  <2>6. CASE Worktree /\ Regular(headSnap, Target) /\ ~ Regular(disk, Target)
    BY <2>1, <2>6 DEF Compare, CompareWorktree
  <2>7. CASE Worktree /\ Regular(headSnap, Target) /\ Regular(disk, Target)
    <3>1. {disk[Target].oid} \in SUBSET Contents
      BY <1>3, <2>7 DEF StayInv, TargetBytes
    <3> QED BY <2>2, <2>3, <2>7, <3>1 DEF Compare, CompareWorktree
  <2> QED BY <2>4, <2>5, <2>6, <2>7
<1>5. CallTypes'
  BY <1>1, <1>4 DEF TypesInv, CallTypes, bound
<1> QED BY <1>2, <1>4, <1>5 DEF TypesInv

LEMMA CheckKeepsTypes == TypesInv /\ Check => TypesInv'
<1> SUFFICES ASSUME TypesInv, Check PROVE TypesInv'
  OBVIOUS
<1>1. at = "check" /\ UNCHANGED <<tracked, edits, moves, touched, todo, request, bound, raw>>
  BY DEF Check, env
<1>2. EnvTypes'
  BY <1>1 DEF TypesInv, EnvTypes
<1>3. stage' \in {stage, "checks_run"}
  BY DEF Check, RunChecks
<1>4. CallTypes'
  BY <1>1, <1>3 DEF TypesInv, CallTypes, bound
<1>5. ASSUME NEW found, found \subseteq Catalogue, Continue("list", found) \/ Conclude(found)
      PROVE  EndTypes'
  BY <1>1, <1>5, ConcludeTypes, ContinueTypes DEF TypesInv
<1>6. ASSUME NEW t, RunChecks(t, HeadTemplates) PROVE EndTypes'
  <2>1. PICK run :
          LET gb == run.guardBase
              gh == run.guardHead
              found ==
                FaultsOf({run.lint} \cup {gb[r] : r \in Rules} \cup {gh[r] : r \in Rules})
                \cup {c \in {"check_failed"} : run.lint = "FAIL"}
                \cup OutcomeCodes(gb[OutcomeRule], gh[OutcomeRule])
                \cup StatementCodes(StatementOnBase(gb[StatementRule], t),
                                    StatementOnHead(gh[StatementRule], t, HeadTemplates))
          IN  Continue("list", found) \/ Conclude(found)
    BY <1>6 DEF RunChecks
  <2>2. \A S : FaultsOf(S) \subseteq Catalogue
    BY DEF FaultsOf, Catalogue, UnverifiedCodes
  <2>3. \A b, h : OutcomeCodes(b, h) \subseteq Catalogue
    BY DEF OutcomeCodes, Catalogue, UnverifiedCodes, BlockedCodes
  <2>4. \A b, h : StatementCodes(b, h) \subseteq Catalogue
    BY DEF StatementCodes, Catalogue, UnverifiedCodes, BlockedCodes
  <2>5. "check_failed" \in Catalogue
    BY DEF Catalogue, BlockedCodes
  <2> DEFINE faults == FaultsOf({run.lint} \cup {run.guardBase[r] : r \in Rules}
                                \cup {run.guardHead[r] : r \in Rules})
             lint == {c \in {"check_failed"} : run.lint = "FAIL"}
             outcome == OutcomeCodes(run.guardBase[OutcomeRule], run.guardHead[OutcomeRule])
             statement == StatementCodes(StatementOnBase(run.guardBase[StatementRule], t),
                             StatementOnHead(run.guardHead[StatementRule], t, HeadTemplates))
             all == faults \cup lint \cup outcome \cup statement
  <2>6. Continue("list", all) \/ Conclude(all)
    BY <2>1
  <2>7. /\ faults \subseteq Catalogue /\ lint \subseteq Catalogue
        /\ outcome \subseteq Catalogue /\ statement \subseteq Catalogue
    BY <2>2, <2>3, <2>4, <2>5
  <2>8. all \subseteq Catalogue
    <3> HIDE DEF faults, lint, outcome, statement
    <3> QED BY <2>7
  <2> HIDE DEF all
  <2> QED BY <1>5, <2>6, <2>8
<1>7. ASSUME Continue("list", {}) \/ Conclude({}) PROVE EndTypes'
  BY <1>5, <1>7
<1>8. EndTypes'
  BY <1>6, <1>7 DEF Check
<1> QED BY <1>2, <1>4, <1>8 DEF TypesInv

LEMMA ElsewhereKeepsTypes ==
    ASSUME TypesInv,
           MoveBranch \/ \E p \in PathSet : WriteFile(p) \/ RemoveFile(p) \/ ChangeIndex(p)
    PROVE  TypesInv'
<1>1. /\ UNCHANGED <<request, at, stage, bound, todo, raw, codes, decision>>
  BY DEF MoveBranch, WriteFile, RemoveFile, ChangeIndex, Edit
<1>2. CallTypes' /\ EndTypes'
  BY <1>1 DEF TypesInv, CallTypes, EndTypes, bound
<1>3. touched' \subseteq PathSet /\ tracked' \subseteq PathSet
  BY DEF MoveBranch, WriteFile, RemoveFile, ChangeIndex, TypesInv, EnvTypes
<1>4. /\ \/ edits' = edits
         \/ edits < MaxEdits /\ edits' = edits + 1
      /\ \/ moves' = moves
         \/ moves < MaxMoves /\ moves' = moves + 1
  BY DEF MoveBranch, WriteFile, RemoveFile, ChangeIndex, Edit
<1>5. edits' \in 0 .. MaxEdits /\ moves' \in 0 .. MaxMoves
  BY <1>4, RemediationAssumption DEF TypesInv, EnvTypes
<1>6. EnvTypes'
  BY <1>1, <1>3, <1>5 DEF TypesInv, EnvTypes
<1> QED BY <1>2, <1>6 DEF TypesInv

LEMMA TypesStep == TrustInv /\ StayInv /\ TypesInv /\ [Next]_vars => TypesInv'
<1> SUFFICES ASSUME TrustInv, StayInv, TypesInv, [Next]_vars PROVE TypesInv'
  OBVIOUS
<1>1. CASE LoadContract \/ ResolveBase \/ ResolveHead
  BY <1>1, LoadKeepsTypes, ResolveKeepsTypes
<1>2. CASE ListIndex \/ HashNext \/ TornRead \/ ListOthers \/ SnapshotDone
  BY <1>2, SnapshotKeepsTypes
<1>3. CASE Compare \/ Check
  BY <1>3, CompareKeepsTypes, CheckKeepsTypes
<1>4. CASE MoveBranch \/ \E p \in PathSet : WriteFile(p) \/ RemoveFile(p) \/ ChangeIndex(p)
  BY <1>4, ElsewhereKeepsTypes
<1>5. CASE UNCHANGED vars
  BY <1>5 DEF vars, env, bound, TypesInv, EnvTypes, CallTypes, EndTypes
<1> QED BY <1>1, <1>2, <1>3, <1>4, <1>5 DEF Next, Finished

\* Every variable keeps its type: every finding's code is one of the catalogue
\* (rschema.CODES), every snapshot a tree of known files, and a call has decided
\* exactly when it is over.
THEOREM VerifierTypes == Spec => []TypeOK
<1>1. TrustInv /\ StayInv /\ TypesInv => TypeOK
  BY DEF TrustInv, StayInv, TypesInv, EnvTypes, CallTypes, EndTypes, Catalogue, TypeOK,
         BeforeTrust, AfterTrust
<1>2. Spec => []TrustInv
  BY TrustInit, TrustStep, PTL DEF Spec
<1>3. Spec => []StayInv
  BY <1>2, StayInit, StayStep, PTL DEF Spec
<1>4. Spec => []TypesInv
  BY <1>2, <1>3, TypesInit, TypesStep, PTL DEF Spec
<1> QED BY <1>1, <1>2, <1>3, <1>4, PTL
=============================================================================
