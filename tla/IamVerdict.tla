------------------------------ MODULE IamVerdict ------------------------------
\* What can be said of a policy element before it is deployed
\* (iacreview/iam/intrinsics.py): the texts it can turn into, in groups, and
\* whether a predicate holds of it whatever is deployed.
\*
\* A resolution is [groups, unresolved]. A group is [texts, all, branch, blocker]:
\* with all, a deployment picks one of the texts; the branch is the sequence of
\* <<condition, value>> that leads to it through Fn::If; the blocker says what of
\* the group is not known, or is NoBlocker. A blocker is [intrinsic, branch]. A
\* predicate is the set of the texts it accepts.
EXTENDS FiniteSets

NoBlocker == [intrinsic |-> "", branch |-> <<>>]

Hits(group, accepted) == group.texts \cap accepted

\* A predicate is decided by a group when no choice within it can avoid it.
Decides(group, accepted) ==
  Hits(group, accepted) # {} /\ (group.all => Hits(group, accepted) = group.texts)

\* What keeps a group from being decided: a choice that only some of the texts
\* satisfy, or a part of the text that is not known.
Blocked(group, accepted) ==
  /\ group.blocker # NoBlocker
  /\ ~Decides(group, accepted)
  /\ group.all => Hits(group, accepted) # {}

Blockers(resolution, accepted) ==
  resolution.unresolved \cup {g.blocker : g \in {h \in resolution.groups : Blocked(h, accepted)}}

verdict_for(resolution, accepted) ==
  IF \E g \in resolution.groups : Decides(g, accepted) THEN "match"
  ELSE IF Blockers(resolution, accepted) # {} THEN "unresolvable" ELSE "no_match"

-----------------------------------------------------------------------------
\* What a verdict is worth. In a deployment exactly the conditions of holds are
\* true, and it has the groups whose branch they take. It turns the element into
\* texts T of these groups: one of each choice, and the text of every other group
\* (of Fn::Sub, its fixed part, which stands for all that the names in it can make
\* of it).
Takes(holds, branch) == \A i \in DOMAIN branch : (branch[i][1] \in holds) <=> branch[i][2]
Present(resolution, holds) == {g \in resolution.groups : Takes(holds, g.branch)}
Deploys(resolution, holds, T) ==
  /\ T \subseteq UNION {g.texts : g \in Present(resolution, holds)}
  /\ \A g \in Present(resolution, holds) : IF g.all THEN T \cap g.texts # {} ELSE g.texts \subseteq T

\* A choice between texts always has a blocker, the Ref it was made by
\* (_resolve_allowed_values).
ChoicesAreBlocked(resolution) == \A g \in resolution.groups : g.all => g.blocker # NoBlocker

\* "match" names a branch that is dangerous as a whole: some group decides it, and
\* every deployment that takes the branch of this group, whatever it chooses, has
\* an accepted text. A deployment that takes another branch may have none: either
\* branch being dangerous is reported (verdict_for, expand_conditionals).
THEOREM MatchIsCertain ==
  ASSUME NEW resolution, NEW accepted, verdict_for(resolution, accepted) = "match"
  PROVE  \E g \in resolution.groups :
           /\ Decides(g, accepted)
           /\ \A holds, T : Takes(holds, g.branch) /\ Deploys(resolution, holds, T) => T \cap accepted # {}
PROOF
  <1>1. PICK g \in resolution.groups : Decides(g, accepted)
    BY DEF verdict_for
  <1>2. ASSUME NEW holds, NEW T, Takes(holds, g.branch), Deploys(resolution, holds, T)
        PROVE  T \cap accepted # {}
    <2>1. g \in Present(resolution, holds)
      BY <1>1, <1>2 DEF Present
    <2>2. CASE g.all
      <3>1. g.texts \cap accepted = g.texts /\ T \cap g.texts # {}
        BY <1>1, <1>2, <2>1, <2>2 DEF Decides, Hits, Deploys
      <3> QED BY <3>1
    <2>3. CASE ~g.all
      <3>1. g.texts \cap accepted # {} /\ g.texts \subseteq T
        BY <1>1, <1>2, <2>1, <2>3 DEF Decides, Hits, Deploys
      <3> QED BY <3>1
    <2> QED BY <2>2, <2>3
  <1> QED BY <1>1, <1>2

\* Without Fn::If every deployment takes the one branch there is, and "match" holds
\* of each of them.
COROLLARY MatchWithoutConditions ==
  ASSUME NEW resolution, NEW accepted, verdict_for(resolution, accepted) = "match",
         \A g \in resolution.groups : DOMAIN g.branch = {},
         NEW holds, NEW T, Deploys(resolution, holds, T)
  PROVE  T \cap accepted # {}
PROOF
  <1>1. PICK g \in resolution.groups :
          \A h, U : Takes(h, g.branch) /\ Deploys(resolution, h, U) => U \cap accepted # {}
    BY MatchIsCertain
  <1>2. Takes(holds, g.branch)
    BY <1>1 DEF Takes
  <1> QED BY <1>1, <1>2

\* "no_match" is silence, and it is justified: every part of the element is
\* known, and no deployment, whatever conditions hold and whatever is chosen, has
\* an accepted text (verdict_for: nothing is reported and nothing disclosed).
THEOREM SilenceIsCertain ==
  ASSUME NEW resolution, NEW accepted, ChoicesAreBlocked(resolution),
         verdict_for(resolution, accepted) = "no_match"
  PROVE  /\ resolution.unresolved = {}
         /\ \A g \in resolution.groups : ~g.all => g.blocker = NoBlocker
         /\ \A holds, T : Deploys(resolution, holds, T) => T \cap accepted = {}
PROOF
  <1>1. ~(\E g \in resolution.groups : Decides(g, accepted)) /\ Blockers(resolution, accepted) = {}
    BY DEF verdict_for
  <1>2. resolution.unresolved = {} /\ \A g \in resolution.groups : ~Blocked(g, accepted)
    BY <1>1 DEF Blockers
  <1>3. ASSUME NEW g \in resolution.groups
        PROVE  g.texts \cap accepted = {} /\ (~g.all => g.blocker = NoBlocker)
    <2>1. ~Decides(g, accepted) /\ ~Blocked(g, accepted) /\ (g.all => g.blocker # NoBlocker)
      BY <1>1, <1>2 DEF ChoicesAreBlocked
    <2>2. CASE g.all
      BY <2>1, <2>2 DEF Blocked, Hits
    <2>3. CASE ~g.all
      BY <2>1, <2>3 DEF Blocked, Decides, Hits
    <2> QED BY <2>2, <2>3
  <1>4. ASSUME NEW holds, NEW T, Deploys(resolution, holds, T)
        PROVE  T \cap accepted = {}
    BY <1>3, <1>4 DEF Deploys, Present
  <1> QED BY <1>2, <1>3, <1>4
=============================================================================
