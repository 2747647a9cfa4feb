---------------------------- MODULE EvidenceLog ----------------------------
(***************************************************************************)
(* What the Evidence Store promises its callers, with no files, no writers *)
(* and no crashes: a log of numbered revisions.  A number is claimed once, *)
(* in order; a claimed revision is sealed at most once, with a non-empty   *)
(* set of evidence; a sealed revision never changes.  EvidenceStore is     *)
(* shown to implement it.                                                  *)
(***************************************************************************)
EXTENDS Integers

CONSTANTS Evidence,      \* evidence identifiers a revision can list
          Revisions,     \* revision numbers
          NoRevision     \* the contents of a revision that was never sealed

VARIABLES claimed,       \* the revision numbers that are taken
          sealed         \* what each sealed revision lists, NoRevision before

logVars == <<claimed, sealed>>

LogInit == /\ claimed = {}
           /\ sealed = [r \in Revisions |-> NoRevision]

\* The next number is taken: nobody else can ever take it again.
Claim(r) == /\ r \notin claimed
            /\ r = 1 \/ r - 1 \in claimed
            /\ claimed' = claimed \cup {r}
            /\ UNCHANGED sealed

\* A claimed revision receives its final contents.
Seal(r, listed) == /\ r \in claimed
                   /\ sealed[r] = NoRevision
                   /\ listed # {}
                   /\ sealed' = [sealed EXCEPT ![r] = listed]
                   /\ UNCHANGED claimed

LogNext == \E r \in Revisions :
              \/ Claim(r)
              \/ \E listed \in SUBSET Evidence : Seal(r, listed)

LogSpec == LogInit /\ [][LogNext]_logVars
=============================================================================
