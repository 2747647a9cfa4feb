-------------------------- MODULE MCEvidenceStore --------------------------
(***************************************************************************)
(* TLC instances of EvidenceStore.  Ids and Writers are only compared for  *)
(* equality, so both are symmetric.                                        *)
(***************************************************************************)
EXTENDS EvidenceStore, TLC

Symmetry == Permutations(Ids) \cup Permutations(Writers)
=============================================================================
