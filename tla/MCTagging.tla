------------------------------ MODULE MCTagging ------------------------------
(***************************************************************************)
(* Tagging for TLC: two records, two workers, one tag that every build has *)
(* and one that only some builds have.                                     *)
(***************************************************************************)
EXTENDS Tagging, TLC

CONSTANTS t1, t2

MCTitles == {t1, t2}
MCCatalogs == {{t1}, {t1, t2}}
MCVerdicts == {"liquid_metal_cpu"}

Symmetry == Permutations(Records) \cup Permutations(Workers)
=============================================================================
