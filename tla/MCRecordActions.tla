-------------------------- MODULE MCRecordActions --------------------------
(***************************************************************************)
(* RecordActions for TLC: records, staff members and requests are model    *)
(* values, interchangeable within their set.                               *)
(***************************************************************************)
EXTENDS RecordActions, TLC

Symmetry == Permutations(Staff) \cup Permutations(Requests) \cup Permutations(Records)
=============================================================================
