------------------------------ MODULE MCPhotos ------------------------------
(***************************************************************************)
(* Photos for TLC: requests are interchangeable model values.              *)
(***************************************************************************)
EXTENDS Photos, TLC

Symmetry == Permutations(Requests)
=============================================================================
