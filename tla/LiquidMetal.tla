----------------------------- MODULE LiquidMetal -----------------------------
(***************************************************************************)
(* The tables of tagging/service/liquid_metal_tagger.go: the tag names the *)
(* classifier may choose, the verdict each stands for, and the index of a  *)
(* verdict that is stored on the record.                                   *)
(***************************************************************************)
EXTENDS Naturals, Sequences

MetalTags == {"liquid_metal_cpu", "liquid_metal_gpu", "liquid_metal_cpu_gpu",
              "liquid_metal_to_verify", "non_liquid_metal"}

\* liquidMetalStatusOrder; records hold positions in it, counted from 0.
StatusOrder == <<"unknown", "liquid_metal", "to_verify", "non_liquid_metal">>

Statuses == {"unknown", "liquid_metal", "to_verify", "non_liquid_metal"}

StatusIndices == 0..3

\* LiquidMetalStatusIndex: the position, 0 for what is not in the table.
StatusIndex(status) ==
  IF \E i \in StatusIndices : StatusOrder[i + 1] = status
    THEN CHOOSE i \in StatusIndices : StatusOrder[i + 1] = status
    ELSE 0

\* liquidMetalResultForTag, its Status: no tag, or an unknown one, is unknown.
StatusForTag(name) ==
  CASE name \in {"liquid_metal_cpu", "liquid_metal_gpu", "liquid_metal_cpu_gpu"} -> "liquid_metal"
    [] name = "liquid_metal_to_verify" -> "to_verify"
    [] name = "non_liquid_metal" -> "non_liquid_metal"
    [] OTHER -> "unknown"
=============================================================================
