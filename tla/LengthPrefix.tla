------------------------------ MODULE LengthPrefix ------------------------------
(***************************************************************************)
(* The number a length prefix holds. Sizes are size_t in the code, the     *)
(* prefix of a string or a sequence is a uint32_t: writer and layouts      *)
(* convert with static_cast<uint32_t>() and do not look at what is lost.   *)
(***************************************************************************)
EXTENDS XcdrAlign

CONSTANT NumberMax   \* UINT32_MAX

ASSUME NumberAssumption == NumberMax \in Nat

\* static_cast<uint32_t>(n): what exceeds the prefix wraps around.
AsUint32(n) == n % (NumberMax + 1)
================================================================================
