----------------------------- MODULE MCPatchSites -----------------------------
(***************************************************************************)
(* The games whose sites the tables of PatchSites list, for TLC.           *)
(***************************************************************************)
EXTENDS PatchSites

SE == [runtime |-> "SE", version |-> 50097]
VR == [runtime |-> "VR", version |-> 40015]
AE(version) == [runtime |-> "AE", version |-> version]
MCGames == {SE, VR, AE(60640), AE(61170), AE(70099), AE(70104)}
===============================================================================
