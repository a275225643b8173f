--------------------------- MODULE MCPluginStartup ---------------------------
(***************************************************************************)
(* The start of the plugin: either its entry points, in any installation,  *)
(* or the install of the guards on a supported game, with two of the sites *)
(* stale at once, or all sites of a fix.  The two share no state, so the   *)
(* one that is active runs and the other one stays where it is.            *)
(***************************************************************************)
EXTENDS PluginStartup, MCPatchSites, InstallTables

VARIABLE active

Names(steps) == {step.name : step \in steps}

MCStaleSets(g) ==
  {{a, b} : a, b \in Names(GuardSteps(g))} \cup
  {Names({step \in GuardSteps(g) : step.fix = s.fix}) : s \in GuardSteps(g)}

MCInit ==
  \/ active = "entry points" /\ Init /\ PatchStart(SE, {})
  \/ /\ active = "guards" /\ Init /\ setup = CHOOSE s \in Setup : TRUE
     /\ \E g \in Games : \E names \in MCStaleSets(g) : PatchStart(g, names)

MCNext ==
  /\ \/ active = "entry points" /\ Next /\ UNCHANGED patchVars
     \/ active = "guards" /\ PatchNext /\ UNCHANGED vars
  /\ UNCHANGED active

MCSpec == MCInit /\ [][MCNext]_<<active, vars, patchVars>>
===============================================================================
