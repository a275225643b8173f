---------------------------- MODULE MCEngineFixes ----------------------------
(***************************************************************************)
(* The components that share no state with another one, checked together:  *)
(* a behaviour runs one of them and leaves the others as they started.     *)
(***************************************************************************)
EXTENDS AlphaGeometryGroups, CullingProcessPool, HavokMaterialGuard, ActorValueClear,
  JobListLock, ConsoleSave, ShadowMapScratch, SaveScreenshots, SettingsFile, MCPatchSites,
  FreedObjectGuards

VARIABLE active

\* Instances.
MCTables == [base : {0, 2, 6}, stride : {1, 2, 3}, count : {0, 1, 2, 5}]

line(kind, name, value) == [kind |-> kind, name |-> name, value |-> value]
section(name) == line("section", name, "none")
key(name, value) == line("key", name, value)
other == line("other", "none", "none")

MCSchema ==
  <<other, section("Fixes"), key("a", "true"), section("Debug"), key("a", "false"), key("b", "0")>>
MCUserFiles ==
  { <<>>, MCSchema,
    <<key("a", "false"), section("Debug"), key("b", "7"), key("a", "true"), other, section("Fixes"),
      key("old", "1")>>,
    <<section("Fixes"), key("a", "false"), section("Debug"), key("b", "1"), section("Fixes"),
      key("a", "true"), key("b", "5")>>,
    <<section("Debug"), key("b", "empty"), key("b", "3"), key("b", "empty")>> }
\* No custom file, one that sets every kind of key, one that sets a single one and
\* leaves a key of the same name in another section to the base file.
MCCustomFiles ==
  { <<>>, <<section("Fixes"), key("a", "false"), section("Debug"), key("b", "9")>>,
    <<other, section("Debug"), key("a", "true")>> }

LowImage == [base |-> 1000, end |-> 3000]
MCLayouts == {LowImage, [base |-> 12000, end |-> 14000]}
VtablesAndBeyond(end) == {end - \hF0, end - \hC0, end - \hBF, end - \h18, end - \h17}
MCOtherWords ==
  {0, 8, 1504, 12000, 19999, 25000} \cup VtablesAndBeyond(3000) \cup VtablesAndBeyond(14000)

Components ==
  {"alpha", "pool", "havok", "actorvalue", "joblist", "console", "shadowmap", "screenshot", "settings", "patches", "guards"}

\* One component is active and starts anywhere; the others in one state.
Start(c, init, start) == (active = c /\ init) \/ (active # c /\ start)

MCInit ==
  /\ active \in Components
  /\ Start("alpha", AlphaInit, AlphaStart(0))
  /\ PoolInit
  /\ Start("havok", HavokInit, HavokStart(NoTable))
  /\ Start("actorvalue", AvInit, AvStart({}))
  /\ Start("joblist", JobListInit, JobListStart({}))
  /\ Start("console", ConsoleInit, ConsoleStart("main"))
  /\ ScratchInit
  /\ Start("screenshot", ScreenshotInit, ScreenshotStart(FALSE, 42))
  /\ Start("settings", SettingsInit, SettingsStart(<<>>, FALSE, <<>>))
  /\ Start("patches", PatchInit, PatchStart(SE, {}))
  /\ Start("guards", GuardInit, GuardStart(ChildPatch, LowImage, "live", 1504))

Active(c, next) == active = c /\ next

Rest(c, vars) == IF active = c THEN TRUE ELSE UNCHANGED vars

MCNext ==
  /\ \/ Active("alpha", AlphaNext)
     \/ Active("pool", PoolNext)
     \/ Active("havok", HavokNext)
     \/ Active("actorvalue", AvNext)
     \/ Active("joblist", JobListNext)
     \/ Active("console", ConsoleNext)
     \/ Active("shadowmap", ScratchNext)
     \/ Active("screenshot", ScreenshotNext)
     \/ Active("settings", SettingsNext)
     \/ Active("patches", PatchNext)
     \/ Active("guards", GuardNext)
  /\ UNCHANGED active
  /\ Rest("alpha", alphaVars)
  /\ Rest("pool", poolVars)
  /\ Rest("havok", havokVars)
  /\ Rest("actorvalue", avVars)
  /\ Rest("joblist", jobVars)
  /\ Rest("console", consoleVars)
  /\ Rest("shadowmap", scratchVars)
  /\ Rest("screenshot", screenshotVars)
  /\ Rest("settings", settingsVars)
  /\ Rest("patches", patchVars)
  /\ Rest("guards", guardVars)

MCVars == <<active, alphaVars, poolVars, havokVars, avVars, jobVars, consoleVars, scratchVars, screenshotVars, settingsVars, patchVars, guardVars>>

MCSpec ==
  /\ MCInit /\ [][MCNext]_MCVars
  /\ WF_consoleVars(active = "console" /\ (MainStep \/ Hook \/ Freeze \/ FinishSave))
=============================================================================
