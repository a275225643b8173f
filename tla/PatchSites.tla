----------------------------- MODULE PatchSites -----------------------------
(***************************************************************************)
(* How the crash guards get into the game: Fixes::Install and the Install  *)
(* functions of the fixes with many sites.  A step checks the bytes of one *)
(* or more windows of the game's code, writes five byte branches, and      *)
(* leaves the code through some addresses it must not have overwritten.    *)
(* Windows of different guards overlap, so that the order matters, and on  *)
(* a game version nobody has seen any window may be stale.                 *)
(*                                                                         *)
(* An address is an offset in a place: "image", or an address library id.  *)
(***************************************************************************)
EXTENDS Naturals, Sequences, SequencesExt

CONSTANT
  Games   \* the games: [runtime : {"SE", "AE", "VR"}, version : Nat], where
          \* 1.6.353 is 60353

VARIABLES
  release,     \* the game the plugin runs in
  stale,       \* names of the steps whose bytes are not as expected
  position,    \* the install step that is next
  patched,     \* names of the steps in place
  relocated,   \* those of them found by signature, at an address of their own
  registry     \* InstalledFixes::Registry()

patchVars == <<release, stale, position, patched, relocated, registry>>

\* A step: patches and exits are offsets, windows are <<first, past the last>>.
Step(fix, name, place, patches, windows, exits) ==
  [fix |-> fix, name |-> name, place |-> place, patches |-> patches, windows |-> windows,
   exits |-> exits, scan |-> FALSE, needs |-> {}, register |-> "site"]

Quietly(step) == [step EXCEPT !.register = "none"]
After(name, step) == [step EXCEPT !.needs = @ \cup {name}]

\* EF_INSTALLED at the end of an Install: always, or if any of its sites is in place.
Registration(fix, policy) ==
  [Step(fix, "register", "image", {}, {}, {}) EXCEPT !.register = policy]

\* util::SelectForVersion, on rows of <<lowest version, value>> in ascending order.
SelectForVersion(rows, version) ==
  LET fitting == {i \in DOMAIN rows : version >= rows[i][1]}
      best    == IF fitting = {} THEN 1 ELSE CHOOSE i \in fitting : \A j \in fitting : j <= i
  IN  rows[best][2]

\* util::VersionedValue of three AE layouts: 1.6.353, 1.7.99, 1.7.104.
ByVersion(g, ae, ae1799, ae1104) ==
  SelectForVersion(<< <<60353, ae>>, <<70099, ae1799>>, <<70104, ae1104>> >>, g.version)

ByRuntime(g, se, ae, vr) == CASE g.runtime = "SE" -> se [] g.runtime = "AE" -> ae [] OTHER -> vr
-----------------------------------------------------------------------------
\* scene_graph_detach_freed_crash.h

Scene(name, at, length, exits) ==
  Step("SceneGraphDetachFreedCrash", name, "image", {at}, {<<at, at + length>>}, exits)

\* Install: the entry of VisitCollisionObjectTree, on AE also found by its signature.
SceneEntry(g) ==
  LET at == ByRuntime(g, \hDA8D70, ByVersion(g, \hE87DF0, \h104D4C0, \h104D720), \hDFDCF0)
  IN  [Quietly(Scene("VisitCollisionObjectTree", at, 5, {at + 9})) EXCEPT !.scan = (g.runtime = "AE")]

\* PatchLightAttachSubtreeAsNode, and the fallback only if that is in place.
LightAttachSubtree(g) ==
  LET o == ByRuntime(g, <<\h131DAFB, \h131DB09, \h131DBFC, \h131DC05>>,
             ByVersion(g, <<\h150A6FB, \h150A704, \h150A7FA, \h150A803>>,
                          <<\h1576164, \h157616D, \h15761C7, \h15761D0>>,
                          <<\h15763C4, \h15763CD, \h1576427, \h1576430>>),
             <<\h136397B, \h1363989, \h1363A7C, \h1363A85>>)
      length == IF g.runtime = "AE" THEN 9 ELSE 14
  IN  << Scene("AttachSubtreeAsNode", o[1], length, {o[2]}),
         After("AttachSubtreeAsNode", Scene("AttachSubtreeFallback", o[3], 9, {o[4]})) >>

\* A call site whose block runs from the displaced call to the next child.
Block(name, at, postCall, next) == Quietly(Scene(name, at, next - at, {postCall, next}))

FreedChildTraversalVR ==
  << Block("Traversal410", \h29D4C0, \h29D4C6, \h29D4D6),
     Block("Traversal510", \h29D5A0, \h29D5A6, \h29D5B6),
     Block("Traversal5E0", \h29D6A0, \h29D6A6, \h29D6B3),
     Block("Traversal6E0", \h29D730, \h29D736, \h29D766),
     Block("Traversal7A0", \h29D810, \h29D816, \h29D823),
     Block("Traversal850", \h29D8B0, \h29D8B6, \h29D8C7),
     Registration("SceneGraphDetachFreedCrash", "always") >>

\* Two patches or none: both windows and the shared epilogue are checked first.
RecursiveNodeTraversalVR ==
  << Step("SceneGraphDetachFreedCrash", "RecursiveNode", "image", {\h2AC2C4, \h2AC448},
          {<<\h2AC2C4, \h2AC2CD>>, <<\h2AC448, \h2AC451>>, <<\h2AC49B, \h2AC4A8>>},
          {\h2AC2CD, \h2AC451, \h2AC49B}) >>

MultiBoundHelperVR == <<Scene("MultiBoundHelper", \h4DA560, 18, {\h4DA566})>>

MultiBoundCallersVR ==
  << Quietly(Scene("MultiBoundCaller1", \h4D9BE1, 14, {\h4D9BEF})),
     Quietly(Scene("MultiBoundCaller2", \h4D9CB1, 14, {\h4D9CBF})),
     Quietly(Scene("MultiBoundCaller3", \h4D9D83, 14, {\h4D9D91})),
     Registration("SceneGraphDetachFreedCrash", "always") >>

ObjectLODVisitorVR == <<Scene("ObjectLODVisitor", \h13021C0, 35, {\h13021C5})>>

\* The linked readers share an exit that has to match as well.
LinkedReader(name, at, postCall, end) ==
  LET block == Scene(name, at, end - at, {postCall, \h1360065})
  IN  Quietly([block EXCEPT !.windows = @ \cup {<<\h1360065, \h1360072>>}])

\* Mutant: in each pair the inner site is patched before the one whose block holds it.
InnerSiteFirst ==
  << Block("OuterSecond", \h12F8062, \h12F806B, \h12F807B),
     Block("OuterFirst", \h12F8035, \h12F803E, \h12F807B) >>

\* PatchAdditionalObjectLODReadersVR
AdditionalObjectLODReadersVR ==
  << LinkedReader("LinkedFirst", \h136004E, \h1360057, \h1360065),
     LinkedReader("LinkedSecond", \h1360072, \h136007B, \h1360080),
     Block("OuterFirst", \h12F8035, \h12F803E, \h12F807B),
     Block("OuterSecond", \h12F8062, \h12F806B, \h12F807B),
     Block("InnerFirst", \h12FC0B0, \h12FC0B9, \h12FC0F6),
     Block("InnerSecond", \h12FC0DD, \h12FC0E6, \h12FC0F6),
     Registration("SceneGraphDetachFreedCrash", "always") >>

NiNodeCloneChildVR == <<Scene("NiNodeCloneChild", \hC9C870, 36, {\hC9C87C, \hC9C894})>>
NiNodeProcessCloneChildVR == <<Scene("NiNodeProcessCloneChild", \hC9E410, 12, {\hC9E41C})>>
VisitCollisionArrayVR == <<Scene("VisitCollisionArray", \hDFDD80, 16, {\hDFDD94})>>

\* Install: without the entry nothing else is tried.
SceneGraphInstall(g) ==
  LET vr == FreedChildTraversalVR \o RecursiveNodeTraversalVR \o MultiBoundHelperVR
            \o MultiBoundCallersVR \o ObjectLODVisitorVR \o AdditionalObjectLODReadersVR
            \o NiNodeCloneChildVR \o NiNodeProcessCloneChildVR \o VisitCollisionArrayVR
      rest == LightAttachSubtree(g) \o (IF g.runtime = "VR" THEN vr ELSE <<>>)
              \o <<Registration("SceneGraphDetachFreedCrash", "always")>>
  IN  <<SceneEntry(g)>> \o [i \in DOMAIN rest |-> After("VisitCollisionObjectTree", rest[i])]
-----------------------------------------------------------------------------
\* culling_freed_object_crash.h

CullingName == <<"Cull0", "Cull1", "Cull2", "Cull3", "Cull4", "Cull5", "Cull6">>

\* The tables of <<call, converge>>.
CullingSites(g) ==
  ByRuntime(g,
    << <<\hC794D4, \hC79502>>, <<\hD50E37, \hD50E65>>, <<\hD50F2A, \hD50F5D>>,
       <<\h132C3DE, \h132C40C>>, <<\h132C45D, \h132C48B>>, <<\h132C78A, \h132C7A3>> >>,
    ByVersion(g,
      << <<\hD3FFDD, \hD4000B>>, <<\hD40151, \hD40193>>, <<\hE2853C, \hE2856A>>, <<\hE2862B, \hE2865E>>,
         <<\h1519BBE, \h1519BEC>>, <<\h1519C38, \h1519C66>>, <<\h151A01A, \h151A033>> >>,
      << <<\hF0482D, \hF0485B>>, <<\hF049A1, \hF049E3>>, <<\hFED9BC, \hFED9EA>>, <<\hFEDAAB, \hFEDADE>>,
         <<\h15868CE, \h15868FC>>, <<\h1586948, \h1586976>>, <<\h1586D2A, \h1586D43>> >>,
      << <<\hF04A8D, \hF04ABB>>, <<\hF04C01, \hF04C43>>, <<\hFEDC1C, \hFEDC4A>>, <<\hFEDD0B, \hFEDD3E>>,
         <<\h1586B2E, \h1586B5C>>, <<\h1586BA8, \h1586BD6>>, <<\h1586F8A, \h1586FA3>> >>),
    << <<\hCBFD24, \hCBFD52>>, <<\hD99D3D, \hD99D6B>>, <<\hD99E30, \hD99E63>>,
       <<\h136F23E, \h136F26C>>, <<\h136F2BD, \h136F2EB>>, <<\h136F5CA, \h136F5E3>> >>)

\* PatchSites: the call and the block behind it, or a unique match of both elsewhere.
CullingStep(i, call, converge) ==
  [Quietly(Step("CullingFreedObjectCrash", CullingName[i], "image", {call},
                {<<call, converge>>}, {call + 6, converge})) EXCEPT !.scan = TRUE]

\* PatchObjectLODPropertySiteVR and PatchObjectLODRenderSiteVR
ObjectLODSitesVR ==
  << Step("CullingFreedObjectCrash", "ObjectLODProperty", "image", {\h13085A1},
          {<<\h13085A1, \h13085C8>>}, {\h13085AA, \h13085C8}),
     Step("CullingFreedObjectCrash", "ObjectLODRender", "image", {\h13085EE},
          {<<\h13085EE, \h13085EE + 6 + 14>>}, {\h13085F4, \h13085C1}) >>

CullingInstall(g) ==
  LET pairs == CullingSites(g)
  IN  [i \in DOMAIN pairs |-> CullingStep(i, pairs[i][1], pairs[i][2])]
      \o (IF g.runtime = "VR" THEN ObjectLODSitesVR ELSE <<>>)
      \o <<Registration("CullingFreedObjectCrash", "ifAny")>>
-----------------------------------------------------------------------------
\* batchrenderer_renderpass_array_uaf.h

PassSite(name, id, at, length, exits) ==
  Quietly(Step("BatchRendererRenderPassArrayUAF", name, id, {at}, {<<at, at + length>>}, exits))

\* The sites of SE and VR are the same.
FindNextPass(g) ==
  IF g.runtime = "AE" THEN PassSite("FindNextPass", "107641", \h30, 8, {\h38, \h5D})
                      ELSE PassSite("FindNextPass", "100851", \h30, 8, {\h38, \h5C})

LoadPass(g) ==
  IF g.runtime = "AE" THEN PassSite("LoadPass", "107642", \h270, 12, {\h27C, \h2AE})
                      ELSE PassSite("LoadPass", "100852", \h27B, 8, {\h283, \h2BA})

ApplyPassAlphaCullState(g) ==
  IF g.runtime = "AE" THEN PassSite("ApplyPass", "107642", \h2CA, 9, {\h2D3})
                      ELSE PassSite("ApplyPass", "100852", \h2D3, 9, {\h2DC})

GetRenderPassIndex(g) ==
  PassSite("GetRenderPassIndex", IF g.runtime = "AE" THEN "107643" ELSE "100853", \h57, 22, {\h6D})

RenderPassArrayInstall(g) ==
  << FindNextPass(g), LoadPass(g), ApplyPassAlphaCullState(g), GetRenderPassIndex(g),
     Registration("BatchRendererRenderPassArrayUAF", "ifAny") >>
-----------------------------------------------------------------------------
\* batchrenderer_shader_technique_uaf.h

\* InstallAE and InstallSEVR: three guards, each only if the one before is in place.
SetupAndDrawPass(call, bail, draw, restore, resume, restoreBail) ==
  LET Guarded(name, at, length, exits) ==
        Step("BatchRendererShaderTechniqueUAF", name, "image", {at}, {<<at, at + length>>}, exits)
  IN  << Guarded("Technique", call, 7, {call + 7, bail}),
         After("Technique", Guarded("Material", draw, 12, {draw + 12})),
         After("Material", Guarded("Restore", restore, 8, {resume, restoreBail})) >>

\* InstallRestoreSite: where it bails out to is read from the code it replaces.
RestoreSite(name, id, at) ==
  Quietly(Step("BatchRendererShaderTechniqueUAF", name, id, {at}, {<<at, at + 8>>}, {at + 8}))

RestoreSites(g) ==
  (IF g.runtime = "AE"
   THEN << RestoreSite("Restore1", "107630", \h43), RestoreSite("Restore2", "107630", \h138),
           RestoreSite("Restore3", "107642", \h2EC), RestoreSite("Restore4", "107653", \h0B),
           RestoreSite("Restore5", "453510", \h16), RestoreSite("Restore6", "107638", \h341),
           RestoreSite("Restore7", "107638", \h45C), RestoreSite("Restore8", "107667", \h2C),
           RestoreSite("Restore9", "107667", \h136) >>
   ELSE << RestoreSite("Restore1", "100852", \h2F5), RestoreSite("Restore2", "100860", \h0B),
           RestoreSite("Restore3", "100871", \h2C), RestoreSite("Restore4", "100871", \h138),
           RestoreSite("Restore5", "100848", \h351), RestoreSite("Restore6", "100848", \h46B) >>)
  \o <<Registration("BatchRendererShaderTechniqueUAF", "always")>>

\* The tables of call and restore sites; AE's are at fixed distances from the entry.
SetupAndDrawPassSites(g) ==
  LET start == ByVersion(g, \h14F3DC0, \h15600E0, \h1560340)
  IN  ByRuntime(g,
        SetupAndDrawPass(\h130845C, \h1308504, \h13084B2, \h13086DB, \h13086E3, \h13086EC),
        SetupAndDrawPass(start + \h34, start + \h332, start + \hC2, start + \h62, start + \h6A, start + \h6D),
        SetupAndDrawPass(\h134969C, \h1349747, \h13496F5, \h1349933, \h134993B, \h1349944))

ShaderTechniqueInstall(g) == SetupAndDrawPassSites(g) \o RestoreSites(g)
-----------------------------------------------------------------------------
\* subindextrishape_create_null_crash.h

SubIndexVersions == <<50097, 61170, 70099, 70104, 40015>>

\* The tables hold exact versions.
ForVersion(g, rows) == rows[CHOOSE i \in DOMAIN SubIndexVersions : SubIndexVersions[i] = g.version]

SubIndexGuard(name, at, length) ==
  Step("SubIndexTriShapeCreateNullCrash", name, "image", {at}, {<<at, at + length>>}, {at + length})

\* InstallForRuntime, whose exits are not where the displaced pair ends.
CreateFromShapeData(g) ==
  LET row == ForVersion(g, << <<\hD7AA64, \hD7AA6A, \hD7AC78>>, <<\hE55B24, \hE55B2A, \hE55D38>>,
               <<\h101B1A4, \h101B1AA, \h101B3B8>>, <<\h101B404, \h101B40A, \h101B618>>,
               <<\hDCE417, \hDCE41D, \hDCE6F6>> >>)
  IN  [SubIndexGuard("CreateFromShapeData", row[1], 6) EXCEPT !.exits = {row[2], row[3]}]

FinalizeSegments(g) ==
  SubIndexGuard("FinalizeSegments", ForVersion(g, <<\hD59360, \hE310B0, \hFF6520, \hFF6780, \hDA2470>>), 7)

RefreshSegmentActiveFlag(g) ==
  SubIndexGuard("RefreshSegmentActiveFlag",
    ForVersion(g, <<\hD593E6, \hE31136, \hFF65A6, \hFF6806, \hDA24F6>>), 7)

ClearSegmentActiveFlag(g) ==
  SubIndexGuard("ClearSegmentActiveFlag",
    ForVersion(g, <<\hD59416, \hE31166, \hFF65D6, \hFF6836, \hDA2526>>), 7)

GetNumSegments(g) ==
  SubIndexGuard("GetNumSegments", ForVersion(g, <<\h4B66A0, \h5129A0, \h51A6C0, \h51A6C0, \h4C6780>>), 12)

\* On null it leaves for the end of the caller's loop body.
CallerGuard(g) ==
  LET row == ForVersion(g, << <<\h4B5111, \h4B51E9, 6>>, <<\h511151, \h5112B9, 6>>,
               <<\h518DE1, \h518F67, 5>>, <<\h518DE1, \h518F67, 5>>, <<\h4C51F1, \h4C52C9, 6>> >>)
      guarded == SubIndexGuard("CallerGuard", row[1], row[3])
  IN  [guarded EXCEPT !.exits = @ \cup {row[2]}]

RecomputeSegmentData(g) ==
  SubIndexGuard("RecomputeSegmentData",
    ForVersion(g, <<\hD59430, \hE31180, \hFF65F0, \hFF6850, \hDA2540>>),
    ForVersion(g, <<11, 7, 7, 7, 11>>))

SubIndexInstall(g) ==
  IF g.version \notin Range(SubIndexVersions) THEN <<>>
  ELSE << CreateFromShapeData(g), FinalizeSegments(g), RefreshSegmentActiveFlag(g),
          ClearSegmentActiveFlag(g), GetNumSegments(g), CallerGuard(g), RecomputeSegmentData(g) >>
-----------------------------------------------------------------------------
\* actorvaluestorage_clear_race_crash.h: the signature of a site is three bytes.

ActorValueInstall(g) ==
  LET ae == g.runtime = "AE"
      site(name, id, at, exits) ==
        Quietly(Step("ActorValueStorageClearRaceCrash", name, id, {at}, {<<at, at + 3>>}, exits))
      reset == IF ae THEN \hB3 ELSE \hB6
  IN  << site("ClearBaseValues", "38064", IF ae THEN \h96 ELSE \h9D, {reset}),
         site("ModifiersWrapper", "38071", IF ae THEN \h96 ELSE \h9D, {reset}),
         IF ae THEN site("SetBaseValue", "38062", \h4C, {\h52, \h26B})
               ELSE site("SetBaseValue", "38062", \h4B, {\h51, \h24F}),
         Registration("ActorValueStorageClearRaceCrash", "always") >>
-----------------------------------------------------------------------------
\* Fixes::Install, every setting on, in the order it calls these fixes.
InstallOrder ==
  [g \in Games |-> ActorValueInstall(g) \o SubIndexInstall(g) \o CullingInstall(g)
     \o SceneGraphInstall(g) \o RenderPassArrayInstall(g) \o ShaderTechniqueInstall(g)]

GuardSteps(g) == {step \in Range(InstallOrder[g]) : step.patches # {}}

\* Mutant: a branch through an absolute address.
SixByteBranch == 6

\* write_branch<5>
PatchLength == 5

\* A relocated step is in a place of its own.
PlaceOf(step) == IF step.name \in relocated THEN step.name ELSE step.place

PassedSteps ==
  LET order == InstallOrder[release]
  IN  {order[i] : i \in {j \in 1..(position - 1) : order[j].patches # {}}}

PatchedSteps == {step \in PassedSteps : step.name \in patched}

Overwritten(place) ==
  UNION {{p + i : p \in step.patches, i \in 0..(PatchLength - 1)} :
           step \in {s \in PatchedSteps : PlaceOf(s) = place}}

\* The bytes are the game's own if no earlier guard has patched into the window.
Matches(step) ==
  /\ step.name \notin stale
  /\ \A w \in step.windows, b \in Overwritten(step.place) : b < w[1] \/ b >= w[2]

Reached(step) == step.needs \subseteq patched

\* Mutant: the line at the end is not conditional on a count.
RegistersAnyway(step, placed) == step.register # "none" /\ (step.register = "site" => placed)

Registers(step, placed) ==
  CASE step.register = "none"   -> FALSE
    [] step.register = "always" -> TRUE
    [] step.register = "site"   -> placed
    [] step.register = "ifAny"  -> \E other \in PatchedSteps : other.fix = step.fix

Place(step, how) ==
  /\ patched' = IF how = "skipped" THEN patched ELSE patched \cup {step.name}
  /\ relocated' = IF how = "relocated" THEN relocated \cup {step.name} ELSE relocated
  /\ registry' = IF Registers(step, how # "skipped") THEN registry \cup {step.fix} ELSE registry

\* One site: patched where it should be, found elsewhere by its signature, or left.
InstallStep ==
  LET order == InstallOrder[release]
      step  == order[position] IN
  /\ position <= Len(order) /\ position' = position + 1
  /\ \/ ~Reached(step) /\ UNCHANGED <<patched, relocated, registry>>
     \/ Reached(step) /\ step.patches = {} /\ Place(step, "skipped")
     \/ Reached(step) /\ step.patches # {} /\ Matches(step) /\ Place(step, "patched")
     \/ Reached(step) /\ step.patches # {} /\ ~Matches(step) /\ Place(step, "skipped")
     \/ Reached(step) /\ step.scan /\ ~Matches(step) /\ Place(step, "relocated")
  /\ UNCHANGED <<release, stale>>

\* Bound: a game whose code differs in one place, or in all, as in a version nobody
\* has seen.
StaleSets(g) ==
  LET names == {step.name : step \in GuardSteps(g)}
  IN  {names, {}} \cup {{name} : name \in names}

PatchStart(g, names) ==
  /\ release = g /\ stale = names /\ position = 1
  /\ patched = {} /\ relocated = {} /\ registry = {}

PatchInit == \E g \in Games : \E names \in StaleSets(g) : PatchStart(g, names)
PatchNext == InstallStep
PatchSpec == PatchInit /\ [][PatchNext]_patchVars
-----------------------------------------------------------------------------
\* InstallSite, SiteMatches...: no guard keeps another one out.  A site is left alone
\* only if the game's bytes differ there, or a guard it depends on was left alone,
\* never because an earlier guard has patched into its window.
SkippedOnlyIfStale ==
  \A step \in PassedSteps :
    step.name \notin patched => step.name \in stale \/ ~Reached(step)

\* The resume and exit addresses of the thunks: none leads into the middle of a
\* branch that a guard has written, its own or another fix's.
ResumesOnWholeInstructions ==
  \A step \in PatchedSteps :
    step.exits \cap Overwritten(PlaceOf(step)) \subseteq
      UNION {other.patches : other \in {s \in PatchedSteps : PlaceOf(s) = PlaceOf(step)}}

Verified == {"SceneGraphDetachFreedCrash", "CullingFreedObjectCrash",
             "BatchRendererRenderPassArrayUAF", "SubIndexTriShapeCreateNullCrash"}

\* installed_fixes.h: "a fix with several independent sites registers on each site
\* that installs, so an internal name reads as installed when at least one did" - for
\* the fixes that count their sites or stop early, whichever sites are stale.
RegisteredIffPatched ==
  position > 1 /\ position > Len(InstallOrder[release]) =>
    \A fix \in Verified : fix \in registry <=> \E step \in PatchedSteps : step.fix = fix

\* installed_fixes.h: "the registry can never claim a fix that silently skipped".
RegistryClaimsNoSkippedFix ==
  \A fix \in registry : \E step \in PatchedSteps : step.fix = fix
=============================================================================
