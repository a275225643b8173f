--------------------------- MODULE PluginStartup ---------------------------
(***************************************************************************)
(* The entry points of src/main.cpp and the order the process calls them:  *)
(* a preloader DLL (d3dx9_42.dll) calls Initialize, an SKSE that knows the *)
(* Preload export calls that, SKSE on 1.5.97 calls Query, every SKSE calls *)
(* Load, and the listener registered there gets the game's messages.       *)
(*                                                                         *)
(* Installing a part writes hooks into the game, so the model counts how   *)
(* often each part is installed.                                           *)
(***************************************************************************)
EXTENDS Naturals

CONSTANT DllFirst   \* the preloader DLL, an import of the game, precedes SKSE

ASSUME StartupAssumption == DllFirst \in BOOLEAN

VARIABLES
  setup,            \* the installation the process starts from: see Setup
  g_isPreloaded,
  installs,         \* how often each part was installed
  called,           \* entry points called so far
  game,             \* "starting", "loading", "menu", "closed"
  listening         \* MessageHandler is registered

vars == <<setup, g_isPreloaded, installs, called, game, listening>>

\* Memory, patches and fixes are installed by Initialize; delayed fixes (save
\* screenshots, stuck mouse buttons, ...) and the VR tree LOD cache on kDataLoaded.
Part == {"memory", "patches", "fixes", "treeLod", "delayed"}

Setup == [
  dll : BOOLEAN,         \* d3dx9_42.dll is installed
  preload : BOOLEAN,     \* this SKSE calls the Preload export
  queries : BOOLEAN,     \* this SKSE calls Query
  supported : BOOLEAN,   \* version >= the minimum for this runtime
  vr : BOOLEAN,
  treeLod : BOOLEAN,     \* ShouldInstallTreeLodReferenceCaching()
  listener : BOOLEAN]    \* RegisterListener succeeds

Init ==
  /\ setup \in Setup
  /\ g_isPreloaded = FALSE
  /\ installs = [p \in Part |-> 0]
  /\ called = {} /\ game = "starting" /\ listening = FALSE

Install(parts) == installs' = [p \in Part |-> installs[p] + IF p \in parts THEN 1 ELSE 0]

\* Mutant: the tree LOD cache is installed early on VR too.
EarlyPartsWithTreeLod ==
  {"memory", "patches", "fixes"} \cup (IF setup.treeLod THEN {"treeLod"} ELSE {})

\* What Memory::Install, Patches::Install and Fixes::Install put in place.
EarlyParts ==
  {"memory", "patches", "fixes"} \cup
  (IF setup.treeLod /\ ~setup.vr THEN {"treeLod"} ELSE {})

\* Mutant: the flag is set although the runtime is too old.
InitializeAlwaysDone ==
  /\ g_isPreloaded' = TRUE
  /\ IF setup.supported THEN Install(EarlyParts) ELSE UNCHANGED installs

\* Initialize(): an unsupported runtime returns early with the flag unset.
Initialize ==
  IF setup.supported
  THEN Install(EarlyParts) /\ g_isPreloaded' = TRUE
  ELSE UNCHANGED <<installs, g_isPreloaded>>

Call(entry) == entry \notin called /\ called' = called \cup {entry}

\* The preloader DLL calls Initialize directly.
LoadDll ==
  /\ game = "starting" /\ setup.dll /\ Call("dll")
  /\ Initialize
  /\ UNCHANGED <<setup, game, listening>>

\* Mutant: the export does not look at the flag.
PreloadUnguarded ==
  /\ game = "starting" /\ setup.preload /\ Call("preload")
  /\ DllFirst /\ setup.dll => "dll" \in called
  /\ Initialize
  /\ UNCHANGED <<setup, game, listening>>

\* SKSE_PLUGIN_PRELOAD
Preload ==
  /\ game = "starting" /\ setup.preload /\ Call("preload")
  /\ DllFirst /\ setup.dll => "dll" \in called
  /\ IF g_isPreloaded THEN UNCHANGED <<installs, g_isPreloaded>> ELSE Initialize
  /\ UNCHANGED <<setup, game, listening>>

\* Whatever is installed has run when SKSE gets to its plugins.
PreloadOver ==
  /\ game = "starting"
  /\ setup.dll => "dll" \in called
  /\ setup.preload => "preload" \in called

\* SKSE_PLUGIN_QUERY: without a preload the process is terminated.
Query ==
  /\ PreloadOver /\ setup.queries /\ Call("query")
  /\ game' = IF g_isPreloaded THEN game ELSE "closed"
  /\ UNCHANGED <<setup, g_isPreloaded, installs, listening>>

\* Mutant: a failed check shows its message and lets the game go on.
LoadWithoutTerminate ==
  /\ PreloadOver /\ (setup.queries => "query" \in called) /\ Call("load")
  /\ game' = "loading" /\ listening' = (g_isPreloaded /\ setup.listener)
  /\ UNCHANGED <<setup, g_isPreloaded, installs>>

\* SKSE_PLUGIN_LOAD: the same check, then the listener.  A listener that is
\* refused leaves the hooks in place; SKSE unloads nothing.
Load ==
  /\ PreloadOver /\ (setup.queries => "query" \in called) /\ Call("load")
  /\ game' = IF g_isPreloaded THEN "loading" ELSE "closed"
  /\ listening' = (g_isPreloaded /\ setup.listener)
  /\ UNCHANGED <<setup, g_isPreloaded, installs>>

\* MessageHandler on kDataLoaded, with Patches::InstallDelayed.
DelayedParts == {"delayed"} \cup (IF setup.treeLod /\ setup.vr THEN {"treeLod"} ELSE {})

\* The game has loaded its data and sends kDataLoaded, once.
DataLoaded ==
  /\ game = "loading" /\ game' = "menu"
  /\ IF listening THEN Install(DelayedParts) ELSE UNCHANGED installs
  /\ UNCHANGED <<setup, g_isPreloaded, called, listening>>

Next == LoadDll \/ Preload \/ Query \/ Load \/ DataLoaded

Spec == Init /\ [][Next]_vars
-----------------------------------------------------------------------------
(* Properties.                                                             *)

\* "The g_isPreloaded guard means whichever path fires first wins; the other
\* becomes a harmless no-op": no part is hooked into the game twice.
InstalledAtMostOnce == \A p \in Part : installs[p] <= 1

\* Query/Load: the game goes on only with every early part installed; an
\* unsupported runtime, or a missing preloader, closes it.
NoGameWithoutFixes ==
  game \in {"loading", "menu"} =>
    /\ setup.supported
    /\ \A p \in {"memory", "patches", "fixes"} : installs[p] >= 1

\* Patches::Install/InstallDelayed: the tree LOD cache is installed from one of
\* two places.  On VR it is never there before the data is loaded ("VR needs to
\* delay for ESL support"); at the menu it is there if and only if the settings
\* ask for it, unless VR's listener was refused.
TreeLodAsConfigured ==
  /\ setup.vr /\ game # "menu" => installs["treeLod"] = 0
  /\ game = "menu" /\ (listening \/ ~setup.vr) =>
       (installs["treeLod"] >= 1 <=> setup.treeLod)
=============================================================================
