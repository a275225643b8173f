------------------------- MODULE PluginStartupProofs -------------------------
(***************************************************************************)
(* What the plugin does when it is loaded, in three parts.                 *)
(*                                                                         *)
(* PluginStartup for every installation and either order of the DLL and    *)
(* SKSE: which parts are in the game is a function of how far the start    *)
(* is, and with the DLL first none of them is there twice.                 *)
(*                                                                         *)
(* SettingsFile for every schema and every file a user may write: a        *)
(* rendered file is its own rendering, and its values are the user's.      *)
(*                                                                         *)
(* PatchSites for install tables that fulfil TablesAssumption, whichever   *)
(* sites are stale: what is in place is a function of what is stale.       *)
(***************************************************************************)
EXTENDS PluginStartup, SettingsFile, InstallTables, WellFoundedInduction, TLAPS

StartupTypeOK ==
  /\ setup \in Setup /\ g_isPreloaded \in BOOLEAN
  /\ installs \in [Part -> Nat]
  /\ game \in {"starting", "loading", "menu", "closed"}

\* The parts the game has, from the flag, the listener and the game's state.
InPlace(p) ==
  \/ g_isPreloaded /\ p \in EarlyParts
  \/ game = "menu" /\ listening /\ p \in DelayedParts

PartsInPlace == \A p \in Part : installs[p] >= 1 <=> InPlace(p)

\* The flag goes up on a supported runtime only, and the game goes on only with it.
FlagIsEarned ==
  /\ g_isPreloaded => setup.supported
  /\ game \in {"loading", "menu"} => g_isPreloaded

StartupIInv == StartupTypeOK /\ PartsInPlace /\ FlagIsEarned

\* With the DLL first, a raised flag means that the DLL is done.
OnceIInv == InstalledAtMostOnce /\ (g_isPreloaded /\ setup.dll => "dll" \in called)

LEMMA StartupInit == Init => StartupIInv /\ OnceIInv
<1> SUFFICES ASSUME Init PROVE StartupIInv /\ OnceIInv
  OBVIOUS
<1>1. StartupTypeOK
  BY DEF Init, StartupTypeOK
<1>2. \A p \in Part : installs[p] = 0 /\ ~InPlace(p)
  BY DEF Init, InPlace
<1>3. FlagIsEarned
  BY DEF Init, FlagIsEarned
<1> QED BY <1>1, <1>2, <1>3 DEF Init, StartupIInv, PartsInPlace, OnceIInv, InstalledAtMostOnce

\* The parts of the two installations are different ones.
LEMMA PartsDiffer == setup \in Setup => EarlyParts \cap DelayedParts = {}
  BY DEF Setup, EarlyParts, DelayedParts

LEMMA InitializeInv ==
  ASSUME StartupIInv, Initialize, game = "starting", UNCHANGED <<setup, game, listening>>
  PROVE  StartupIInv'
<1>1. CASE setup.supported
  <2>1. installs' = [p \in Part |-> installs[p] + IF p \in EarlyParts THEN 1 ELSE 0] /\ g_isPreloaded' = TRUE
    BY <1>1 DEF Initialize, Install
  <2>2. StartupTypeOK'
    BY <2>1 DEF StartupIInv, StartupTypeOK
  <2>3. \A p \in Part : installs'[p] >= 1 <=> installs[p] >= 1 \/ p \in EarlyParts
    BY <2>1 DEF StartupIInv, StartupTypeOK
  <2>4. EarlyParts' = EarlyParts /\ DelayedParts' = DelayedParts
    BY DEF EarlyParts, DelayedParts
  <2>5. PartsInPlace'
    BY <2>1, <2>3, <2>4 DEF StartupIInv, PartsInPlace, InPlace
  <2> QED BY <1>1, <2>1, <2>2, <2>5 DEF StartupIInv, FlagIsEarned
<1>2. CASE ~setup.supported
  BY <1>2 DEF Initialize, StartupIInv, StartupTypeOK, PartsInPlace, InPlace, FlagIsEarned,
              EarlyParts, DelayedParts
<1> QED BY <1>1, <1>2

LEMMA UntouchedInv ==
  ASSUME StartupIInv, UNCHANGED <<setup, g_isPreloaded, installs>>,
         game # "menu", game' \in {"starting", "loading", "closed"},
         game' = "loading" => g_isPreloaded
  PROVE  StartupIInv'
  BY DEF StartupIInv, StartupTypeOK, PartsInPlace, InPlace, FlagIsEarned, EarlyParts, DelayedParts

LEMMA DataLoadedInv == StartupIInv /\ DataLoaded => StartupIInv'
<1> SUFFICES ASSUME StartupIInv, DataLoaded PROVE StartupIInv'
  OBVIOUS
<1>1. /\ UNCHANGED <<setup, g_isPreloaded, listening>> /\ game = "loading" /\ game' = "menu"
      /\ installs' = IF listening THEN [p \in Part |-> installs[p] + IF p \in DelayedParts THEN 1 ELSE 0]
                     ELSE installs
  BY DEF DataLoaded, Install
<1>2. StartupTypeOK'
  BY <1>1 DEF StartupIInv, StartupTypeOK
<1>3. \A p \in Part : installs'[p] >= 1 <=> installs[p] >= 1 \/ (listening /\ p \in DelayedParts)
  BY <1>1 DEF StartupIInv, StartupTypeOK
<1>4. EarlyParts' = EarlyParts /\ DelayedParts' = DelayedParts
  BY <1>1 DEF EarlyParts, DelayedParts
<1>5. PartsInPlace'
  BY <1>1, <1>3, <1>4 DEF StartupIInv, PartsInPlace, InPlace
<1> QED BY <1>1, <1>2, <1>5 DEF StartupIInv, FlagIsEarned

LEMMA StartupNext == StartupIInv /\ [Next]_vars => StartupIInv'
<1> SUFFICES ASSUME StartupIInv, [Next]_vars PROVE StartupIInv'
  OBVIOUS
<1>1. CASE LoadDll
  BY <1>1, InitializeInv DEF LoadDll
<1>2. CASE Preload
  <2>1. CASE g_isPreloaded
    BY <1>2, <2>1, UntouchedInv DEF Preload
  <2> QED BY <1>2, <2>1, InitializeInv DEF Preload
<1>3. CASE Query
  BY <1>3, UntouchedInv DEF Query, PreloadOver
<1>4. CASE Load
  BY <1>4, UntouchedInv DEF Load, PreloadOver
<1>5. CASE UNCHANGED vars
  BY <1>5 DEF vars, StartupIInv, StartupTypeOK, PartsInPlace, InPlace, FlagIsEarned,
              EarlyParts, DelayedParts
<1> QED BY <1>1, <1>2, <1>3, <1>4, <1>5, DataLoadedInv DEF Next

\* Adding parts that are not there yet leaves none twice.
LEMMA InstallOnce ==
  ASSUME StartupIInv, InstalledAtMostOnce, NEW parts, Install(parts),
         \A p \in parts : ~InPlace(p)
  PROVE  InstalledAtMostOnce'
<1>1. \A p \in Part : p \in parts => installs[p] = 0
  BY DEF StartupIInv, StartupTypeOK, PartsInPlace
<1> QED BY <1>1 DEF Install, InstalledAtMostOnce, StartupIInv, StartupTypeOK

LEMMA InitializeOnce ==
  ASSUME StartupIInv, OnceIInv, Initialize, game = "starting", ~g_isPreloaded
  PROVE  InstalledAtMostOnce'
<1>1. \A p \in EarlyParts : ~InPlace(p)
  BY DEF InPlace
<1> QED BY <1>1, InstallOnce DEF Initialize, OnceIInv, InstalledAtMostOnce

LEMMA OnceNext == DllFirst /\ StartupIInv /\ OnceIInv /\ [Next]_vars => OnceIInv'
<1> SUFFICES ASSUME DllFirst, StartupIInv, OnceIInv, [Next]_vars PROVE OnceIInv'
  OBVIOUS
<1>1. CASE LoadDll
  <2>1. ~g_isPreloaded /\ "dll" \in called'
    BY <1>1 DEF LoadDll, Call, OnceIInv
  <2> QED BY <1>1, <2>1, InitializeOnce DEF LoadDll, OnceIInv
<1>2. CASE Preload
  <2>1. setup.dll => "dll" \in called /\ "dll" \in called'
    BY <1>2 DEF Preload, Call
  <2>2. CASE g_isPreloaded
    BY <1>2, <2>1, <2>2 DEF Preload, OnceIInv, InstalledAtMostOnce
  <2> QED BY <1>2, <2>1, <2>2, InitializeOnce DEF Preload, OnceIInv
<1>3. CASE Query
  BY <1>3 DEF Query, PreloadOver, OnceIInv, InstalledAtMostOnce, Call
<1>4. CASE Load
  BY <1>4 DEF Load, PreloadOver, OnceIInv, InstalledAtMostOnce, Call
<1>5. CASE DataLoaded
  <2>1. \A p \in DelayedParts : ~InPlace(p)
    BY <1>5, PartsDiffer DEF DataLoaded, InPlace, StartupIInv, StartupTypeOK
  <2>2. InstalledAtMostOnce'
    BY <1>5, <2>1, InstallOnce DEF DataLoaded, OnceIInv, InstalledAtMostOnce
  <2> QED BY <1>5, <2>2 DEF DataLoaded, OnceIInv
<1>6. CASE UNCHANGED vars
  BY <1>6 DEF vars, OnceIInv, InstalledAtMostOnce
<1> QED BY <1>1, <1>2, <1>3, <1>4, <1>5, <1>6 DEF Next

\* Initialize, Query and Load, whatever order the entry points come in: the game goes on
\* only on a supported runtime with memory, patches and fixes installed.
THEOREM StartupIsComplete == Spec => []NoGameWithoutFixes
<1>1. StartupIInv => NoGameWithoutFixes
  BY DEF StartupIInv, FlagIsEarned, PartsInPlace, InPlace, Part, EarlyParts, NoGameWithoutFixes
<1> QED BY StartupInit, StartupNext, <1>1, PTL DEF Spec

\* Patches::Install and InstallDelayed, whatever order the entry points come in: the tree
\* LOD cache comes from one of two places and is there exactly when the settings ask for it.
THEOREM TreeLodOnTime == Spec => []TreeLodAsConfigured
<1>1. StartupIInv => TreeLodAsConfigured
  <2> SUFFICES ASSUME StartupIInv PROVE TreeLodAsConfigured
    OBVIOUS
  <2>1. installs["treeLod"] >= 1 <=> InPlace("treeLod")
    BY DEF StartupIInv, PartsInPlace, Part
  <2>2. installs["treeLod"] \in Nat /\ setup \in Setup
    BY DEF StartupIInv, StartupTypeOK, Part
  <2>3. /\ "treeLod" \in EarlyParts <=> setup.treeLod /\ ~setup.vr
        /\ "treeLod" \in DelayedParts <=> setup.treeLod /\ setup.vr
    BY DEF EarlyParts, DelayedParts
  <2>4. setup.vr /\ game # "menu" => installs["treeLod"] = 0
    BY <2>1, <2>2, <2>3 DEF InPlace
  <2>5. game = "menu" => g_isPreloaded
    BY DEF StartupIInv, FlagIsEarned
  <2>6. game = "menu" /\ (listening \/ ~setup.vr) => (InPlace("treeLod") <=> setup.treeLod)
    BY <2>2, <2>3, <2>5 DEF InPlace, Setup
  <2> QED BY <2>1, <2>4, <2>6 DEF TreeLodAsConfigured
<1> QED BY StartupInit, StartupNext, <1>1, PTL DEF Spec

\* g_isPreloaded ("whichever path fires first wins"): when the preloader DLL comes before
\* SKSE, no part is hooked into the game twice.
THEOREM InstalledOnce ==
  ASSUME DllFirst
  PROVE  Spec => []InstalledAtMostOnce
<1>1. OnceIInv => InstalledAtMostOnce
  BY DEF OnceIInv
<1> QED BY DllFirst, StartupInit, StartupNext, OnceNext, <1>1, PTL DEF Spec
-----------------------------------------------------------------------------
\* Every nonempty set of numbers has a smallest element.
LEMMA SmallestOf ==
  ASSUME NEW S \in SUBSET Nat, S # {}
  PROVE  \E x \in S : \A y \in S : x <= y
<1> DEFINE R == {ss \in Nat \X Nat : ss[1] < ss[2]}
<1>1. IsWellFoundedOn(R, Nat)
  BY NatLessThanWellFounded DEF OpToRel
<1> HIDE DEF R
<1>2. PICK x \in S : \A y \in S : ~(<<y, x>> \in R)
  BY <1>1, WFMin
<1>3. \A y \in S : ~(y < x)
  <2> SUFFICES ASSUME NEW y \in S, y < x PROVE FALSE
    OBVIOUS
  <2>1. <<y, x>> \in R
    BY DEF R
  <2> QED BY <1>2, <2>1
<1>4. \A y \in S : x <= y
  BY <1>3
<1> QED BY <1>4

\* Max of a set of indices, which is all that it is used for.
LEMMA MaxIn ==
  ASSUME NEW n \in Nat, NEW S \in SUBSET (1..n), S # {}
  PROVE  Max(S) \in S /\ \A y \in S : Max(S) >= y
<1> DEFINE T == {n - x : x \in S}
<1>1. T \in SUBSET Nat /\ T # {}
  <2>1. \A x \in S : n - x \in Nat
    OBVIOUS
  <2>2. PICK x \in S : TRUE
    OBVIOUS
  <2>3. n - x \in T
    OBVIOUS
  <2> QED BY <2>1, <2>3
<1>2. PICK m \in T : \A y \in T : m <= y
  <2> HIDE DEF T
  <2> QED BY <1>1, SmallestOf
<1>3. PICK x \in S : m = n - x
  BY <1>2
<1>4. ASSUME NEW y \in S PROVE x >= y
  <2>1. n - y \in T /\ x \in 1..n /\ y \in 1..n
    OBVIOUS
  <2>2. n - x <= n - y
    BY <1>2, <1>3, <2>1
  <2> QED BY <2>1, <2>2
<1> QED BY <1>4 DEF Max

\* The lines that set a setting, and the headers above a line, are lines of the file.
LEMMA LastLine ==
  ASSUME NEW file, file \in Seq({file[j] : j \in DOMAIN file}), NEW i,
         KeyLines(file, i) # {}
  PROVE  Max(KeyLines(file, i)) \in KeyLines(file, i)
<1>1. KeyLines(file, i) \in SUBSET (1..Len(file)) /\ Len(file) \in Nat
  BY DEF KeyLines
<1> QED BY <1>1, MaxIn

\* Render keeps the lines of the schema but for the values.
LEMMA RenderedLines ==
  ASSUME NEW file
  PROVE  /\ DOMAIN Render(file) = DOMAIN Schema
         /\ \A i \in DOMAIN Schema :
              /\ Render(file)[i].kind = Schema[i].kind /\ Render(file)[i].name = Schema[i].name
              /\ Render(file)[i] = [Schema[i] EXCEPT !.value = Render(file)[i].value]
              /\ i \notin Settings => Render(file)[i] = Schema[i]
              /\ i \in Settings =>
                   Render(file)[i].value = IF ParseExisting(file, i) # "empty"
                                           THEN ParseExisting(file, i) ELSE Schema[i].value
<1>1. DOMAIN Render(file) = DOMAIN Schema
  BY DEF Render
<1>2. ASSUME NEW i \in DOMAIN Schema
      PROVE  /\ Render(file)[i].kind = Schema[i].kind /\ Render(file)[i].name = Schema[i].name
             /\ Render(file)[i] = [Schema[i] EXCEPT !.value = Render(file)[i].value]
             /\ i \notin Settings => Render(file)[i] = Schema[i]
             /\ i \in Settings =>
                  Render(file)[i].value = IF ParseExisting(file, i) # "empty"
                                          THEN ParseExisting(file, i) ELSE Schema[i].value
  <2> DEFINE v == ParseExisting(file, i)
  <2>1. Schema[i] = [kind |-> Schema[i].kind, name |-> Schema[i].name, value |-> Schema[i].value]
    BY SettingsAssumption
  <2>2. Render(file)[i] = IF i \in Settings /\ v # "empty" THEN [Schema[i] EXCEPT !.value = v] ELSE Schema[i]
    BY DEF Render
  <2> HIDE DEF v
  <2> QED BY <2>1, <2>2 DEF v
<1> QED BY <1>1, <1>2

\* Headers are where the schema has them, so every key is in its section.
LEMMA RenderedSections ==
  ASSUME NEW file, NEW i \in DOMAIN Schema
  PROVE  SectionAt(Render(file), i) = SectionAt(Schema, i)
<1> DEFINE r == Render(file)
           above == {j \in 1..(i - 1) : Schema[j].kind = "section"}
<1>1. Schema \in Seq({Schema[j] : j \in DOMAIN Schema}) /\ DOMAIN Schema = 1..Len(Schema)
  BY SettingsAssumption
<1>2. i - 1 \in Nat /\ 1..(i - 1) \subseteq DOMAIN Schema
  BY <1>1
<1>3. \A j \in 1..(i - 1) : r[j].kind = Schema[j].kind /\ r[j].name = Schema[j].name
  BY <1>2, RenderedLines
<1>4. {j \in 1..(i - 1) : r[j].kind = "section"} = above
  BY <1>3
<1>5. above # {} => r[Max(above)].name = Schema[Max(above)].name
  <2> SUFFICES ASSUME above # {} PROVE r[Max(above)].name = Schema[Max(above)].name
    OBVIOUS
  <2>1. above \in SUBSET (1..(i - 1))
    OBVIOUS
  <2> HIDE DEF above
  <2>2. Max(above) \in above
    BY <1>2, <2>1, MaxIn
  <2> QED BY <1>3, <2>1, <2>2
<1> HIDE DEF r
<1> QED BY <1>4, <1>5 DEF SectionAt, r

\* A setting has one line in a rendered file, its own.
LEMMA RenderedKey ==
  ASSUME NEW file, NEW i \in Settings
  PROVE  ParseExisting(Render(file), i) = Render(file)[i].value
<1> DEFINE r == Render(file)
<1>1. i \in DOMAIN Schema /\ Schema[i].kind = "key"
  BY DEF Settings
<1>2. DOMAIN r = DOMAIN Schema
  BY RenderedLines
<1>3. \A j \in DOMAIN Schema : /\ r[j].kind = Schema[j].kind /\ r[j].name = Schema[j].name
                               /\ SectionAt(r, j) = SectionAt(Schema, j)
  BY RenderedLines, RenderedSections
<1> HIDE DEF r
<1>4. KeyLines(r, i) = {i}
  <2>1. i \in KeyLines(r, i)
    BY <1>1, <1>2, <1>3 DEF KeyLines
  <2>2. ASSUME NEW j \in KeyLines(r, i) PROVE j = i
    <3>1. j \in Settings /\ Schema[j].name = Schema[i].name /\ SectionAt(Schema, j) = SectionAt(Schema, i)
      BY <1>2, <1>3, <2>2 DEF KeyLines, Settings
    <3> QED BY <3>1, SettingsAssumption
  <2> QED BY <2>1, <2>2
<1>5. Max({i}) = i
  <2>1. i \in Nat
    <3>1. Schema \in Seq({Schema[j] : j \in DOMAIN Schema})
      BY SettingsAssumption
    <3> QED BY <1>1, <3>1
  <2> QED BY <2>1 DEF Max
<1>6. ParseExisting(r, i) = r[i].value
  BY <1>4, <1>5 DEF ParseExisting
<1> QED BY <1>6 DEF r

\* Generate: rendering a rendered file changes nothing, whatever file it was rendered
\* from, so the canonical form is a fixed point and one write settles a file.
THEOREM RenderTwice ==
  ASSUME NEW file
  PROVE  Render(Render(file)) = Render(file)
<1> DEFINE r == Render(file)
<1>1. ASSUME NEW i \in DOMAIN Schema PROVE Render(r)[i] = r[i]
  <2>1. /\ r[i] = [Schema[i] EXCEPT !.value = r[i].value]
        /\ i \notin Settings => r[i] = Schema[i]
        /\ i \in Settings => r[i].value = IF ParseExisting(file, i) # "empty"
                                          THEN ParseExisting(file, i) ELSE Schema[i].value
    BY RenderedLines
  <2>2. i \in Settings => ParseExisting(r, i) = r[i].value
    BY RenderedKey
  <2> HIDE DEF r
  <2>3. /\ Render(r)[i] = [Schema[i] EXCEPT !.value = Render(r)[i].value]
        /\ i \notin Settings => Render(r)[i] = Schema[i]
        /\ i \in Settings => Render(r)[i].value = IF ParseExisting(r, i) # "empty"
                                                  THEN ParseExisting(r, i) ELSE Schema[i].value
    BY RenderedLines
  <2>4. CASE i \in Settings
    <3>1. Render(r)[i].value = r[i].value
      BY <2>1, <2>2, <2>3, <2>4
    <3> QED BY <2>1, <2>3, <3>1
  <2> QED BY <2>1, <2>3, <2>4
<1>2. Render(r) = [i \in DOMAIN Schema |-> Render(r)[i]] /\ r = [i \in DOMAIN Schema |-> r[i]]
  BY DEF Render
<1> HIDE DEF r
<1>3. Render(r) = r
  BY <1>1, <1>2
<1> QED BY <1>3 DEF r

\* What Render makes of a file is one of the things the file may say.
LEMMA RenderMeans ==
  ASSUME NEW file, file \in Seq({file[j] : j \in DOMAIN file}), NEW i \in Settings
  PROVE  Render(file)[i].value \in Meanings(file, i)
<1>1. i \in DOMAIN Schema
  BY DEF Settings
<1>2. Render(file)[i].value = IF ParseExisting(file, i) # "empty"
                              THEN ParseExisting(file, i) ELSE Schema[i].value
  BY <1>1, RenderedLines
<1>3. CASE KeyLines(file, i) = {}
  BY <1>2, <1>3 DEF ParseExisting, Meanings
<1>4. CASE KeyLines(file, i) # {}
  <2> DEFINE j == Max(KeyLines(file, i))
  <2>1. j \in KeyLines(file, i)
    BY <1>4, LastLine
  <2>2. ParseExisting(file, i) = file[j].value
    BY <1>4 DEF ParseExisting
  <2> HIDE DEF j
  <2>3. Render(file)[i].value = IF file[j].value = "empty" THEN Schema[i].value ELSE file[j].value
    BY <1>2, <2>2
  <2> QED BY <1>4, <2>1, <2>3 DEF Meanings
<1> QED BY <1>3, <1>4
-----------------------------------------------------------------------------
\* A file from which a launch makes values that the user's last edit allows.
Holds(file) == \A i \in Settings : Render(file)[i].value \in wanted[i]

\* The i-th setting in the game, as UserValuesSurvive wants it.
RunsAsWanted(i) ==
  settings[i] \in WantedInGame(i) \/ (~settled /\ settings[i] = Schema[i].value)

\* A file is settled in canonical form.  What a launch is about to write is canonical
\* and, like the file before it, holds the user's values.
SettingsIInv ==
  /\ custom \in CustomFiles
  /\ settled => tomlLines = Render(tomlLines) /\ launchAt \notin {"open", "write"}
  /\ launchAt \in {"open", "write"} => desired = Render(desired)
  /\ ~torn /\ launchAt # "write" => Holds(tomlLines)
  /\ ~torn /\ launchAt \in {"open", "write"} => Holds(desired)
  /\ ~torn /\ launchAt = "running" => \A i \in Settings : RunsAsWanted(i)

LEMMA EditHolds ==
  ASSUME NEW file \in UserFiles, NEW i \in Settings
  PROVE  Render(file)[i].value \in Meanings(file, i)
<1>1. file \in Seq({file[j] : j \in DOMAIN file})
  BY SettingsAssumption
<1> QED BY <1>1, RenderMeans

LEMMA SettingsInitInv == SettingsInit => SettingsIInv
<1> SUFFICES ASSUME NEW file \in UserFiles, NEW crlf \in BOOLEAN, NEW c \in CustomFiles,
                    SettingsStart(file, crlf, c)
             PROVE  SettingsIInv
  BY DEF SettingsInit
<1>1. Holds(tomlLines)
  BY EditHolds DEF SettingsStart, Holds
<1> QED BY <1>1 DEF SettingsStart, SettingsIInv

LEMMA LoadSettingsInv ==
  ASSUME SettingsIInv, LoadSettings
  PROVE  SettingsIInv'
<1>1. /\ launchAt = "load" /\ launchAt' = "running"
      /\ UNCHANGED <<tomlLines, tomlCR, custom, desired, wanted, torn, settled>>
  BY DEF LoadSettings
<1>2. ASSUME ~torn, NEW i \in Settings PROVE RunsAsWanted(i)'
  <2> DEFINE value == IF KeyLines(custom, i) # {} THEN ParseExisting(custom, i)
                      ELSE Render(tomlLines)[i].value
  <2>1. settled => tomlLines = Render(tomlLines)
    BY DEF SettingsIInv
  <2>2. settings'[i] = value \/ (~settled /\ settings'[i] = Schema[i].value)
    BY <2>1 DEF LoadSettings
  <2>3. value \in WantedInGame(i)
    <3>1. CASE KeyLines(custom, i) = {}
      BY <1>1, <1>2, <3>1 DEF SettingsIInv, Holds, WantedInGame
    <3>2. CASE KeyLines(custom, i) # {}
      <4> DEFINE j == Max(KeyLines(custom, i))
      <4>1. custom \in CustomFiles /\ custom \in Seq({custom[k] : k \in DOMAIN custom})
        BY SettingsAssumption DEF SettingsIInv
      <4>2. j \in KeyLines(custom, i)
        BY <3>2, <4>1, LastLine
      <4>3. value = custom[j].value
        BY <3>2 DEF ParseExisting
      <4> HIDE DEF j, value
      <4>4. custom[j].value # "empty"
        BY <4>1, <4>2, SettingsAssumption DEF KeyLines
      <4> QED BY <3>2, <4>2, <4>3, <4>4 DEF Meanings, WantedInGame
    <3> QED BY <3>1, <3>2
  <2>4. WantedInGame(i)' = WantedInGame(i)
    BY <1>1 DEF WantedInGame
  <2> HIDE DEF value
  <2> QED BY <1>1, <2>2, <2>3, <2>4 DEF RunsAsWanted
<1>3. Holds(tomlLines)' <=> Holds(tomlLines)
  BY <1>1 DEF Holds
<1> QED BY <1>1, <1>2, <1>3 DEF SettingsIInv

LEMMA SettingsNextInv == SettingsIInv /\ [SettingsNext]_settingsVars => SettingsIInv'
<1> SUFFICES ASSUME SettingsIInv, [SettingsNext]_settingsVars PROVE SettingsIInv'
  OBVIOUS
<1>1. CASE UserEdit
  <2>1. Holds(tomlLines)'
    BY <1>1, EditHolds DEF UserEdit, Holds
  <2> QED BY <1>1, <2>1 DEF SettingsIInv, UserEdit
<1>2. CASE ConvertLineEndings
  <2>1. \A i \in Settings : RunsAsWanted(i)' <=> RunsAsWanted(i)
    BY <1>2 DEF ConvertLineEndings, RunsAsWanted, WantedInGame
  <2> QED BY <1>2, <2>1 DEF SettingsIInv, ConvertLineEndings, Holds
<1>3. CASE Generate
  <2>1. /\ launchAt = "off" /\ desired' = Render(tomlLines)
        /\ UNCHANGED <<tomlLines, tomlCR, custom, settings, wanted, torn>>
        /\ \/ desired' = tomlLines /\ launchAt' = "load" /\ settled' = TRUE
           \/ desired' # tomlLines /\ launchAt' = "open" /\ settled' = settled
    BY <1>3 DEF Generate, SameText
  <2>2. desired' = Render(desired')
    BY <2>1, RenderTwice
  <2>3. ~torn => Holds(tomlLines)' /\ Holds(desired)'
    BY <2>1, <2>2 DEF SettingsIInv, Holds
  <2> QED BY <2>1, <2>2, <2>3 DEF SettingsIInv
<1>4. CASE OpenTruncated
  BY <1>4 DEF SettingsIInv, OpenTruncated, Holds
<1>5. CASE WriteAll
  <2>1. /\ launchAt = "write" /\ launchAt' = "load" /\ tomlLines' = desired /\ settled' = TRUE
        /\ UNCHANGED <<tomlCR, custom, desired, settings, wanted, torn>>
    BY <1>5 DEF WriteAll
  <2>2. ~torn => Holds(tomlLines)'
    BY <2>1 DEF SettingsIInv, Holds
  <2>3. tomlLines' = Render(tomlLines')
    BY <2>1 DEF SettingsIInv
  <2> QED BY <2>1, <2>2, <2>3 DEF SettingsIInv
<1>6. CASE WriteCutShort
  BY <1>6 DEF SettingsIInv, WriteCutShort
<1>7. CASE LoadSettings
  BY <1>7, LoadSettingsInv
<1>8. CASE QuitGame
  BY <1>8 DEF SettingsIInv, QuitGame, Holds
<1>9. CASE UNCHANGED settingsVars
  <2>1. \A i \in Settings : RunsAsWanted(i)' <=> RunsAsWanted(i)
    BY <1>9 DEF settingsVars, RunsAsWanted, WantedInGame
  <2> QED BY <1>9, <2>1 DEF SettingsIInv, settingsVars, Holds
<1> QED BY <1>1, <1>2, <1>3, <1>4, <1>5, <1>6, <1>7, <1>8, <1>9 DEF SettingsNext

LEMMA SettingsInvariance == SettingsSpec => []SettingsIInv
  BY SettingsInitInv, SettingsNextInv, PTL DEF SettingsSpec

\* Generate, Render and Load, for every schema, every base and custom file a user may
\* leave behind and any number of launches, crashes and edits: unless a write was cut
\* short, the file has what the user's last edit says, and the plugin runs with the
\* custom file's value where it has one and with the edit's everywhere else.
THEOREM UserValuesKept == SettingsSpec => []UserValuesSurvive
<1>1. SettingsIInv => UserValuesSurvive
  BY DEF SettingsIInv, UserValuesSurvive, Holds, RunsAsWanted
<1> QED BY <1>1, SettingsInvariance, PTL

\* Generate: a canonical file is never opened for writing again.
THEOREM CanonicalFileRests == SettingsSpec => []SettledFileNotRewritten
<1>1. SettingsIInv => SettledFileNotRewritten
  BY DEF SettingsIInv, SettledFileNotRewritten
<1> QED BY <1>1, SettingsInvariance, PTL
-----------------------------------------------------------------------------
\* A game in which the code of any guards may differ, not only of one or of all.
AnyStaleInit ==
  \E g \in Games : \E names \in SUBSET {step.name : step \in GuardSteps(g)} : PatchStart(g, names)
AnyStaleSpec == AnyStaleInit /\ [][PatchNext]_patchVars

Order == InstallOrder[release]
Passed == {i \in Guards(Order) : i < position}
InPlaceAt(i) == Order[i].name \in patched

\* A guard that is in place has what it needs in place; one that is not is stale, or
\* lacks something that can no longer come; what is registered has a site in place,
\* and what has a site in place is registered, or a line ahead will do it.
PatchIInv ==
  /\ release \in Games /\ position \in 1..(Len(Order) + 1)
  /\ patched \subseteq {Order[i].name : i \in Passed}
  /\ relocated \subseteq patched
  /\ \A i \in Passed : InPlaceAt(i) => Order[i].needs \subseteq patched
  /\ \A i \in Passed : ~InPlaceAt(i) => Order[i].name \in stale \/ ~(Order[i].needs \subseteq patched)
  /\ \A fix \in registry \cap Verified : \E i \in Passed : Order[i].fix = fix /\ InPlaceAt(i)
  /\ \A i \in Passed : InPlaceAt(i) /\ Order[i].fix \in Verified =>
       Order[i].fix \in registry \/ \E j \in DOMAIN Order : j >= position /\ RegisteredAt(Order, i, j)

LEMMA TablesFit ==
  ASSUME release \in Games
  PROVE  /\ Len(Order) \in Nat /\ DOMAIN Order = 1..Len(Order)
         /\ NamesFit(Order) /\ WindowsKept(Order) /\ ExitsFit(Order) /\ RegistrationFits(Order)
<1>1. /\ Order \in Seq(Range(Order))
      /\ NamesFit(Order) /\ WindowsKept(Order) /\ ExitsFit(Order) /\ RegistrationFits(Order)
  BY TablesAssumption DEF Order
<1> QED BY <1>1

\* The guards in place, by their position.
LEMMA PatchedStepsAre ==
  ASSUME PatchIInv
  PROVE  /\ PassedSteps = {Order[i] : i \in Passed}
         /\ PatchedSteps = {Order[i] : i \in {j \in Passed : InPlaceAt(j)}}
<1>1. position \in Nat /\ DOMAIN Order = 1..Len(Order) /\ Len(Order) \in Nat /\ position <= Len(Order) + 1
  BY TablesFit DEF PatchIInv
<1>2. {j \in 1..(position - 1) : Order[j].patches # {}} = Passed
  BY <1>1 DEF Passed, Guards
<1>3. PassedSteps = {Order[i] : i \in Passed}
  BY <1>2 DEF PassedSteps, Order
<1> QED BY <1>3 DEF PatchedSteps, InPlaceAt

\* Two guards in place share a place only if the tables put them there.
LEMMA SamePlace ==
  ASSUME PatchIInv, NEW i \in Passed, NEW j \in Passed, InPlaceAt(i), InPlaceAt(j),
         PlaceOf(Order[i]) = PlaceOf(Order[j])
  PROVE  Order[i].place = Order[j].place
<1>1. NamesFit(Order) /\ i \in Guards(Order) /\ j \in Guards(Order)
  BY TablesFit DEF PatchIInv, Passed
<1> QED BY <1>1 DEF NamesFit, PlaceOf

\* A site that is reached and not stale has the bytes its Install expects.
LEMMA FreshMatches ==
  ASSUME PatchIInv, position \in Guards(Order), Order[position].name \notin stale
  PROVE  Matches(Order[position])
<1>1. position \in Nat /\ release \in Games
  BY TablesFit DEF PatchIInv
<1>2. NamesFit(Order) /\ WindowsKept(Order) /\ Len(Order) \in Nat
  BY <1>1, TablesFit
<1> SUFFICES ASSUME NEW w \in Order[position].windows, NEW b \in Overwritten(Order[position].place)
             PROVE  b < w[1] \/ b >= w[2]
  BY DEF Matches
<1>3. PICK s \in PatchedSteps : PlaceOf(s) = Order[position].place /\ b \in Branches(s)
  BY DEF Overwritten, Branches
<1>4. PICK j \in Passed : s = Order[j]
  BY <1>3, PatchedStepsAre
<1>5. j \in Guards(Order) /\ j < position
  BY DEF Passed
<1>6. Order[j].place = Order[position].place
  BY <1>2, <1>3, <1>4, <1>5 DEF PlaceOf, NamesFit
<1> QED BY <1>2, <1>3, <1>4, <1>5, <1>6 DEF WindowsKept

\* What a step does with the site at position.
Outcome(placed) ==
  LET step == Order[position]
  IN  /\ patched' = IF placed THEN patched \cup {step.name} ELSE patched
      /\ relocated' \subseteq relocated \cup (IF placed THEN {step.name} ELSE {})
      /\ placed => position \in Guards(Order) /\ Reached(step)
      /\ ~placed /\ position \in Guards(Order) => step.name \in stale \/ ~Reached(step)
      /\ registry' = IF Reached(step) /\ Registers(step, placed) THEN registry \cup {step.fix} ELSE registry

LEMMA StepOutcome ==
  ASSUME PatchIInv, InstallStep
  PROVE  /\ position \in DOMAIN Order /\ position' = position + 1
         /\ release' = release /\ stale' = stale
         /\ \E placed \in BOOLEAN : Outcome(placed)
<1> DEFINE step == Order[position]
<1>1. /\ Len(Order) \in Nat /\ DOMAIN Order = 1..Len(Order) /\ position \in 1..(Len(Order) + 1)
      /\ NamesFit(Order)
  BY TablesFit DEF PatchIInv
<1>2. /\ position <= Len(Order) /\ position' = position + 1 /\ release' = release /\ stale' = stale
      /\ \/ ~Reached(step) /\ UNCHANGED <<patched, relocated, registry>>
         \/ Reached(step) /\ step.patches = {} /\ Place(step, "skipped")
         \/ Reached(step) /\ step.patches # {} /\ Matches(step) /\ Place(step, "patched")
         \/ Reached(step) /\ step.patches # {} /\ ~Matches(step) /\ Place(step, "skipped")
         \/ Reached(step) /\ step.scan /\ ~Matches(step) /\ Place(step, "relocated")
  BY DEF InstallStep, Order
<1>3. /\ position \in DOMAIN Order /\ (position \in Guards(Order) <=> step.patches # {})
      /\ step.scan => step.patches # {}
  BY <1>1, <1>2 DEF Guards, NamesFit
<1>4. position \in Guards(Order) /\ ~Matches(step) => step.name \in stale
  BY FreshMatches
<1>5. ~Reached(step) /\ UNCHANGED <<patched, relocated, registry>> => Outcome(FALSE)
  BY DEF Outcome
<1>6. Reached(step) /\ Place(step, "skipped") /\ (step.patches = {} \/ ~Matches(step)) => Outcome(FALSE)
  BY <1>3, <1>4 DEF Outcome, Place
<1>7. Reached(step) /\ step.patches # {} /\ Place(step, "patched") => Outcome(TRUE)
  BY <1>3 DEF Outcome, Place
<1>8. Reached(step) /\ step.patches # {} /\ Place(step, "relocated") => Outcome(TRUE)
  BY <1>3 DEF Outcome, Place
<1> HIDE DEF step
<1> QED BY <1>2, <1>3, <1>5, <1>6, <1>7, <1>8

\* The sites in place after the step.
LEMMA PassedNext ==
  ASSUME PatchIInv, InstallStep, NEW placed \in BOOLEAN, Outcome(placed)
  PROVE  /\ Order' = Order
         /\ Passed' = Passed \cup (IF position \in Guards(Order) THEN {position} ELSE {})
         /\ position \notin Passed /\ position \in Nat
         /\ \A i \in Passed : (InPlaceAt(i)' <=> InPlaceAt(i))
         /\ \A i \in Guards(Order) : i = position => (InPlaceAt(i)' <=> placed)
         /\ \A i \in Passed : i \in Guards(Order) /\ i < position
<1>1. /\ Len(Order) \in Nat /\ DOMAIN Order = 1..Len(Order) /\ position \in 1..(Len(Order) + 1)
      /\ NamesFit(Order)
  BY TablesFit DEF PatchIInv
<1>2. position \in DOMAIN Order /\ position' = position + 1 /\ release' = release
  BY StepOutcome
<1>3. Order' = Order
  BY <1>2 DEF Order
<1>4. \A i \in Guards(Order) : i \in Nat
  BY <1>1 DEF Guards
<1>5. Passed' = {i \in Guards(Order) : i < position + 1}
  BY <1>2, <1>3 DEF Passed
<1>6. Passed' = Passed \cup (IF position \in Guards(Order) THEN {position} ELSE {})
  BY <1>1, <1>4, <1>5 DEF Passed
<1>7. position \notin Passed /\ position \in Nat /\ \A i \in Passed : i \in Guards(Order) /\ i < position
  BY <1>1 DEF Passed
<1>8. \A i \in Passed : position \in Guards(Order) => Order[i].name # Order[position].name
  BY <1>1, <1>7 DEF NamesFit
<1>9. placed => position \in Guards(Order)
  BY DEF Outcome
<1>10. patched' = IF placed THEN patched \cup {Order[position].name} ELSE patched
  BY DEF Outcome
<1>11. \A i \in Passed : (InPlaceAt(i)' <=> InPlaceAt(i))
  BY <1>3, <1>8, <1>9, <1>10 DEF InPlaceAt
<1>12. ASSUME NEW g \in Guards(Order), g = position PROVE (InPlaceAt(g)' <=> placed)
  <2>1. patched \subseteq {Order[i].name : i \in Passed}
    BY DEF PatchIInv
  <2>2. Order[position].name \notin patched
    BY <2>1, <1>8, <1>12
  <2> QED BY <2>2, <1>3, <1>10, <1>12 DEF InPlaceAt
<1> QED BY <1>3, <1>6, <1>7, <1>11, <1>12

\* What a later site or a registration does, none of the earlier sites notices.
LEMMA PatchStepInv == PatchIInv /\ InstallStep => PatchIInv'
<1> SUFFICES ASSUME PatchIInv, InstallStep PROVE PatchIInv'
  OBVIOUS
<1>1. /\ Len(Order) \in Nat /\ DOMAIN Order = 1..Len(Order) /\ position \in 1..(Len(Order) + 1)
      /\ NamesFit(Order) /\ RegistrationFits(Order)
  BY TablesFit DEF PatchIInv
<1>2. /\ position \in DOMAIN Order /\ position' = position + 1
      /\ release' = release /\ stale' = stale
  BY StepOutcome
<1>3. PICK placed \in BOOLEAN : Outcome(placed)
  BY StepOutcome
<1>4. /\ Order' = Order
      /\ Passed' = Passed \cup (IF position \in Guards(Order) THEN {position} ELSE {})
      /\ position \notin Passed /\ position \in Nat
      /\ \A i \in Passed : (InPlaceAt(i)' <=> InPlaceAt(i))
      /\ \A i \in Guards(Order) : i = position => (InPlaceAt(i)' <=> placed)
      /\ \A i \in Passed : i \in Guards(Order) /\ i < position
  BY <1>3, PassedNext
<1> DEFINE step == Order[position]
<1>5. /\ patched' = IF placed THEN patched \cup {step.name} ELSE patched
      /\ relocated' \subseteq relocated \cup (IF placed THEN {step.name} ELSE {})
      /\ placed => position \in Guards(Order) /\ step.needs \subseteq patched
      /\ ~placed /\ position \in Guards(Order) => step.name \in stale \/ ~(step.needs \subseteq patched)
  BY <1>3 DEF Outcome, Reached
<1>6. registry' = IF step.needs \subseteq patched /\ Registers(step, placed)
                    THEN registry \cup {step.fix} ELSE registry
  BY <1>3 DEF Outcome, Reached
<1>7. \A i \in Guards(Order) : i <= position => ~(placed /\ step.name \in Order[i].needs)
  <2>1. \A i \in Guards(Order) : Order[i].needs \subseteq {Order[j].name : j \in {k \in Guards(Order) : k < i}}
    BY <1>1 DEF NamesFit, Guards
  <2> SUFFICES ASSUME NEW i \in Guards(Order), i <= position, placed, step.name \in Order[i].needs PROVE FALSE
    OBVIOUS
  <2>2. PICK j \in Guards(Order) : j < i /\ step.name = Order[j].name
    BY <2>1
  <2>3. j = position
    BY <2>2, <1>1, <1>5 DEF NamesFit
  <2>4. i \in Nat /\ j \in Nat
    BY <1>1 DEF Guards
  <2> QED BY <2>2, <2>3, <2>4, <1>4
<1>8. \A i \in Guards(Order) : i <= position => (Order[i].needs \subseteq patched' <=> Order[i].needs \subseteq patched)
  BY <1>5, <1>7
<1>9. \A i \in Passed' : i \in Guards(Order) /\ i <= position
  <2>1. \A i \in Guards(Order) : i \in Nat
    BY <1>1 DEF Guards
  <2> QED BY <2>1, <1>4
<1> DEFINE Ahead(i, from) == \E j \in DOMAIN Order : j >= from /\ RegisteredAt(Order, i, j)
<1>10. release' \in Games /\ position' \in 1..(Len(Order') + 1)
  BY <1>1, <1>2, <1>4 DEF PatchIInv
<1>11. patched' \subseteq {Order'[i].name : i \in Passed'}
  <2>1. patched \subseteq {Order[i].name : i \in Passed}
    BY DEF PatchIInv
  <2> QED BY <2>1, <1>4, <1>5
<1>12. relocated' \subseteq patched'
  BY <1>5 DEF PatchIInv
<1>13. \A i \in Passed' : InPlaceAt(i)' => Order'[i].needs \subseteq patched'
  <2>1. \A i \in Passed : InPlaceAt(i) => Order[i].needs \subseteq patched
    BY DEF PatchIInv
  <2> QED BY <2>1, <1>4, <1>5
<1>14. \A i \in Passed' : ~InPlaceAt(i)' => Order'[i].name \in stale' \/ ~(Order'[i].needs \subseteq patched')
  <2>1. \A i \in Passed : ~InPlaceAt(i) => Order[i].name \in stale \/ ~(Order[i].needs \subseteq patched)
    BY DEF PatchIInv
  <2> QED BY <2>1, <1>2, <1>4, <1>5, <1>8, <1>9
<1>15. \A fix \in registry' \cap Verified : \E i \in Passed' : Order'[i].fix = fix /\ InPlaceAt(i)'
  <2>1. \A fix \in registry \cap Verified : \E i \in Passed' : Order'[i].fix = fix /\ InPlaceAt(i)'
    BY <1>4 DEF PatchIInv
  <2>2. ASSUME step.fix \in Verified, step.needs \subseteq patched, Registers(step, placed)
        PROVE  \E i \in Passed' : Order[i].fix = step.fix /\ InPlaceAt(i)'
    <3>1. step.register \in {"none", "site", "ifAny", "always"}
      BY <1>1, <1>2 DEF RegistrationFits
    <3>2. CASE step.register = "site"
      BY <2>2, <3>2, <1>4, <1>5 DEF Registers
    <3>3. CASE step.register = "ifAny"
      <4>1. PICK other \in PatchedSteps : other.fix = step.fix
        BY <2>2, <3>3 DEF Registers
      <4>2. PICK i \in Passed : other = Order[i] /\ InPlaceAt(i)
        BY <4>1, PatchedStepsAre
      <4> QED BY <4>1, <4>2, <1>4
    <3>4. CASE step.register = "always"
      <4>1. PICK j \in Guards(Order) : j < position /\ Order[j].fix = step.fix /\ Order[j].name \in step.needs
        BY <3>4, <2>2, <1>1, <1>2 DEF RegistrationFits
      <4>2. j \in Passed /\ InPlaceAt(j)
        BY <4>1, <2>2 DEF Passed, InPlaceAt
      <4> QED BY <4>1, <4>2, <1>4
    <3> QED BY <2>2, <3>1, <3>2, <3>3, <3>4 DEF Registers
  <2> HIDE DEF step
  <2> QED BY <2>1, <2>2, <1>4, <1>6
<1>16. \A i \in Passed' : InPlaceAt(i)' /\ Order[i].fix \in Verified =>
         Order[i].fix \in registry' \/ Ahead(i, position + 1)
  <2>1. ASSUME NEW i \in Passed, InPlaceAt(i), Order[i].fix \in Verified
        PROVE  Order[i].fix \in registry' \/ Ahead(i, position + 1)
    <3>1. Order[i].fix \in registry \/ \E j \in DOMAIN Order : j >= position /\ RegisteredAt(Order, i, j)
      BY <2>1 DEF PatchIInv
    <3>2. CASE Order[i].fix \in registry
      BY <3>2, <1>6
    <3>3. ASSUME NEW j \in DOMAIN Order, j >= position, RegisteredAt(Order, i, j), j # position
          PROVE  Ahead(i, position + 1)
      BY <3>3, <1>1
    <3>4. ASSUME RegisteredAt(Order, i, position)
          PROVE  Order[i].fix \in registry'
      <4>1. Order[i].needs \cup {Order[i].name} \subseteq patched
        BY <2>1 DEF PatchIInv, InPlaceAt
      <4>2. step.needs \subseteq patched /\ step.fix = Order[i].fix
        BY <3>4, <4>1 DEF RegisteredAt
      <4>3. Order[i] \in PatchedSteps
        BY <2>1, PatchedStepsAre
      <4>4. Registers(step, placed)
        BY <3>4, <4>2, <4>3 DEF RegisteredAt, Registers
      <4> QED BY <4>2, <4>4, <1>6
    <3> QED BY <3>1, <3>2, <3>3, <3>4
  <2>2. ASSUME position \in Guards(Order), placed, step.fix \in Verified
        PROVE  step.fix \in registry' \/ Ahead(position, position + 1)
    <3>1. CASE step.register = "site"
      BY <3>1, <2>2, <1>5, <1>6 DEF Registers
    <3>2. CASE step.register # "site"
      <4>1. PICK j \in DOMAIN Order : position < j /\ RegisteredAt(Order, position, j)
        BY <3>2, <2>2, <1>1 DEF RegistrationFits
      <4> QED BY <4>1, <1>1
    <3> QED BY <3>1, <3>2
  <2> HIDE DEF Ahead
  <2> QED BY <2>1, <2>2, <1>4
<1> QED BY <1>2, <1>4, <1>10, <1>11, <1>12, <1>13, <1>14, <1>15, <1>16 DEF PatchIInv

LEMMA PatchInitInv == AnyStaleInit => PatchIInv
<1> SUFFICES ASSUME NEW g \in Games, NEW names, PatchStart(g, names) PROVE PatchIInv
  BY DEF AnyStaleInit
<1>1. release \in Games /\ position = 1 /\ patched = {} /\ relocated = {} /\ registry = {}
  BY DEF PatchStart
<1>2. /\ Len(Order) \in Nat /\ DOMAIN Order = 1..Len(Order)
  BY <1>1, TablesFit
<1>3. Passed = {}
  BY <1>1, <1>2 DEF Passed, Guards
<1> QED BY <1>1, <1>2, <1>3 DEF PatchIInv

LEMMA PatchInvariance == AnyStaleSpec => []PatchIInv
<1>1. PatchIInv /\ UNCHANGED patchVars => PatchIInv'
  BY DEF PatchIInv, patchVars, Order, Passed, InPlaceAt, Guards, RegisteredAt
<1> QED BY <1>1, PatchInitInv, PatchStepInv, PTL DEF AnyStaleSpec, PatchNext

LEMMA PatchSpecIsOne == PatchSpec => AnyStaleSpec
<1>1. PatchInit => AnyStaleInit
  BY DEF PatchInit, AnyStaleInit, StaleSets
<1> QED BY <1>1 DEF PatchSpec, AnyStaleSpec

\* InstallSite, SiteMatches..., whichever sites of the game differ: no guard keeps another
\* one out, although their windows overlap and their order is all that keeps them apart.
THEOREM NoGuardKeepsAnotherOut ==
  /\ AnyStaleSpec => []SkippedOnlyIfStale
  /\ PatchSpec => []SkippedOnlyIfStale
<1>1. PatchIInv => SkippedOnlyIfStale
  <2> SUFFICES ASSUME PatchIInv, NEW step \in PassedSteps, step.name \notin patched
               PROVE  step.name \in stale \/ ~Reached(step)
    BY DEF SkippedOnlyIfStale
  <2>1. PICK i \in Passed : step = Order[i]
    BY PatchedStepsAre
  <2> QED BY <2>1 DEF PatchIInv, InPlaceAt, Reached
<1> QED BY <1>1, PatchInvariance, PatchSpecIsOne, PTL

\* The resume and exit addresses of the thunks, whichever sites of the game differ: none
\* leads into the middle of a branch, its own or another guard's.
THEOREM ThunksResumeWhole ==
  /\ AnyStaleSpec => []ResumesOnWholeInstructions
  /\ PatchSpec => []ResumesOnWholeInstructions
<1>1. PatchIInv => ResumesOnWholeInstructions
  <2> SUFFICES ASSUME PatchIInv, NEW step \in PatchedSteps,
                      NEW b \in step.exits \cap Overwritten(PlaceOf(step))
               PROVE  \E other \in PatchedSteps : PlaceOf(other) = PlaceOf(step) /\ b \in other.patches
    BY DEF ResumesOnWholeInstructions
  <2>1. PICK s \in PatchedSteps : PlaceOf(s) = PlaceOf(step) /\ b \in Branches(s)
    BY DEF Overwritten, Branches
  <2>2. PICK i \in Passed : step = Order[i] /\ InPlaceAt(i)
    BY PatchedStepsAre
  <2>3. PICK j \in Passed : s = Order[j] /\ InPlaceAt(j)
    BY PatchedStepsAre
  <2>4. step.place = s.place
    BY <2>1, <2>2, <2>3, SamePlace
  <2>5. ExitsFit(Order) /\ i \in Guards(Order) /\ j \in Guards(Order)
    BY TablesFit DEF PatchIInv, Passed
  <2>6. b \in s.patches
    BY <2>1, <2>2, <2>3, <2>4, <2>5 DEF ExitsFit
  <2> QED BY <2>1, <2>6
<1> QED BY <1>1, PatchInvariance, PatchSpecIsOne, PTL

\* EF_INSTALLED, whichever sites of the game differ: of a fix that counts its sites or
\* stops early, the registry says that it is there exactly if one of its sites is.
THEOREM RegistryTellsTheTruth ==
  /\ AnyStaleSpec => []RegisteredIffPatched
  /\ PatchSpec => []RegisteredIffPatched
<1>1. PatchIInv => RegisteredIffPatched
  <2> SUFFICES ASSUME PatchIInv, position > Len(Order), NEW fix \in Verified
               PROVE  fix \in registry <=> \E step \in PatchedSteps : step.fix = fix
    BY DEF RegisteredIffPatched, Order
  <2>1. Len(Order) \in Nat /\ DOMAIN Order = 1..Len(Order) /\ position \in Nat
    BY TablesFit DEF PatchIInv
  <2>2. ASSUME fix \in registry PROVE \E step \in PatchedSteps : step.fix = fix
    <3>1. PICK i \in Passed : Order[i].fix = fix /\ InPlaceAt(i)
      BY <2>2 DEF PatchIInv
    <3> QED BY <3>1, PatchedStepsAre
  <2>3. ASSUME NEW step \in PatchedSteps, step.fix = fix PROVE fix \in registry
    <3>1. PICK i \in Passed : step = Order[i] /\ InPlaceAt(i)
      BY PatchedStepsAre
    <3>2. ~ \E j \in DOMAIN Order : j >= position
      BY <2>1
    <3> QED BY <2>3, <3>1, <3>2 DEF PatchIInv
  <2> QED BY <2>2, <2>3
<1> QED BY <1>1, PatchInvariance, PatchSpecIsOne, PTL
=============================================================================
