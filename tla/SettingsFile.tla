---------------------------- MODULE SettingsFile ----------------------------
(***************************************************************************)
(* settings.cpp.  Every launch brings EngineFixes.toml into its canonical  *)
(* form: the declared settings in order, each with the user's value or its *)
(* default.  The file is truncated and rewritten in place, so a crash or a *)
(* full disk can tear it; the next launch reads what is left.              *)
(*                                                                         *)
(* A file is a sequence of lines; comments, blank lines and anything else  *)
(* the parser skips are lines of kind "other".                             *)
(***************************************************************************)
EXTENDS Naturals, Sequences, FiniteSetsExt

CONSTANTS
  Schema,      \* the canonical lines with the default values
  UserFiles,   \* contents a user may leave behind
  CustomFiles  \* contents of EngineFixesCustom.toml

VARIABLES
  tomlLines, tomlCR,  \* EngineFixes.toml: its lines, and whether they end in CR LF
  custom,             \* the lines of EngineFixesCustom.toml
  launchAt, desired,  \* where Load() is, and the text it wants
  settings,           \* what the plugin runs with, per line of the schema
  wanted,             \* history: values the user's last edit allows, per line
  torn,               \* history: a write was cut short since that edit
  settled             \* history: the file has been canonical since that edit

settingsVars == <<tomlLines, tomlCR, custom, launchAt, desired, settings, wanted, torn, settled>>

Settings == {i \in DOMAIN Schema : Schema[i].kind = "key"}

\* The section a line is in: the last header above it.
SectionAt(file, i) ==
  LET above == {j \in 1..(i - 1) : file[j].kind = "section"}
  IN  IF above = {} THEN "none" ELSE file[Max(above)].name

\* The lines of a file that set the i-th setting.
KeyLines(file, i) ==
  {j \in DOMAIN file : file[j].kind = "key" /\ file[j].name = Schema[i].name
                       /\ SectionAt(file, j) = SectionAt(Schema, i)}

\* A setting is declared once; an empty value, which ParseExisting takes for a missing
\* one, is not TOML, so a custom file that the library loads has none.
ASSUME SettingsAssumption ==
  /\ \A file \in {Schema} \cup UserFiles \cup CustomFiles : file \in Seq({file[j] : j \in DOMAIN file})
  /\ \A i \in DOMAIN Schema :
       Schema[i] = [kind |-> Schema[i].kind, name |-> Schema[i].name, value |-> Schema[i].value]
  /\ \A i, j \in Settings :
       Schema[i].name = Schema[j].name /\ SectionAt(Schema, i) = SectionAt(Schema, j) => i = j
  /\ \A file \in CustomFiles : \A j \in DOMAIN file : file[j].value # "empty"

\* Mutant: the section is forgotten.
KeyAnywhere(file, i) ==
  LET found == {j \in DOMAIN file : file[j].kind = "key" /\ file[j].name = Schema[i].name}
  IN  IF found = {} THEN "empty" ELSE file[Max(found)].value

\* ParseExisting: keys before any section are dropped, a later duplicate wins.
ParseExisting(file, i) ==
  LET found == KeyLines(file, i)
  IN  IF found = {} THEN "empty" ELSE file[Max(found)].value

\* Render: a value that is missing or empty becomes the default.
Render(file) ==
  [i \in DOMAIN Schema |->
     IF i \in Settings /\ ParseExisting(file, i) # "empty"
     THEN [Schema[i] EXCEPT !.value = ParseExisting(file, i)]
     ELSE Schema[i]]

\* What a value may be read as: TOML has no rule for duplicates, and an empty value
\* asks for the default.
Meanings(file, i) ==
  IF KeyLines(file, i) = {} THEN {Schema[i].value}
  ELSE {IF file[j].value = "empty" THEN Schema[i].value ELSE file[j].value : j \in KeyLines(file, i)}

\* Mutant: the files are compared byte by byte.
SameBytes(a, b, cr) == a = b /\ ~cr

\* StripCR(desired) == StripCR(current)
SameText(a, b, cr) == a = b

SettingsStart(file, crlf, customFile) ==
  /\ tomlLines = file /\ tomlCR = crlf /\ custom = customFile
  /\ launchAt = "off" /\ desired = <<>>
  /\ settings = [i \in Settings |-> Schema[i].value]
  /\ wanted = [i \in Settings |-> Meanings(file, i)]
  /\ torn = FALSE /\ settled = FALSE

SettingsInit ==
  \E file \in UserFiles, crlf \in BOOLEAN, c \in CustomFiles : SettingsStart(file, crlf, c)

\* Between launches the user edits the file ...
UserEdit ==
  /\ launchAt = "off"
  /\ tomlLines' \in UserFiles /\ tomlCR' \in BOOLEAN
  /\ wanted' = [i \in Settings |-> Meanings(tomlLines', i)]
  /\ torn' = FALSE /\ settled' = FALSE
  /\ UNCHANGED <<custom, launchAt, desired, settings>>

\* ... or only saves it with other line endings.
ConvertLineEndings ==
  /\ launchAt = "off" /\ tomlCR' = ~tomlCR
  /\ UNCHANGED <<tomlLines, custom, launchAt, desired, settings, wanted, torn, settled>>

\* Generate() up to the comparison.
Generate ==
  /\ launchAt = "off"
  /\ desired' = Render(tomlLines)
  /\ IF SameText(desired', tomlLines, tomlCR)
     THEN launchAt' = "load" /\ settled' = TRUE
     ELSE launchAt' = "open" /\ UNCHANGED settled
  /\ UNCHANGED <<tomlLines, tomlCR, custom, settings, wanted, torn>>

\* The file is opened with trunc; a failure skips the rest.
OpenTruncated ==
  /\ launchAt = "open"
  /\ \/ launchAt' = "load" /\ UNCHANGED <<tomlLines, tomlCR>>
     \/ launchAt' = "write" /\ tomlLines' = <<>> /\ tomlCR' = FALSE
  /\ UNCHANGED <<custom, desired, settings, wanted, torn, settled>>

WriteAll ==
  /\ launchAt = "write"
  /\ tomlLines' = desired /\ launchAt' = "load" /\ settled' = TRUE
  /\ UNCHANGED <<tomlCR, custom, desired, settings, wanted, torn>>

\* A prefix of the text, its last value possibly cut to "torn".
TornTexts(lines) ==
  LET cut(n) == SubSeq(lines, 1, n)
  IN  {cut(n) : n \in 0..(Len(lines) - 1)} \cup
      {Append(cut(n), [lines[n + 1] EXCEPT !.value = "torn"]) :
         n \in {k \in 0..(Len(lines) - 1) : lines[k + 1].kind = "key"}}

\* The disk is full, which nobody notices, or the game is killed.
WriteCutShort ==
  /\ launchAt = "write"
  /\ tomlLines' \in TornTexts(desired)
  /\ launchAt' \in {"load", "off"} /\ torn' = TRUE
  /\ UNCHANGED <<tomlCR, custom, desired, settings, wanted, settled>>

\* Mutant: the custom file is loaded first, and the base file over it.
LoadCustomFirst ==
  /\ launchAt = "load" /\ launchAt' = "running"
  /\ settings' = [i \in Settings |-> Render(tomlLines)[i].value]
  /\ UNCHANGED <<tomlLines, tomlCR, custom, desired, wanted, torn, settled>>

\* toml->Load(): the custom file over the base file.  A canonical file is read as it
\* is; what the library makes of another one is its own affair.
LoadSettings ==
  LET value(i) == IF KeyLines(custom, i) # {} THEN ParseExisting(custom, i)
                  ELSE Render(tomlLines)[i].value
  IN  /\ launchAt = "load" /\ launchAt' = "running"
      /\ \/ settings' = [i \in Settings |-> value(i)]
         \/ tomlLines # Render(tomlLines) /\ settings' = [i \in Settings |-> Schema[i].value]
      /\ UNCHANGED <<tomlLines, tomlCR, custom, desired, wanted, torn, settled>>

\* The game ends, or crashes.
QuitGame ==
  /\ launchAt \in {"open", "load", "running"} /\ launchAt' = "off"
  /\ UNCHANGED <<tomlLines, tomlCR, custom, desired, settings, wanted, torn, settled>>

SettingsNext ==
  \/ UserEdit \/ ConvertLineEndings \/ Generate \/ OpenTruncated \/ WriteAll \/ WriteCutShort
  \/ LoadSettings \/ QuitGame

SettingsSpec == SettingsInit /\ [][SettingsNext]_settingsVars
-----------------------------------------------------------------------------
\* What the i-th setting has to be in the game: EngineFixesCustom.toml goes before the
\* user's last edit of EngineFixes.toml, where it sets the key at all.
WantedInGame(i) == IF KeyLines(custom, i) # {} THEN Meanings(custom, i) ELSE wanted[i]

\* "existing values are preserved": however often the game was launched since, and
\* however the file was put together, the file holds what the user's last edit says, and
\* the plugin runs with it or with the custom file's value where there is one; only a
\* write that was cut short loses values.  (A file that could not be rewritten, for
\* which the library may give the defaults, is no loss: the next launch reads it again.)
UserValuesSurvive ==
  ~torn /\ launchAt # "write" =>
    \A i \in Settings :
      /\ Render(tomlLines)[i].value \in wanted[i]
      /\ launchAt = "running" =>
           settings[i] \in WantedInGame(i) \/ (~settled /\ settings[i] = Schema[i].value)

\* "Idempotent ... it does not churn the file every launch": a file that a launch
\* has completed is not opened for writing again until the user edits it, whatever
\* its line endings become.
SettledFileNotRewritten == settled => launchAt \notin {"open", "write"}
=============================================================================
