--------------------------- MODULE ActorValueClear ---------------------------
(***************************************************************************)
(* fixes/actorvaluestorage_clear_race_crash.h.  An actor's value storage   *)
(* has two maps, each a key string and an array of entries, under one      *)
(* engine lock.  ClearBaseValues (and its wrapper, for the modifiers)      *)
(* frees the entries, unlocks, and only then resets the keys; a            *)
(* SetBaseValue in between finds keys whose entries are gone.  The fix     *)
(* patches three sites, each only if its bytes match.                      *)
(*                                                                         *)
(* The engine functions are modelled as the fix describes them.            *)
(***************************************************************************)
EXTENDS Naturals

CONSTANTS AvThreads   \* threads that set and clear values of one actor

ASSUME AvAssumption == "free" \notin AvThreads

VARIABLES
  sites,       \* the patch sites that are in place
  avLock,      \* the engine's lock: its owner, or "free"
  avMap,       \* per map: are there keys, are there entries
  avCalls,     \* per thread: where it is, and the map
  wildWrites   \* maps written through entries that do not exist

avVars == <<sites, avLock, avMap, avCalls, wildWrites>>

AvMap == {"base", "modifiers"}
Site == {"ClearBaseValues", "wrapper", "SetBaseValue"}
ClearSite(m) == IF m = "base" THEN "ClearBaseValues" ELSE "wrapper"

AvStep == {"outside", "clear", "reset", "unlock", "lateReset", "set", "write", "bail"}

\* Install(): each site is patched or skipped on its own.
AvStart(patched) ==
  /\ sites = patched /\ avLock = "free"
  /\ avMap = [m \in AvMap |-> [keys |-> FALSE, entries |-> FALSE]]
  /\ avCalls = [t \in AvThreads |-> [at |-> "outside", map |-> "base"]]
  /\ wildWrites = {}

AvInit == \E patched \in SUBSET Site : AvStart(patched)

At(t, step) == avCalls[t].at = step
GoTo(t, step) == avCalls' = [avCalls EXCEPT ![t].at = step]

\* Either call begins with LockWrite.
Enter(t, m, step) ==
  /\ At(t, "outside") /\ avLock = "free" /\ avLock' = t
  /\ avCalls' = [avCalls EXCEPT ![t] = [at |-> step, map |-> m]]
  /\ UNCHANGED <<sites, avMap, wildWrites>>

\* ClearBaseValues or the wrapper: the entries are freed.
FreeEntries(t) ==
  /\ At(t, "clear")
  /\ avMap' = [avMap EXCEPT ![avCalls[t].map].entries = FALSE]
  /\ GoTo(t, IF ClearSite(avCalls[t].map) \in sites THEN "reset" ELSE "lateReset")
  /\ IF ClearSite(avCalls[t].map) \in sites THEN UNCHANGED avLock ELSE avLock' = "free"
  /\ UNCHANGED <<sites, wildWrites>>

\* Mutant: the unlock comes first, as in the engine.
UnlockThenReset(t) ==
  /\ At(t, "reset")
  /\ avLock' = "free" /\ GoTo(t, "lateReset")
  /\ UNCHANGED <<sites, avMap, wildWrites>>

\* ResetBeforeUnlockPatch: the keys are reset under the lock.
ResetBeforeUnlock(t) ==
  /\ At(t, "reset")
  /\ avMap' = [avMap EXCEPT ![avCalls[t].map].keys = FALSE]
  /\ GoTo(t, "unlock")
  /\ UNCHANGED <<sites, avLock, wildWrites>>

\* The engine's own order: this reset is after the unlock.
ResetAfterUnlock(t) ==
  /\ At(t, "lateReset")
  /\ avMap' = [avMap EXCEPT ![avCalls[t].map].keys = FALSE]
  /\ GoTo(t, "outside")
  /\ UNCHANGED <<sites, avLock, wildWrites>>

\* Keys without entries, what the patch at SetBaseValue bails out on.
Torn(map) == ~map.entries /\ map.keys

\* NullEntriesGuardPatch, for the base values only: unlock and take the epilogue.
CheckEntries(t) ==
  /\ At(t, "set")
  /\ GoTo(t, IF avCalls[t].map = "base" /\ "SetBaseValue" \in sites /\ Torn(avMap["base"])
             THEN "bail" ELSE "write")
  /\ UNCHANGED <<sites, avLock, avMap, wildWrites>>

\* A known key is written through the entries; without keys both are created.
WriteValue(t) ==
  LET m == avCalls[t].map IN
  /\ At(t, "write")
  /\ wildWrites' = IF Torn(avMap[m]) THEN wildWrites \cup {m} ELSE wildWrites
  /\ avMap' = [avMap EXCEPT ![m] = [keys |-> TRUE, entries |-> TRUE]]
  /\ GoTo(t, "unlock")
  /\ UNCHANGED <<sites, avLock>>

Unlock(t) ==
  /\ At(t, "unlock") \/ At(t, "bail")
  /\ avLock' = "free" /\ GoTo(t, "outside")
  /\ UNCHANGED <<sites, avMap, wildWrites>>

AvNext ==
  \E t \in AvThreads :
    \/ \E m \in AvMap, step \in {"clear", "set"} : Enter(t, m, step)
    \/ FreeEntries(t) \/ ResetBeforeUnlock(t) \/ ResetAfterUnlock(t)
    \/ CheckEntries(t) \/ WriteValue(t) \/ Unlock(t)

AvSpec == AvInit /\ [][AvNext]_avVars
-----------------------------------------------------------------------------
AvTypeOK ==
  /\ sites \subseteq Site /\ avLock \in AvThreads \cup {"free"}
  /\ avMap \in [AvMap -> [keys : BOOLEAN, entries : BOOLEAN]]
  /\ avCalls \in [AvThreads -> [at : AvStep, map : AvMap]]
  /\ wildWrites \subseteq AvMap

\* The two fixes back each other up: a base value is never written through freed
\* entries while ClearBaseValues or SetBaseValue is patched, a modifier never while
\* the wrapper is; and with the reset patched nobody outside the lock, bailing out
\* included, leaves keys without entries behind.
NoWriteThroughFreedEntries ==
  /\ "base" \in wildWrites => sites \cap {"ClearBaseValues", "SetBaseValue"} = {}
  /\ "modifiers" \in wildWrites => "wrapper" \notin sites
  /\ \A m \in AvMap : ClearSite(m) \in sites /\ avLock = "free" => ~Torn(avMap[m])
=============================================================================
