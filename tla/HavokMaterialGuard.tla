------------------------- MODULE HavokMaterialGuard -------------------------
(***************************************************************************)
(* fixes/havok_material_lookup_guard.h, which replaces the engine's        *)
(* material lookup on VR.  The shape wrapper, the shape and the material   *)
(* table are the engine's and may be freed under the lookup: a read then   *)
(* faults, which __try turns into the neutral answer 0, or finds whatever  *)
(* the memory holds now.                                                   *)
(*                                                                         *)
(* Words are 0..(WordSize - 1); a pointer is a word and 0 is null.         *)
(***************************************************************************)
EXTENDS Naturals

CONSTANTS
  WordSize,    \* 2^64
  EntrySize,   \* kMaterialEntrySize
  Tables       \* the tables a shape may point to: [base, stride, count]

Word == 0..(WordSize - 1)

ASSUME HavokAssumption ==
  /\ WordSize \in Nat /\ EntrySize \in 1..(WordSize - 1)
  /\ Tables \subseteq [base : Word, stride : Word, count : Word]

VARIABLES
  table,       \* the table the shape describes now ...
  freed,       \* ... unless its memory cannot be read
  lookup,      \* where GuardedMaterialLookup is
  material,    \* what the resolver returned
  checked,     \* the table whose bounds the address passed
  recoveries   \* g_recoveries, of this lookup

havokVars == <<table, freed, lookup, material, checked, recoveries>>

LookupStep == {"entry", "resolve", "bounds", "read", "neutral", "material", "fault"}

TableBytes(t) == (t.stride * t.count) % WordSize

\* Mutant: the offset may be anywhere in the table, so the entry may end outside it.
StartInBounds(t, address) ==
  /\ t.base # 0 /\ t.stride >= EntrySize /\ t.count # 0
  /\ t.count <= (WordSize - 1) \div t.stride
  /\ address >= t.base
  /\ address - t.base < TableBytes(t)

\* IsEntryInBounds, in the arithmetic of uintptr_t.
IsEntryInBounds(t, address) ==
  /\ t.base # 0 /\ t.stride >= EntrySize /\ t.count # 0
  /\ t.count <= (WordSize - 1) \div t.stride
  /\ address >= t.base
  /\ (address - t.base) % t.stride = 0
  /\ address - t.base <= (TableBytes(t) + WordSize - EntrySize) % WordSize

NoTable == [base |-> 0, stride |-> 0, count |-> 0]

HavokStart(t) ==
  /\ table = t /\ freed = FALSE /\ lookup = "entry" /\ material = 0
  /\ checked = NoTable /\ recoveries = 0

HavokInit == \E t \in Tables : HavokStart(t)

\* RecordRecovery() and return 0, or return 0 without one.
Recover == lookup' = "neutral" /\ recoveries' = recoveries + 1
Neutral == lookup' = "neutral" /\ UNCHANGED recoveries

\* A null wrapper or an invalid key answers 0 at once; otherwise the shape is read,
\* which recovers from a fault and answers 0 for a null shape.
ReadShape ==
  /\ lookup = "entry"
  /\ \/ Neutral
     \/ freed /\ Recover
     \/ ~freed /\ lookup' = "resolve" /\ UNCHANGED recoveries
  /\ UNCHANGED <<table, freed, material, checked>>

\* The native decoder, outside the __try: it may return any address for a damaged
\* shape, or null; a fault in it is left to the process.
ResolveMaterial ==
  /\ lookup = "resolve"
  /\ \/ material' = 0 /\ Neutral
     \/ \E address \in Word \ {0} : material' = address /\ lookup' = "bounds" /\ UNCHANGED recoveries
     \/ freed /\ lookup' = "fault" /\ UNCHANGED <<material, recoveries>>
  /\ UNCHANGED <<table, freed, checked>>

\* Base, stride and count are read and tested; a freed shape faults.
CheckBounds ==
  /\ lookup = "bounds"
  /\ IF ~freed /\ IsEntryInBounds(table, material)
     THEN checked' = table /\ lookup' = "read" /\ UNCHANGED recoveries
     ELSE UNCHANGED checked /\ Recover
  /\ UNCHANGED <<table, freed, material>>

\* *(material + 4), in the same __try.
ReadMaterial ==
  /\ lookup = "read"
  /\ \/ freed /\ Recover
     \/ lookup' = "material" /\ UNCHANGED recoveries
  /\ UNCHANGED <<table, freed, material, checked>>

\* Another thread frees the shape, or its memory becomes another shape.
DisturbShape ==
  /\ lookup \in {"entry", "resolve", "bounds", "read"}
  /\ table' \in Tables /\ freed' \in BOOLEAN
  /\ UNCHANGED <<lookup, material, checked, recoveries>>

HavokNext == ReadShape \/ ResolveMaterial \/ CheckBounds \/ ReadMaterial \/ DisturbShape

HavokSpec == HavokInit /\ [][HavokNext]_havokVars
-----------------------------------------------------------------------------
\* The bytes a table occupies, in unbounded arithmetic.
Entry(t, k) == t.base + k * t.stride

\* GuardedMaterialLookup reads a material only from a whole entry of the table it
\* has tested, never null and never reached by arithmetic that wrapped, whatever
\* the shape's memory turned into.
ReadsWholeEntry ==
  lookup \in {"read", "material"} =>
    /\ checked.base # 0
    /\ \E k \in 0..(checked.count - 1) :
         /\ material = Entry(checked, k)
         /\ material + EntrySize <= Entry(checked, checked.count)
=============================================================================
