------------------------- MODULE FreedObjectGuards -------------------------
(***************************************************************************)
(* The thunks that guard a use of an object another thread may have freed: *)
(* they load a word (the object's vtable, or a pointer in it), test it,    *)
(* perhaps load and test the slot as well, and then call, resume the game  *)
(* with the word in a register, or resume code that reads the word again.  *)
(* Nothing stops the other thread between any two of these steps.          *)
(*                                                                         *)
(* The address space is scaled down; only the order of its parts counts.   *)
(***************************************************************************)
EXTENDS Naturals

CONSTANTS
  Layouts,     \* where the game's image may be loaded: [base, end]
  HighBase,    \* 0x00007ff000000000, above which Windows places images ...
  HighEnd,     \* ... and 0x0000800000000000, the end of user addresses
  MinPointer,  \* kMinPlausiblePointer
  HeapWords,   \* addresses of live data
  OtherWords   \* anything else a freed object's memory may hold

ASSUME GuardAssumption ==
  /\ MinPointer \in Nat /\ HighBase \in Nat /\ HighEnd \in Nat
  /\ OtherWords \subseteq Nat /\ HeapWords \subseteq Nat
  /\ 0 < MinPointer /\ MinPointer < HighBase /\ HighBase < HighEnd
  /\ \A l \in Layouts :
       /\ l.base \in Nat /\ l.end \in Nat
       /\ MinPointer < l.base /\ l.base < l.end /\ l.end < HighEnd
  /\ \A w \in HeapWords : MinPointer < w /\ w < HighEnd /\ w % 8 = 0

VARIABLES
  guard,      \* the thunk
  image,      \* where the game's image is loaded
  object,     \* "live" or "null"
  word,       \* the word in memory
  loaded,     \* the thunk's copy
  target,     \* the slot's content, if the thunk has loaded it (R11)
  thunkAt,    \* where the thunk is
  used,       \* the word that was used in the end
  disturbed   \* history: the object was freed, or its memory reused

guardVars == <<guard, image, object, word, loaded, target, thunkAt, used, disturbed>>
-----------------------------------------------------------------------------
\* A thunk that calls slot of the vtable it has found in the image.
Calls(slot) ==
  [null |-> FALSE, accepts |-> "image", margin |-> 0, slot |-> slot, slotGuard |-> FALSE,
   dispatch |-> "thunk"]

NullTested(g) == [g EXCEPT !.null = TRUE]
SlotTested(g) == [g EXCEPT !.slotGuard = TRUE]
WithMargin(g, bytes) == [g EXCEPT !.margin = bytes]
\* The game goes on with the vtable in RAX, or reads it again.
ResumesWithRax(g) == [g EXCEPT !.dispatch = "register"]
ResumesAndReloads(g) == [g EXCEPT !.dispatch = "memory"]
\* The word is a pointer to data; where the game has loaded it, LoadWord is the game's.
Pointer(test) == [Calls(0) EXCEPT !.accepts = test, !.dispatch = "register"]

\* scene_graph_detach_freed_crash.h
VisitPatch == NullTested(ResumesAndReloads(Calls(0)))
ChildPatch == Calls(\h18)
RecursiveNodePatchRdx == Calls(\h10)
RecursiveNodePatchRdi == Calls(\h18)
MultiBoundHelperPatch == NullTested(ResumesAndReloads(Calls(\h48)))
MultiBoundCallerPatch == Calls(\h18)
ObjectLODVisitorPatch == NullTested(ResumesAndReloads(Calls(\h38)))
ObjectLODReaderDispatchPatch == {Calls(slot) : slot \in {\h10, \h18, \h38}}
NiNodeCloneChildPatch == WithMargin(Calls(\hB8), \hBF)
NiNodeProcessCloneChildPatch == Calls(\hE8)
LightAttachSubtreeAsNodePatch == SlotTested(Calls(\h18))
LightAttachSubtreeFallbackPatch == SlotTested(Calls(\h38))
VisitCollisionArrayPatch == Pointer("canonical")

\* culling_freed_object_crash.h: the vtable has been loaded by the game; 0x80 is the
\* ObjectLOD render call.
CullingPatch == {SlotTested(Calls(slot)) : slot \in {\h1A0, \h1A8, \h80}}
ObjectLODPropertyPatch == WithMargin(SlotTested(Calls(\h10)), \h17)

\* batchrenderer_shader_technique_uaf.h
PatchTechnique == ResumesAndReloads(Calls(0))
PatchMaterial == Calls(\h20)
PatchRestore == NullTested(ResumesWithRax(Calls(0)))

\* batchrenderer_renderpass_array_uaf.h: the thunk tests a pointer that the game has in a
\* register, or loads the word itself.
ApplyPassPatch == Pointer("plausible")
ReadPassPatch == Pointer("plausible")

\* subindextrishape_create_null_crash.h, bstaskpool_null_vtable.h,
\* combatgroup_stale_pointer_crash.h
SubIndexPatch == Pointer("nonNull")
TaskPoolPatch == Pointer("nonNull")
GetCombatGroup == NullTested(Pointer("mapped"))

\* trishape_release_buffer_guard.h, for each of the two buffers: the pointer must be
\* non-null and aligned, and so must the vtable.
ReleaseBufferPatch == NullTested([Calls(\h10) EXCEPT !.accepts = "aligned"])

AllGuards ==
  {VisitPatch, ChildPatch, RecursiveNodePatchRdx, RecursiveNodePatchRdi, MultiBoundHelperPatch,
   MultiBoundCallerPatch, ObjectLODVisitorPatch, NiNodeCloneChildPatch, NiNodeProcessCloneChildPatch,
   LightAttachSubtreeAsNodePatch, LightAttachSubtreeFallbackPatch, VisitCollisionArrayPatch,
   ObjectLODPropertyPatch, PatchTechnique, PatchMaterial, PatchRestore, ApplyPassPatch,
   ReadPassPatch, SubIndexPatch, TaskPoolPatch, GetCombatGroup, ReleaseBufferPatch} \cup ObjectLODReaderDispatchPatch \cup CullingPatch
-----------------------------------------------------------------------------
\* What the word of a live object may be: a vtable of the game that has the slot, or
\* a pointer to data.
Vtables(g, l) ==
  {w \in OtherWords : w % 8 = 0 /\ l.base <= w /\ w + g.slot + 8 <= l.end}

IsVtable(g) == g.accepts \in {"image", "aligned"}
LiveWords(g, l) == IF IsVtable(g) THEN Vtables(g, l) ELSE HeapWords

InImage(w) == image.base <= w /\ w < image.end
InHighRange(w) == HighBase <= w /\ w < HighEnd

\* Mutant: the end is off by one.
RangeCheckOffByOne(w, margin) == image.base <= w /\ w + 1 < image.end - margin

\* EmitModuleRangeCheck
ModuleRangeCheck(w, margin) == image.base <= w /\ w < image.end - margin

Accepts(w) ==
  CASE guard.accepts = "image"     -> ModuleRangeCheck(w, guard.margin)
    [] guard.accepts = "plausible" -> w > MinPointer
    [] guard.accepts = "mapped"    -> w >= MinPointer
    [] guard.accepts = "canonical" -> w # 0 /\ w < HighEnd
    [] guard.accepts = "nonNull"   -> w # 0
    [] guard.accepts = "aligned"   -> w # 0 /\ w % 8 = 0

\* EmitLoadedSlotGuard
LoadedSlotGuard(w) == w # 0 /\ (InImage(w) \/ InHighRange(w))

GuardStart(g, l, o, w) ==
  /\ guard = g /\ image = l /\ object = o /\ word = w
  /\ loaded = 0 /\ target = 0 /\ thunkAt = "enter" /\ used = 0 /\ disturbed = FALSE

GuardInit ==
  \E g \in AllGuards, l \in Layouts, o \in {"live", "null"} :
    /\ o = "null" => g.null
    /\ \E w \in LiveWords(g, l) : GuardStart(g, l, o, w)

\* The test of the object's own pointer, where there is one.
EnterThunk ==
  /\ thunkAt = "enter"
  /\ thunkAt' = IF guard.null /\ object = "null" THEN "invalid" ELSE "load"
  /\ UNCHANGED <<guard, image, object, word, loaded, target, used, disturbed>>

LoadWord ==
  /\ thunkAt = "load" /\ thunkAt' = "check" /\ loaded' = word
  /\ UNCHANGED <<guard, image, object, word, target, used, disturbed>>

CheckWord ==
  /\ thunkAt = "check"
  /\ thunkAt' = IF ~Accepts(loaded) THEN "invalid" ELSE IF guard.slotGuard THEN "slot" ELSE "dispatch"
  /\ UNCHANGED <<guard, image, object, word, loaded, target, used, disturbed>>

\* A vtable of the game holds functions of the game, or of plugins that have hooked
\* them; anything else in the image is data.
LoadSlot ==
  /\ thunkAt = "slot" /\ thunkAt' = "checkSlot"
  /\ target' \in IF loaded \in Vtables(guard, image)
                 THEN {w \in OtherWords : InImage(w) \/ InHighRange(w)} ELSE OtherWords \cup HeapWords
  /\ UNCHANGED <<guard, image, object, word, loaded, used, disturbed>>

CheckSlot ==
  /\ thunkAt = "checkSlot"
  /\ thunkAt' = IF LoadedSlotGuard(target) THEN "dispatch" ELSE "invalid"
  /\ UNCHANGED <<guard, image, object, word, loaded, target, used, disturbed>>

\* Mutant: the game reads the word again after every thunk.
DispatchFromMemory ==
  /\ thunkAt = "dispatch" /\ thunkAt' = "used" /\ used' = word
  /\ UNCHANGED <<guard, image, object, word, loaded, target, disturbed>>

\* The call, or the game's own one behind the resume address.
Dispatch ==
  /\ thunkAt = "dispatch" /\ thunkAt' = "used"
  /\ used' = IF guard.dispatch = "memory" THEN word ELSE loaded
  /\ UNCHANGED <<guard, image, object, word, loaded, target, disturbed>>

\* Another thread frees the object, and its memory is reused.
FreeObject ==
  /\ thunkAt \notin {"used", "invalid"} /\ object = "live"
  /\ word' \in OtherWords \cup HeapWords /\ disturbed' = TRUE
  /\ UNCHANGED <<guard, image, object, loaded, target, thunkAt, used>>

GuardNext ==
  EnterThunk \/ LoadWord \/ CheckWord \/ LoadSlot \/ CheckSlot \/ Dispatch \/ FreeObject

GuardSpec == GuardInit /\ [][GuardNext]_guardVars
-----------------------------------------------------------------------------
\* What a guard stands for, of the word that is used in the end.
Sound(w) ==
  CASE guard.accepts = "image" ->
         InImage(w) /\ (guard.margin > 0 => w + guard.slot + 7 < image.end)
    [] guard.accepts = "aligned" -> w # 0 /\ w % 8 = 0
    [] guard.accepts = "canonical" -> w # 0 /\ w < HighEnd
    [] OTHER -> w # 0 /\ (guard.accepts \in {"plausible", "mapped"} => w >= MinPointer)

\* A free between any two steps of a thunk: the game never dispatches through a word
\* the guard has not vouched for, nor calls a slot outside the images - except where
\* the thunk resumes code that reads the word a second time, and the object is freed
\* after the first.
UsesVouchedWord ==
  thunkAt = "used" =>
    /\ object = "live"
    /\ (guard.dispatch = "memory" /\ disturbed) \/ Sound(used)
    /\ guard.slotGuard => InImage(target) \/ InHighRange(target)

\* A guard must not change the game: an object of the game that nobody frees is never
\* sent down the exit for a freed one, up to the last vtable in the image and wherever
\* the image and the plugins are loaded.
LiveObjectsDispatched ==
  object = "live" /\ ~disturbed =>
    /\ thunkAt # "invalid"
    /\ thunkAt = "used" => used \in LiveWords(guard, image)
=============================================================================
