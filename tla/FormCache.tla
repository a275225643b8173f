----------------------------- MODULE FormCache -----------------------------
(***************************************************************************)
(* The form caches of src/patches/form_caching.h and                       *)
(* src/patches/tree_lod_reference_caching.cpp beside the engine's form     *)
(* table.  g_formCache maps a form id to a form and replaces the lookup;   *)
(* g_treeReferenceCache maps a base id to the first tree that the load     *)
(* order has under it, or to null when there is none.                      *)
(*                                                                         *)
(* Every operation on a concurrent_hash_map is one step.  The engine holds *)
(* its table lock around SetAt and RemoveAt, so the hooks run inside it and *)
(* LookupByID, which takes it too, waits; the lookups of the caches take   *)
(* no lock, and the two clears are not locked either.                      *)
(***************************************************************************)
EXTENDS Naturals

CONSTANTS
  Reader,      \* threads that look forms up
  NumMods,     \* TESDataHandler::GetLoadedModCount()
  Base,        \* base ids: a form id without its mod index
  Form, Tree,  \* forms, and those that are references to a tree
  None,        \* null; in a cache, "no entry"
  Absent       \* in the tree cache, "no entry" (null is an entry there)

ASSUME FormCacheAssumption ==
  /\ NumMods \in Nat \ {0} /\ Base # {} /\ Tree \subseteq Form
  /\ None \notin Form /\ Absent \notin Form \cup {None}

VARIABLES
  native,      \* the engine's form table
  formCache,   \* g_formCache
  treeCache,   \* g_treeReferenceCache
  pc, goal, id, got,  \* each reader: where, "lookup" or "scan", the id it is at, what it holds
  writer,      \* the SetAt, RemoveAt or clear in progress
  raced,       \* history: readers whose fill a write has overtaken
  tainted      \* history: base ids such a fill was stored under

readerVars == <<pc, goal, id, got>>
caches == <<formCache, treeCache>>
history == <<raced, tainted>>
vars == <<native, formCache, treeCache, pc, goal, id, got, writer, raced, tainted>>

Mod == 0..(NumMods - 1)
Id == Mod \X Base      \* a_formId, split into masterId and baseId
ModOf(i) == i[1]
BaseOf(i) == i[2]
AnyId == CHOOSE i \in Id : TRUE
NoWrite == [op |-> "none", id |-> AnyId, form |-> None, step |-> "none"]

Init ==
  /\ native = [i \in Id |-> None]
  /\ formCache = [i \in Id |-> None] /\ treeCache = [b \in Base |-> Absent]
  /\ pc = [t \in Reader |-> "idle"] /\ goal = [t \in Reader |-> "lookup"]
  /\ id = [t \in Reader |-> AnyId] /\ got = [t \in Reader |-> None]
  /\ writer = NoWrite
  /\ raced = {} /\ tainted = {}
-----------------------------------------------------------------------------
(* Readers: TESForm_GetFormByNumericId and UpdateBlockVisibility.          *)

Goto(t, p, g, i, f) ==
  /\ pc' = [pc EXCEPT ![t] = p] /\ goal' = [goal EXCEPT ![t] = g]
  /\ id' = [id EXCEPT ![t] = i] /\ got' = [got EXCEPT ![t] = f]

Idle(t) == Goto(t, "idle", "lookup", AnyId, None)

\* GetFormByNumericId has found f (or None) for the id of reader t.  A lookup
\* returns it; the scan takes it if it is a tree and goes on to the next mod
\* otherwise, and stores null after the last one.
Found(t, f) ==
  IF goal[t] = "lookup" THEN Idle(t)
  ELSE IF f \in Tree THEN Goto(t, "store", "scan", id[t], f)
  ELSE IF ModOf(id[t]) + 1 \in Mod
       THEN Goto(t, "find", "scan", <<ModOf(id[t]) + 1, BaseOf(id[t])>>, None)
       ELSE Goto(t, "store", "scan", id[t], None)

\* The id is looked up in the cache first: a hit does not see the table.
Find(t) ==
  /\ pc[t] = "find"
  /\ IF formCache[id[t]] # None
     THEN Found(t, formCache[id[t]])
     ELSE Goto(t, "native", goal[t], id[t], None)
  /\ UNCHANGED <<native, caches, writer, history>>

\* RE::TESForm::LookupByID: the table under the engine's lock.
LookupByID(t) ==
  /\ pc[t] = "native" /\ writer.op \notin {"set", "remove"}
  /\ IF native[id[t]] # None
     THEN Goto(t, "emplace", goal[t], id[t], native[id[t]])
     ELSE Found(t, None)
  /\ raced' = IF writer.op = "clear" THEN raced \cup {t} ELSE raced
  /\ UNCHANGED <<native, caches, writer, tainted>>

\* Mutant: the fill overwrites what has been put there meanwhile.
FillOver(i, f) == formCache' = [formCache EXCEPT ![i] = f]

\* g_formCache.emplace: keeps an entry that is already there.
Fill(i, f) == formCache' = [formCache EXCEPT ![i] = IF @ = None THEN f ELSE @]

\* A fill that a write has overtaken leaves its mark on the base id.
Taint(t) == tainted' = IF t \in raced THEN tainted \cup {BaseOf(id[t])} ELSE tainted

Emplace(t) ==
  /\ pc[t] = "emplace"
  /\ Fill(id[t], got[t])
  /\ Found(t, got[t])
  /\ Taint(t)
  /\ UNCHANGED <<native, treeCache, writer, raced>>

Lookup(t, i) ==
  /\ pc[t] = "idle"
  /\ Goto(t, "find", "lookup", i, None)
  /\ raced' = raced \ {t}
  /\ UNCHANGED <<native, caches, writer, tainted>>

\* UpdateBlockVisibility for a tree instance: an entry of the tree cache, null
\* or not, is used as it is; otherwise the mods are scanned in load order.
Scan(t, b) ==
  /\ pc[t] = "idle" /\ treeCache[b] = Absent
  /\ Goto(t, "find", "scan", <<0, b>>, None)
  /\ raced' = raced \ {t}
  /\ UNCHANGED <<native, caches, writer, tainted>>

\* g_treeReferenceCache.emplace, "even if it's a null pointer".
Store(t) ==
  /\ pc[t] = "store"
  /\ treeCache' = [treeCache EXCEPT ![BaseOf(id[t])] = IF @ = Absent THEN got[t] ELSE @]
  /\ Idle(t)
  /\ Taint(t)
  /\ UNCHANGED <<native, formCache, writer, raced>>

ReaderStep(t) == Find(t) \/ LookupByID(t) \/ Emplace(t) \/ Store(t)
-----------------------------------------------------------------------------
(* Writers.  One runs at a time: the table lock serialises SetAt and       *)
(* RemoveAt, and the game clears its data when nothing registers forms.    *)

WriterAt(op, step) == writer.op = op /\ writer.step = step
Advance(step) == writer' = [writer EXCEPT !.step = step]

\* The readers a step on base id b overtakes, for which condition p holds.
Overtake(b, p(_)) ==
  raced' = raced \cup {t \in Reader : pc[t] # "idle" /\ BaseOf(id[t]) = b /\ p(t)}

\* Mutant: an entry that is already there stays (emplace alone).
CacheSetKeeping(i, f) == formCache' = [formCache EXCEPT ![i] = IF @ = None THEN f ELSE @]

\* OnFormSet's emplace, or the assignment when there was an entry.
CacheSet(i, f) == formCache' = [formCache EXCEPT ![i] = f]

\* FormScatterTable_SetAt: OnFormSet comes before the engine's own SetAt.  The
\* hooked call sites (TESForm's constructor, SetFormId) set the form itself, so
\* it is not null, and it has one id at a time.
SetAt(i, f) ==
  /\ writer = NoWrite /\ \A j \in Id : native[j] # f
  /\ CacheSet(i, f)
  /\ writer' = [op |-> "set", id |-> i, form |-> f, step |-> "tree"]
  /\ UNCHANGED <<native, treeCache, readerVars, history>>

\* Mutant: only a removal invalidates the tree cache.
ForgetTreeOnRemove(b) ==
  treeCache' = IF writer.op = "remove" THEN [treeCache EXCEPT ![b] = Absent] ELSE treeCache

\* RemoveCachedForm
ForgetTree(b) == treeCache' = [treeCache EXCEPT ![b] = Absent]

\* The scan in progress under this base id may have passed the form already.
SetTree ==
  /\ WriterAt("set", "tree") /\ Advance("native")
  /\ ForgetTree(BaseOf(writer.id))
  /\ Overtake(BaseOf(writer.id), LAMBDA t : goal[t] = "scan")
  /\ UNCHANGED <<native, formCache, readerVars, tainted>>

SetNative ==
  /\ WriterAt("set", "native")
  /\ native' = [native EXCEPT ![writer.id] = writer.form]
  /\ writer' = NoWrite
  /\ UNCHANGED <<caches, readerVars, history>>

\* FormMap_RemoveAt: the engine's RemoveAt, then OnFormRemoved if it removed.
RemoveAt(i) ==
  /\ writer = NoWrite
  /\ native[i] # None
  /\ native' = [native EXCEPT ![i] = None]
  /\ writer' = [op |-> "remove", id |-> i, form |-> None, step |-> "cache"]
  /\ UNCHANGED <<caches, readerVars, history>>

RemoveCache ==
  /\ WriterAt("remove", "cache") /\ Advance("tree")
  /\ formCache' = [formCache EXCEPT ![writer.id] = None]
  /\ Overtake(BaseOf(writer.id), LAMBDA t : pc[t] = "emplace")
  /\ UNCHANGED <<native, treeCache, readerVars, tainted>>

RemoveTree ==
  /\ WriterAt("remove", "tree")
  /\ ForgetTree(BaseOf(writer.id))
  /\ Overtake(BaseOf(writer.id), LAMBDA t : goal[t] = "scan")
  /\ writer' = NoWrite
  /\ UNCHANGED <<native, formCache, readerVars, tainted>>

\* TESDataHandler_ClearData and TESForm_InitializeFormDataStructures.
Clear ==
  /\ writer = NoWrite
  /\ formCache' = [i \in Id |-> None]
  /\ raced' = raced \cup {t \in Reader : pc[t] # "idle"}
  /\ writer' = [op |-> "clear", id |-> AnyId, form |-> None, step |-> "tree"]
  /\ UNCHANGED <<native, treeCache, readerVars, tainted>>

ClearTree ==
  /\ WriterAt("clear", "tree") /\ Advance("native")
  /\ treeCache' = [b \in Base |-> Absent]
  /\ raced' = raced \cup {t \in Reader : pc[t] # "idle"}
  /\ UNCHANGED <<native, formCache, readerVars, tainted>>

ClearNative ==
  /\ WriterAt("clear", "native")
  /\ native' = [i \in Id |-> None]
  /\ raced' = raced \cup {t \in Reader : pc[t] # "idle"}
  /\ writer' = NoWrite
  /\ UNCHANGED <<caches, readerVars, tainted>>

Registration ==
  \/ SetTree \/ SetNative \/ RemoveCache \/ RemoveTree
  \/ \E i \in Id : RemoveAt(i) \/ \E f \in Form : SetAt(i, f)

Reading ==
  \/ \E t \in Reader : ReaderStep(t)
  \/ \E t \in Reader, i \in Id : Lookup(t, i)
  \/ \E t \in Reader, b \in Base : Scan(t, b)

Next == Reading \/ Registration \/ Clear \/ ClearTree \/ ClearNative

Spec == Init /\ [][Next]_vars

\* The game between two resets: forms come and go, nothing is cleared.
SpecWithoutClear == Init /\ [][Reading \/ Registration]_vars
-----------------------------------------------------------------------------
(* Properties.                                                             *)

\* What the engine would find: the first tree in load order under b.
FirstTree(b) ==
  LET mods == {m \in Mod : native[<<m, b>>] \in Tree}
  IN  IF mods = {} THEN None
      ELSE native[<<CHOOSE m \in mods : \A n \in mods : m <= n, b>>]

\* GetFormByNumericId/OnFormSet: the cache never hides a form that is
\* registered.  A fill that comes late can put back a form that was removed,
\* but not in front of one that has been set since.
NeverShadowsRegisteredForm ==
  writer = NoWrite => \A i \in Id : native[i] # None => formCache[i] \in {None, native[i]}

\* OnFormSet/OnFormRemoved/ClearData: as long as no fill was overtaken by a
\* write, both caches agree with the table, the tree cache also about "there
\* is no tree", although SetAt invalidates before the table changes and
\* RemoveAt after.
CoherentUnlessOvertaken ==
  writer = NoWrite => \A b \in Base \ tainted :
    /\ \A m \in Mod : formCache[<<m, b>>] \in {None, native[<<m, b>>]}
    /\ treeCache[b] \in {Absent, FirstTree(b)}

\* "calls RemoveAt, handled by that hook": a form that RemoveAt has taken out
\* of the table is no longer found in the cache.
RemovedFormIsForgotten ==
  writer = NoWrite => \A i \in Id : native[i] = None => formCache[i] = None
=============================================================================
