--------------------------- MODULE FormCacheProofs ---------------------------
(***************************************************************************)
(* FormCache for any number of readers, mods, base ids and forms.          *)
(***************************************************************************)
EXTENDS FormCache, Integers, TLAPS

FormCacheTypeOK ==
  /\ native \in [Id -> Form \cup {None}]
  /\ formCache \in [Id -> Form \cup {None}]
  /\ pc \in [Reader -> {"idle", "find", "native", "emplace", "store"}]
  /\ id \in [Reader -> Id]
  /\ got \in [Reader -> Form \cup {None}]
  /\ writer \in [op : {"none", "set", "remove", "clear"}, id : Id, form : Form \cup {None},
                 step : {"none", "tree", "native", "cache"}]

\* SetAt writes the cache before the table, RemoveAt the table before the cache.
WriterAhead ==
  /\ writer.op = "set" => writer.form \in Form /\ formCache[writer.id] = writer.form
  /\ writer.op = "remove" => native[writer.id] = None

\* Outside a clear and a set in progress no entry hides a registered form ...
NoShadow ==
  \A i \in Id :
    writer.op # "clear" /\ native[i] # None /\ ~(writer.op = "set" /\ writer.id = i) =>
      formCache[i] \in {None, native[i]}

\* ... and a reader that holds a form which is no longer the registered one will find an
\* entry when it comes to fill, so that emplace keeps it.
StaleFillIsKeptOut ==
  \A t \in Reader : pc[t] = "emplace" =>
    /\ got[t] \in Form
    /\ writer.op # "clear" /\ native[id[t]] \notin {None, got[t]} => formCache[id[t]] # None

FormCacheIInv == FormCacheTypeOK /\ WriterAhead /\ NoShadow /\ StaleFillIsKeptOut

LEMMA AnyIdIsId == AnyId \in Id
<1>1. 0 \in Mod
  BY FormCacheAssumption DEF Mod
<1>2. \E b \in Base : TRUE
  BY FormCacheAssumption
<1>3. PICK b \in Base : TRUE
  BY <1>2
<1>4. <<0, b>> \in Id
  BY <1>1 DEF Id
<1> QED BY <1>4 DEF AnyId

LEMMA FormCacheInit == Init => FormCacheIInv
<1> SUFFICES ASSUME Init PROVE FormCacheIInv
  OBVIOUS
<1>1. NoWrite.op = "none" /\ NoWrite.id = AnyId /\ NoWrite.form = None /\ NoWrite.step = "none"
      /\ NoWrite \in [op : {"none", "set", "remove", "clear"}, id : Id, form : Form \cup {None},
                      step : {"none", "tree", "native", "cache"}]
  BY AnyIdIsId DEF NoWrite
<1>2. FormCacheTypeOK
  BY <1>1, AnyIdIsId DEF Init, FormCacheTypeOK
<1> QED BY <1>1, <1>2 DEF Init, FormCacheIInv, WriterAhead, NoShadow, StaleFillIsKeptOut
-----------------------------------------------------------------------------
(* Readers.                                                                *)

\* The other readers stay where they are.
OthersStay(t) ==
  \A u \in Reader \ {t} : pc'[u] = pc[u] /\ id'[u] = id[u] /\ got'[u] = got[u]

LEMMA GotoMoves ==
  ASSUME FormCacheTypeOK, NEW t \in Reader, NEW g, NEW i \in Id, NEW f \in Form \cup {None},
         NEW p \in {"idle", "find", "native", "emplace", "store"}, Goto(t, p, g, i, f)
  PROVE  /\ pc' \in [Reader -> {"idle", "find", "native", "emplace", "store"}]
         /\ id' \in [Reader -> Id] /\ got' \in [Reader -> Form \cup {None}]
         /\ pc'[t] = p /\ id'[t] = i /\ got'[t] = f /\ OthersStay(t)
  BY DEF Goto, FormCacheTypeOK, OthersStay

LEMMA FoundMoves ==
  ASSUME FormCacheTypeOK, NEW t \in Reader, NEW f \in Form \cup {None}, Found(t, f)
  PROVE  /\ pc' \in [Reader -> {"idle", "find", "native", "emplace", "store"}]
         /\ id' \in [Reader -> Id] /\ got' \in [Reader -> Form \cup {None}]
         /\ pc'[t] # "emplace" /\ OthersStay(t)
<1>1. id[t] \in Id /\ BaseOf(id[t]) \in Base
  BY DEF FormCacheTypeOK, Id, BaseOf
<1>2. CASE Idle(t)
  BY <1>2, AnyIdIsId, GotoMoves DEF Idle
<1>3. CASE Goto(t, "store", "scan", id[t], f)
  BY <1>1, <1>3, GotoMoves
<1>4. CASE Goto(t, "store", "scan", id[t], None)
  BY <1>1, <1>4, GotoMoves
<1>5. CASE /\ ModOf(id[t]) + 1 \in Mod
           /\ Goto(t, "find", "scan", <<ModOf(id[t]) + 1, BaseOf(id[t])>>, None)
  <2>1. <<ModOf(id[t]) + 1, BaseOf(id[t])>> \in Id
    BY <1>1, <1>5 DEF Id
  <2> QED BY <1>5, <2>1, GotoMoves
<1> QED BY <1>2, <1>3, <1>4, <1>5 DEF Found

\* A reader that changes nothing else keeps the invariant if what it is going to fill in
\* is what the table has.
LEMMA ReaderMoves ==
  ASSUME FormCacheIInv, NEW t \in Reader,
         pc' \in [Reader -> {"idle", "find", "native", "emplace", "store"}],
         id' \in [Reader -> Id], got' \in [Reader -> Form \cup {None}], OthersStay(t),
         pc'[t] = "emplace" => native[id'[t]] = got'[t] /\ got'[t] \in Form,
         UNCHANGED <<native, formCache, writer>>
  PROVE  FormCacheIInv'
<1>1. FormCacheTypeOK'
  BY DEF FormCacheIInv, FormCacheTypeOK
<1>2. WriterAhead' /\ NoShadow'
  BY DEF FormCacheIInv, WriterAhead, NoShadow
<1>3. StaleFillIsKeptOut'
  BY DEF FormCacheIInv, StaleFillIsKeptOut, OthersStay
<1> QED BY <1>1, <1>2, <1>3 DEF FormCacheIInv

LEMMA FindInv ==
  ASSUME FormCacheIInv, NEW t \in Reader, Find(t)
  PROVE  FormCacheIInv'
<1>1. id[t] \in Id /\ formCache[id[t]] \in Form \cup {None} /\ FormCacheTypeOK
  BY DEF FormCacheIInv, FormCacheTypeOK
<1>2. UNCHANGED <<native, formCache, writer>>
  BY DEF Find, caches
<1>3. CASE formCache[id[t]] # None
  <2>1. Found(t, formCache[id[t]])
    BY <1>3 DEF Find
  <2> QED BY <1>1, <1>2, <2>1, FoundMoves, ReaderMoves
<1>4. CASE formCache[id[t]] = None
  <2>1. Goto(t, "native", goal[t], id[t], None)
    BY <1>4 DEF Find
  <2>2. /\ pc' \in [Reader -> {"idle", "find", "native", "emplace", "store"}]
        /\ id' \in [Reader -> Id] /\ got' \in [Reader -> Form \cup {None}]
        /\ pc'[t] = "native" /\ OthersStay(t)
    BY <1>1, <2>1, GotoMoves
  <2> QED BY <1>2, <2>2, ReaderMoves
<1> QED BY <1>3, <1>4

LEMMA LookupByIDInv ==
  ASSUME FormCacheIInv, NEW t \in Reader, LookupByID(t)
  PROVE  FormCacheIInv'
<1>1. id[t] \in Id /\ native[id[t]] \in Form \cup {None} /\ FormCacheTypeOK
  BY DEF FormCacheIInv, FormCacheTypeOK
<1>2. UNCHANGED <<native, formCache, writer>>
  BY DEF LookupByID, caches
<1>3. CASE native[id[t]] # None
  <2>4. PICK i \in Id, f \in Form \cup {None}, g \in {goal[t]} : id[t] = i /\ native[id[t]] = f /\ goal[t] = g
    BY <1>1
  <2>1. Goto(t, "emplace", g, i, f)
    BY <1>3, <2>4 DEF LookupByID
  <2>2. /\ pc' \in [Reader -> {"idle", "find", "native", "emplace", "store"}]
        /\ id' \in [Reader -> Id] /\ got' \in [Reader -> Form \cup {None}]
        /\ pc'[t] = "emplace" /\ id'[t] = i /\ got'[t] = f /\ OthersStay(t)
    BY ONLY <1>1, <2>1, GotoMoves
  <2>3. native[id'[t]] = got'[t] /\ got'[t] \in Form
    BY <1>1, <1>3, <2>2, <2>4
  <2> QED BY <1>2, <2>2, <2>3, ReaderMoves
<1>4. CASE native[id[t]] = None
  <2>1. Found(t, None)
    BY <1>4 DEF LookupByID
  <2> QED BY <1>1, <1>2, <2>1, FoundMoves, ReaderMoves
<1> QED BY <1>3, <1>4

LEMMA EmplaceInv ==
  ASSUME FormCacheIInv, NEW t \in Reader, Emplace(t)
  PROVE  FormCacheIInv'
<1> PICK i \in Id, f \in Form : id[t] = i /\ got[t] = f
  BY DEF FormCacheIInv, FormCacheTypeOK, StaleFillIsKeptOut, Emplace
<1>1. /\ formCache' = [formCache EXCEPT ![i] = IF @ = None THEN f ELSE @]
      /\ Found(t, f) /\ UNCHANGED <<native, writer>> /\ pc[t] = "emplace"
  BY DEF Emplace, Fill
<1>2. /\ pc' \in [Reader -> {"idle", "find", "native", "emplace", "store"}]
      /\ id' \in [Reader -> Id] /\ got' \in [Reader -> Form \cup {None}]
      /\ pc'[t] # "emplace" /\ OthersStay(t)
  BY <1>1, FoundMoves DEF FormCacheIInv
<1>3. /\ \A j \in Id : j # i => formCache'[j] = formCache[j]
      /\ formCache'[i] = IF formCache[i] = None THEN f ELSE formCache[i]
      /\ formCache' \in [Id -> Form \cup {None}]
  BY <1>1 DEF FormCacheIInv, FormCacheTypeOK
<1>4. f # None
  BY FormCacheAssumption
<1>5. FormCacheTypeOK'
  BY <1>1, <1>2, <1>3 DEF FormCacheIInv, FormCacheTypeOK
<1>6. WriterAhead'
  <2>1. writer.id \in Id
    BY DEF FormCacheIInv, FormCacheTypeOK
  <2> QED BY <1>1, <1>3, <1>4, <2>1, FormCacheAssumption DEF FormCacheIInv, WriterAhead
<1>7. NoShadow'
  <2> SUFFICES ASSUME NEW j \in Id, writer.op # "clear", native[j] # None,
                      ~(writer.op = "set" /\ writer.id = j)
               PROVE  formCache'[j] \in {None, native[j]}
    BY <1>1 DEF NoShadow
  <2>1. formCache[j] \in {None, native[j]}
    BY DEF FormCacheIInv, NoShadow
  <2>2. j = i /\ formCache[i] = None => native[i] = f
    BY <1>1 DEF FormCacheIInv, StaleFillIsKeptOut
  <2> QED BY <1>3, <2>1, <2>2
<1>8. StaleFillIsKeptOut'
  <2>1. \A j \in Id : formCache[j] # None => formCache'[j] # None
    BY <1>3, <1>4
  <2> QED BY <1>1, <1>2, <2>1 DEF FormCacheIInv, FormCacheTypeOK, StaleFillIsKeptOut, OthersStay
<1> QED BY <1>5, <1>6, <1>7, <1>8 DEF FormCacheIInv

LEMMA LookupInv ==
  ASSUME FormCacheIInv, NEW t \in Reader, NEW i \in Id, Lookup(t, i)
  PROVE  FormCacheIInv'
<1>1. Goto(t, "find", "lookup", i, None) /\ UNCHANGED <<native, formCache, writer>> /\ FormCacheTypeOK
  BY DEF Lookup, caches, FormCacheIInv
<1>2. /\ pc' \in [Reader -> {"idle", "find", "native", "emplace", "store"}]
      /\ id' \in [Reader -> Id] /\ got' \in [Reader -> Form \cup {None}]
      /\ pc'[t] = "find" /\ OthersStay(t)
  BY <1>1, GotoMoves
<1> QED BY <1>1, <1>2, ReaderMoves

LEMMA ScanInv ==
  ASSUME FormCacheIInv, NEW t \in Reader, NEW b \in Base, Scan(t, b)
  PROVE  FormCacheIInv'
<1>1. <<0, b>> \in Id
  BY FormCacheAssumption DEF Id, Mod
<1>2. Goto(t, "find", "scan", <<0, b>>, None) /\ UNCHANGED <<native, formCache, writer>> /\ FormCacheTypeOK
  BY DEF Scan, caches, FormCacheIInv
<1>3. /\ pc' \in [Reader -> {"idle", "find", "native", "emplace", "store"}]
      /\ id' \in [Reader -> Id] /\ got' \in [Reader -> Form \cup {None}]
      /\ pc'[t] = "find" /\ OthersStay(t)
  BY <1>1, <1>2, GotoMoves
<1> QED BY <1>2, <1>3, ReaderMoves

LEMMA StoreInv ==
  ASSUME FormCacheIInv, NEW t \in Reader, Store(t)
  PROVE  FormCacheIInv'
<1>1. Goto(t, "idle", "lookup", AnyId, None) /\ UNCHANGED <<native, formCache, writer>> /\ FormCacheTypeOK
  BY DEF Store, Idle, FormCacheIInv
<1>2. /\ pc' \in [Reader -> {"idle", "find", "native", "emplace", "store"}]
      /\ id' \in [Reader -> Id] /\ got' \in [Reader -> Form \cup {None}]
      /\ pc'[t] = "idle" /\ OthersStay(t)
  BY <1>1, AnyIdIsId, GotoMoves
<1> QED BY <1>1, <1>2, ReaderMoves
-----------------------------------------------------------------------------
(* Writers.                                                                *)

\* A write that leaves the readers where they are and the tables typed.
LEMMA WriteKeepsTypes ==
  ASSUME FormCacheTypeOK, UNCHANGED readerVars,
         native' \in [Id -> Form \cup {None}], formCache' \in [Id -> Form \cup {None}],
         NEW op \in {"none", "set", "remove", "clear"}, NEW i \in Id,
         NEW f \in Form \cup {None}, NEW step \in {"none", "tree", "native", "cache"},
         writer' = [op |-> op, id |-> i, form |-> f, step |-> step]
  PROVE  /\ FormCacheTypeOK'
         /\ writer'.op = op /\ writer'.id = i /\ writer'.form = f
  BY DEF FormCacheTypeOK, readerVars

LEMMA NoWriteIsNone == NoWrite.op = "none" /\ NoWrite = [op |-> "none", id |-> AnyId, form |-> None, step |-> "none"]
  BY DEF NoWrite

\* A step of the writer in progress to its next step.
LEMMA AdvanceKeeps ==
  ASSUME FormCacheTypeOK, UNCHANGED readerVars, NEW step \in {"none", "tree", "native", "cache"},
         native' \in [Id -> Form \cup {None}], formCache' \in [Id -> Form \cup {None}],
         Advance(step)
  PROVE  /\ FormCacheTypeOK'
         /\ writer'.op = writer.op /\ writer'.id = writer.id /\ writer'.form = writer.form
  BY DEF FormCacheTypeOK, readerVars, Advance

LEMMA SetAtInv ==
  ASSUME FormCacheIInv, NEW i \in Id, NEW f \in Form, SetAt(i, f)
  PROVE  FormCacheIInv'
<1>1. /\ writer.op = "none" /\ formCache' = [formCache EXCEPT ![i] = f]
      /\ writer' = [op |-> "set", id |-> i, form |-> f, step |-> "tree"]
      /\ UNCHANGED <<native, readerVars>>
  BY NoWriteIsNone DEF SetAt, CacheSet
<1>2. /\ formCache' \in [Id -> Form \cup {None}] /\ formCache'[i] = f
      /\ \A j \in Id : j # i => formCache'[j] = formCache[j]
  BY <1>1 DEF FormCacheIInv, FormCacheTypeOK
<1>3. FormCacheTypeOK' /\ writer'.op = "set" /\ writer'.id = i /\ writer'.form = f
  BY <1>1, <1>2 DEF FormCacheIInv, FormCacheTypeOK, readerVars
<1>4. WriterAhead'
  BY <1>2, <1>3 DEF WriterAhead
<1>5. NoShadow'
  BY <1>1, <1>2, <1>3 DEF FormCacheIInv, NoShadow
<1>6. StaleFillIsKeptOut'
  BY <1>1, <1>2, FormCacheAssumption DEF FormCacheIInv, FormCacheTypeOK, StaleFillIsKeptOut, readerVars
<1> QED BY <1>3, <1>4, <1>5, <1>6 DEF FormCacheIInv

LEMMA SetTreeInv ==
  ASSUME FormCacheIInv, SetTree
  PROVE  FormCacheIInv'
<1>1. UNCHANGED <<native, formCache, readerVars>> /\ Advance("native")
  BY DEF SetTree
<1>2. FormCacheTypeOK' /\ writer'.op = writer.op /\ writer'.id = writer.id /\ writer'.form = writer.form
  BY <1>1, AdvanceKeeps DEF FormCacheIInv, FormCacheTypeOK
<1> QED BY <1>1, <1>2 DEF FormCacheIInv, WriterAhead, NoShadow, StaleFillIsKeptOut, readerVars

LEMMA SetNativeInv ==
  ASSUME FormCacheIInv, SetNative
  PROVE  FormCacheIInv'
<1> PICK i \in Id, f \in Form : writer.id = i /\ writer.form = f /\ formCache[i] = f
  BY DEF FormCacheIInv, FormCacheTypeOK, WriterAhead, SetNative, WriterAt
<1>1. /\ native' = [native EXCEPT ![i] = f] /\ writer' = NoWrite /\ writer.op = "set"
      /\ UNCHANGED <<formCache, readerVars>>
  BY DEF SetNative, WriterAt, caches
<1>2. /\ native' \in [Id -> Form \cup {None}] /\ native'[i] = f
      /\ \A j \in Id : j # i => native'[j] = native[j]
  BY <1>1 DEF FormCacheIInv, FormCacheTypeOK
<1>3. FormCacheTypeOK' /\ writer'.op = "none"
  BY <1>1, <1>2, NoWriteIsNone, AnyIdIsId DEF FormCacheIInv, FormCacheTypeOK, readerVars
<1>4. NoShadow'
  BY <1>1, <1>2, <1>3 DEF FormCacheIInv, NoShadow
<1>5. StaleFillIsKeptOut'
  <2>1. formCache[i] # None
    BY FormCacheAssumption
  <2> QED BY <1>1, <1>2, <1>3, <2>1 DEF FormCacheIInv, FormCacheTypeOK, StaleFillIsKeptOut, readerVars
<1> QED BY <1>3, <1>4, <1>5 DEF FormCacheIInv, WriterAhead

LEMMA RemoveAtInv ==
  ASSUME FormCacheIInv, NEW i \in Id, RemoveAt(i)
  PROVE  FormCacheIInv'
<1>1. /\ native' = [native EXCEPT ![i] = None] /\ writer.op = "none"
      /\ writer' = [op |-> "remove", id |-> i, form |-> None, step |-> "cache"]
      /\ UNCHANGED <<formCache, readerVars>>
  BY NoWriteIsNone DEF RemoveAt, caches
<1>2. /\ native' \in [Id -> Form \cup {None}] /\ native'[i] = None
      /\ \A j \in Id : j # i => native'[j] = native[j]
  BY <1>1 DEF FormCacheIInv, FormCacheTypeOK
<1>3. FormCacheTypeOK' /\ writer'.op = "remove" /\ writer'.id = i
  BY <1>1, <1>2 DEF FormCacheIInv, FormCacheTypeOK, readerVars
<1>4. NoShadow'
  BY <1>1, <1>2, <1>3 DEF FormCacheIInv, NoShadow
<1>5. StaleFillIsKeptOut'
  BY <1>1, <1>2, <1>3 DEF FormCacheIInv, FormCacheTypeOK, StaleFillIsKeptOut, readerVars
<1> QED BY <1>2, <1>3, <1>4, <1>5 DEF FormCacheIInv, WriterAhead

LEMMA RemoveCacheInv ==
  ASSUME FormCacheIInv, RemoveCache
  PROVE  FormCacheIInv'
<1> PICK i \in Id : writer.id = i /\ native[i] = None
  BY DEF FormCacheIInv, FormCacheTypeOK, WriterAhead, RemoveCache, WriterAt
<1>1. /\ formCache' = [formCache EXCEPT ![i] = None] /\ writer.op = "remove" /\ Advance("tree")
      /\ UNCHANGED <<native, readerVars>>
  BY DEF RemoveCache, WriterAt
<1>2. /\ formCache' \in [Id -> Form \cup {None}]
      /\ \A j \in Id : j # i => formCache'[j] = formCache[j]
  BY <1>1 DEF FormCacheIInv, FormCacheTypeOK
<1>3. FormCacheTypeOK' /\ writer'.op = writer.op /\ writer'.id = writer.id /\ writer'.form = writer.form
  BY <1>1, <1>2, AdvanceKeeps DEF FormCacheIInv, FormCacheTypeOK
<1>4. WriterAhead' /\ NoShadow'
  BY <1>1, <1>2, <1>3 DEF FormCacheIInv, WriterAhead, NoShadow
<1>5. StaleFillIsKeptOut'
  BY <1>1, <1>2, <1>3 DEF FormCacheIInv, FormCacheTypeOK, StaleFillIsKeptOut, readerVars
<1> QED BY <1>3, <1>4, <1>5 DEF FormCacheIInv

LEMMA RemoveTreeInv ==
  ASSUME FormCacheIInv, RemoveTree
  PROVE  FormCacheIInv'
<1>1. UNCHANGED <<native, formCache, readerVars>> /\ writer' = NoWrite /\ writer.op = "remove"
  BY DEF RemoveTree, WriterAt
<1>2. FormCacheTypeOK' /\ writer'.op = "none"
  BY <1>1, NoWriteIsNone, AnyIdIsId DEF FormCacheIInv, FormCacheTypeOK, readerVars
<1> QED BY <1>1, <1>2 DEF FormCacheIInv, WriterAhead, NoShadow, StaleFillIsKeptOut, readerVars

\* From Clear on nothing is asked of the cache until the table is empty too.
LEMMA ClearInv ==
  ASSUME FormCacheIInv, Clear \/ ClearTree
  PROVE  FormCacheIInv'
<1>1. UNCHANGED <<native, readerVars>> /\ formCache' \in [Id -> Form \cup {None}]
  BY DEF Clear, ClearTree, FormCacheIInv, FormCacheTypeOK
<1>2. FormCacheTypeOK' /\ writer'.op = "clear"
  <2>1. CASE Clear
    BY <1>1, <2>1, AnyIdIsId, WriteKeepsTypes DEF Clear, FormCacheIInv, FormCacheTypeOK, readerVars
  <2>2. CASE ClearTree
    BY <1>1, <2>2, AdvanceKeeps DEF ClearTree, WriterAt, FormCacheIInv, FormCacheTypeOK
  <2> QED BY <2>1, <2>2
<1> QED BY <1>1, <1>2 DEF FormCacheIInv, WriterAhead, NoShadow, StaleFillIsKeptOut, readerVars

LEMMA ClearNativeInv ==
  ASSUME FormCacheIInv, ClearNative
  PROVE  FormCacheIInv'
<1>1. /\ native' = [i \in Id |-> None] /\ writer' = NoWrite
      /\ UNCHANGED <<formCache, readerVars>>
  BY DEF ClearNative, caches
<1>2. FormCacheTypeOK' /\ writer'.op = "none"
  BY <1>1, NoWriteIsNone, AnyIdIsId DEF FormCacheIInv, FormCacheTypeOK, readerVars
<1> QED BY <1>1, <1>2 DEF FormCacheIInv, FormCacheTypeOK, WriterAhead, NoShadow, StaleFillIsKeptOut, readerVars

LEMMA FormCacheNext == FormCacheIInv /\ [Next]_vars => FormCacheIInv'
<1> SUFFICES ASSUME FormCacheIInv, [Next]_vars PROVE FormCacheIInv'
  OBVIOUS
<1>1. CASE Reading
  BY <1>1, FindInv, LookupByIDInv, EmplaceInv, StoreInv, LookupInv, ScanInv DEF Reading, ReaderStep
<1>2. CASE Registration
  BY <1>2, SetTreeInv, SetNativeInv, RemoveCacheInv, RemoveTreeInv, RemoveAtInv, SetAtInv DEF Registration
<1>3. CASE UNCHANGED vars
  BY <1>3 DEF vars, FormCacheIInv, FormCacheTypeOK, WriterAhead, NoShadow, StaleFillIsKeptOut
<1> QED BY <1>1, <1>2, <1>3, ClearInv, ClearNativeInv DEF Next

\* GetFormByNumericId, OnFormSet, OnFormRemoved and the clears: for any number of readers,
\* mods and forms the cache never hides a form that is registered.
THEOREM FormCacheNeverShadows == Spec => []NeverShadowsRegisteredForm
<1>1. FormCacheIInv => NeverShadowsRegisteredForm
  BY NoWriteIsNone DEF FormCacheIInv, NoShadow, NeverShadowsRegisteredForm
<1> QED BY FormCacheInit, FormCacheNext, <1>1, PTL DEF Spec
-----------------------------------------------------------------------------
(* Coherence.  A write in progress counts as done for a set, whose form the *)
(* cache already has, and suspends what is said of its base id until the    *)
(* step that invalidates the tree cache and overtakes the scans.            *)

Effective(i) == IF writer.op = "set" /\ writer.id = i THEN writer.form ELSE native[i]

Suspended(b) ==
  \/ writer.op = "clear"
  \/ writer.op = "remove" /\ BaseOf(writer.id) = b
  \/ writer.op = "set" /\ writer.step = "tree" /\ BaseOf(writer.id) = b

BeingRemoved(i) == writer.op = "remove" /\ writer.step = "cache" /\ writer.id = i

IsFirstTree(f, b) ==
  \/ f = None /\ \A m \in Mod : Effective(<<m, b>>) \notin Tree
  \/ \E m \in Mod :
       /\ f = Effective(<<m, b>>) /\ f \in Tree
       /\ \A n \in Mod : n < m => Effective(<<n, b>>) \notin Tree

CoherenceTypeOK ==
  /\ goal \in [Reader -> {"lookup", "scan"}]
  /\ treeCache \in [Base -> Form \cup {None, Absent}]
  /\ raced \subseteq Reader /\ tainted \subseteq Base
  /\ writer.op = "set" => writer.step \in {"tree", "native"}
  /\ writer.op = "remove" => writer.step \in {"cache", "tree"}
  /\ \A t \in Reader : pc[t] = "store" => goal[t] = "scan"

CacheCoherent ==
  \A i \in Id : BaseOf(i) \notin tainted /\ writer.op # "clear" /\ ~BeingRemoved(i) =>
    formCache[i] \in {None, Effective(i)}

FillCoherent ==
  \A t \in Reader \ raced :
    pc[t] = "emplace" /\ BaseOf(id[t]) \notin tainted /\ writer.op # "clear" /\ ~BeingRemoved(id[t]) =>
      got[t] = Effective(id[t]) \/ formCache[id[t]] # None

\* Where a scan is, it has passed no tree.
ScanIsRight(t) ==
  /\ \A m \in Mod : m < ModOf(id[t]) => Effective(<<m, BaseOf(id[t])>>) \notin Tree
  /\ pc[t] = "store" => IsFirstTree(got[t], BaseOf(id[t]))
  /\ pc[t] = "emplace" => got[t] = Effective(id[t])

ScansCoherent ==
  \A t \in Reader \ raced :
    /\ pc[t] # "idle" /\ goal[t] = "scan"
    /\ BaseOf(id[t]) \notin tainted /\ ~Suspended(BaseOf(id[t]))
    => ScanIsRight(t)

TreeCoherent ==
  \A b \in Base \ tainted :
    ~Suspended(b) => treeCache[b] = Absent \/ IsFirstTree(treeCache[b], b)

\* While the caches are cleared, an untainted base id has nothing in them to come back.
ClearCoherent ==
  writer.op = "clear" =>
    /\ \A i \in Id : BaseOf(i) \notin tainted => formCache[i] = None
    /\ \A t \in Reader \ raced : BaseOf(id[t]) \notin tainted => pc[t] \in {"idle", "find", "native"}
    /\ writer.step = "native" => \A b \in Base \ tainted : treeCache[b] = Absent

CoherentIInv ==
  /\ FormCacheIInv /\ CoherenceTypeOK
  /\ CacheCoherent /\ FillCoherent /\ ScansCoherent /\ TreeCoherent /\ ClearCoherent

LEMMA IdParts ==
  /\ \A i \in Id : ModOf(i) \in Mod /\ BaseOf(i) \in Base /\ i = <<ModOf(i), BaseOf(i)>>
  /\ \A m \in Mod, b \in Base : <<m, b>> \in Id /\ ModOf(<<m, b>>) = m /\ BaseOf(<<m, b>>) = b
  BY DEF Id, ModOf, BaseOf

LEMMA CoherentInit == Init => CoherentIInv
<1> SUFFICES ASSUME Init PROVE CoherentIInv
  OBVIOUS
<1>1. /\ writer.op = "none" /\ \A t \in Reader : pc[t] = "idle"
      /\ \A i \in Id : formCache[i] = None
      /\ \A b \in Base : treeCache[b] = Absent
  BY NoWriteIsNone DEF Init
<1>2. CoherenceTypeOK
  <2>1. goal \in [Reader -> {"lookup", "scan"}] /\ treeCache \in [Base -> Form \cup {None, Absent}]
    BY DEF Init
  <2>2. raced \subseteq Reader /\ tainted \subseteq Base
    BY DEF Init
  <2> QED BY <1>1, <2>1, <2>2 DEF CoherenceTypeOK
<1>3. CacheCoherent /\ TreeCoherent /\ ClearCoherent
  BY <1>1 DEF CacheCoherent, TreeCoherent, ClearCoherent
<1>4. FillCoherent /\ ScansCoherent
  BY <1>1 DEF FillCoherent, ScansCoherent
<1> QED BY <1>2, <1>3, <1>4, FormCacheInit DEF CoherentIInv

\* A step of one reader that leaves the caches alone.
LEMMA ReaderKeepsCoherence ==
  ASSUME CoherentIInv, FormCacheIInv', NEW t \in Reader, OthersStay(t),
         UNCHANGED <<native, formCache, treeCache, writer, tainted>>,
         goal' \in [Reader -> {"lookup", "scan"}], \A u \in Reader \ {t} : goal'[u] = goal[u],
         raced' \subseteq Reader, \A u \in Reader \ {t} : u \in raced' <=> u \in raced,
         pc'[t] = "store" => goal'[t] = "scan",
         t \notin raced' /\ BaseOf(id'[t]) \notin tainted =>
           /\ writer.op = "clear" => pc'[t] \in {"idle", "find", "native"}
           /\ pc'[t] = "emplace" /\ writer.op # "clear" => got'[t] = Effective(id'[t])
           /\ pc'[t] # "idle" /\ goal'[t] = "scan" /\ ~Suspended(BaseOf(id'[t])) => ScanIsRight(t)'
  PROVE  CoherentIInv'
<1>1. \A i : Effective(i)' = Effective(i) /\ (BeingRemoved(i)' <=> BeingRemoved(i))
  BY DEF Effective, BeingRemoved
<1>2. \A b : Suspended(b)' <=> Suspended(b)
  BY DEF Suspended
<1>3. CoherenceTypeOK'
  BY DEF CoherentIInv, CoherenceTypeOK, OthersStay
<1>4. CacheCoherent'
  BY <1>1 DEF CoherentIInv, CacheCoherent
<1>5. FillCoherent'
  BY <1>1 DEF CoherentIInv, FillCoherent, OthersStay
<1>6. \A f, b : IsFirstTree(f, b)' <=> IsFirstTree(f, b)
  BY <1>1 DEF IsFirstTree
<1>7. ScansCoherent'
  <2>1. \A u \in Reader \ {t} : ScanIsRight(u) => ScanIsRight(u)'
    BY <1>1, <1>6 DEF ScanIsRight, OthersStay
  <2> QED BY <1>2, <2>1 DEF CoherentIInv, ScansCoherent, OthersStay
<1>8. TreeCoherent'
  BY <1>2, <1>6 DEF CoherentIInv, TreeCoherent
<1>9. ClearCoherent'
  BY DEF CoherentIInv, ClearCoherent, OthersStay
<1> QED BY <1>3, <1>4, <1>5, <1>7, <1>8, <1>9 DEF CoherentIInv

LEMMA GotoGoal ==
  ASSUME CoherenceTypeOK, NEW t \in Reader, NEW p, NEW g \in {"lookup", "scan"}, NEW i, NEW f,
         Goto(t, p, g, i, f)
  PROVE  /\ goal' \in [Reader -> {"lookup", "scan"}] /\ goal'[t] = g
         /\ \A u \in Reader \ {t} : goal'[u] = goal[u]
  BY DEF Goto, CoherenceTypeOK

\* A scan that has found what the table effectively has under its id goes on rightly.
LEMMA FoundScans ==
  ASSUME CoherentIInv, NEW t \in Reader, NEW f \in Form \cup {None}, Found(t, f),
         UNCHANGED <<native, writer>>
  PROVE  /\ goal' \in [Reader -> {"lookup", "scan"}] /\ \A u \in Reader \ {t} : goal'[u] = goal[u]
         /\ pc'[t] \in {"idle", "find", "store"}
         /\ pc'[t] # "idle" => goal[t] = "scan" /\ goal'[t] = "scan" /\ BaseOf(id'[t]) = BaseOf(id[t])
         /\ pc'[t] # "idle" /\ f = Effective(id[t]) /\ ScanIsRight(t) => ScanIsRight(t)'
<1>1. FormCacheTypeOK /\ CoherenceTypeOK
  BY DEF CoherentIInv, FormCacheIInv
<1>2. PICK m \in Mod, b \in Base : ModOf(id[t]) = m /\ BaseOf(id[t]) = b /\ id[t] = <<m, b>> /\ id[t] \in Id
  BY <1>1, IdParts DEF FormCacheTypeOK
<1>3. \A j : Effective(j)' = Effective(j)
  BY DEF Effective
<1>4. \A g, c : IsFirstTree(g, c)' <=> IsFirstTree(g, c)
  BY <1>3 DEF IsFirstTree
<1>5. CASE goal[t] = "lookup"
  <2>1. Goto(t, "idle", "lookup", AnyId, None)
    BY <1>5 DEF Found, Idle
  <2>2. pc'[t] = "idle"
    BY <1>1, <2>1, AnyIdIsId, GotoMoves
  <2> QED BY <1>1, <2>1, <2>2, GotoGoal
<1>6. CASE goal[t] = "scan" /\ f \in Tree
  <2>1. Goto(t, "store", "scan", <<m, b>>, f)
    BY <1>2, <1>6 DEF Found
  <2>4. <<m, b>> \in Id
    BY <1>2
  <2>5. pc'[t] = "store" /\ id'[t] = <<m, b>> /\ got'[t] = f
    BY ONLY <1>1, <2>1, <2>4, GotoMoves
  <2>2. /\ pc'[t] = "store" /\ id'[t] = <<m, b>> /\ got'[t] = f
        /\ goal' \in [Reader -> {"lookup", "scan"}] /\ goal'[t] = "scan"
        /\ \A u \in Reader \ {t} : goal'[u] = goal[u]
    BY <1>1, <2>1, <2>5, GotoGoal
  <2>3. ASSUME f = Effective(<<m, b>>), ScanIsRight(t) PROVE ScanIsRight(t)'
    <3>1. IsFirstTree(f, b)
      BY <1>2, <1>6, <2>3 DEF IsFirstTree, ScanIsRight
    <3> QED BY <1>2, <1>3, <1>4, <2>2, <2>3, <3>1 DEF ScanIsRight
  <2> QED BY <1>2, <1>6, <2>2, <2>3
<1>7. CASE goal[t] = "scan" /\ f \notin Tree /\ m + 1 \in Mod
  <2>1. Goto(t, "find", "scan", <<m + 1, b>>, None)
    BY <1>1, <1>2, <1>7 DEF Found
  <2>2. <<m + 1, b>> \in Id /\ ModOf(<<m + 1, b>>) = m + 1 /\ BaseOf(<<m + 1, b>>) = b
    BY <1>7, IdParts
  <2>5. pc'[t] = "find" /\ id'[t] = <<m + 1, b>>
    BY ONLY <1>1, <2>1, <2>2, GotoMoves
  <2>3. /\ pc'[t] = "find" /\ id'[t] = <<m + 1, b>>
        /\ goal' \in [Reader -> {"lookup", "scan"}] /\ goal'[t] = "scan"
        /\ \A u \in Reader \ {t} : goal'[u] = goal[u]
    BY <1>1, <2>1, <2>5, GotoGoal
  <2>4. ASSUME f = Effective(<<m, b>>), ScanIsRight(t) PROVE ScanIsRight(t)'
    <3>1. \A n \in Mod : n < m + 1 => n < m \/ n = m
      BY FormCacheAssumption DEF Mod
    <3>2. \A n \in Mod : n < m + 1 => Effective(<<n, b>>) \notin Tree
      BY <1>2, <1>7, <2>4, <3>1 DEF ScanIsRight
    <3> QED BY <1>3, <2>2, <2>3, <3>2 DEF ScanIsRight
  <2> QED BY <1>2, <1>7, <2>2, <2>3, <2>4
<1>8. CASE goal[t] = "scan" /\ f \notin Tree /\ m + 1 \notin Mod
  <2>1. Goto(t, "store", "scan", <<m, b>>, None)
    BY <1>1, <1>2, <1>8 DEF Found
  <2>4. <<m, b>> \in Id
    BY <1>2
  <2>5. pc'[t] = "store" /\ id'[t] = <<m, b>> /\ got'[t] = None
    BY ONLY <1>1, <2>1, <2>4, GotoMoves
  <2>2. /\ pc'[t] = "store" /\ id'[t] = <<m, b>> /\ got'[t] = None
        /\ goal' \in [Reader -> {"lookup", "scan"}] /\ goal'[t] = "scan"
        /\ \A u \in Reader \ {t} : goal'[u] = goal[u]
    BY <1>1, <2>1, <2>5, GotoGoal
  <2>3. ASSUME f = Effective(<<m, b>>), ScanIsRight(t) PROVE ScanIsRight(t)'
    <3>1. \A n \in Mod : n < m \/ n = m
      BY <1>8, FormCacheAssumption DEF Mod
    <3>2. \A n \in Mod : Effective(<<n, b>>) \notin Tree
      BY <1>2, <1>8, <2>3, <3>1 DEF ScanIsRight
    <3> QED BY <1>2, <1>3, <1>4, <2>2, <2>3, <3>2 DEF ScanIsRight, IsFirstTree
  <2> QED BY <1>2, <1>8, <2>2, <2>3
<1>9. goal[t] \in {"lookup", "scan"}
  BY <1>1 DEF CoherenceTypeOK
<1> QED BY <1>5, <1>6, <1>7, <1>8, <1>9

LEMMA FindCoherent ==
  ASSUME CoherentIInv, NEW t \in Reader, Find(t)
  PROVE  CoherentIInv'
<1>1. FormCacheTypeOK /\ CoherenceTypeOK /\ FormCacheIInv /\ FormCacheIInv'
  BY FindInv DEF CoherentIInv, FormCacheIInv
<1>2. UNCHANGED <<native, formCache, treeCache, writer, tainted, raced>> /\ pc[t] = "find"
  BY DEF Find, caches, history
<1>3. PICK i \in Id, f \in Form \cup {None} : id[t] = i /\ formCache[i] = f
  BY <1>1 DEF FormCacheTypeOK
<1>4. CASE f # None
  <2>1. Found(t, f)
    BY <1>3, <1>4 DEF Find
  <2>2. OthersStay(t)
    BY <1>1, <2>1, FoundMoves
  <2>3. /\ goal' \in [Reader -> {"lookup", "scan"}] /\ \A u \in Reader \ {t} : goal'[u] = goal[u]
        /\ pc'[t] \in {"idle", "find", "store"}
        /\ pc'[t] # "idle" => goal[t] = "scan" /\ goal'[t] = "scan" /\ BaseOf(id'[t]) = BaseOf(i)
        /\ pc'[t] # "idle" /\ f = Effective(i) /\ ScanIsRight(t) => ScanIsRight(t)'
    BY <1>2, <1>3, <2>1, FoundScans
  <2>4. ASSUME t \notin raced, BaseOf(id'[t]) \notin tainted, pc'[t] # "idle"
        PROVE  /\ writer.op # "clear"
               /\ ~Suspended(BaseOf(id'[t])) => ScanIsRight(t)'
    <3>1. BaseOf(i) \notin tainted /\ goal[t] = "scan" /\ pc[t] # "idle"
      BY <1>2, <2>3, <2>4
    <3>2. writer.op # "clear"
      BY <1>3, <1>4, <3>1 DEF CoherentIInv, ClearCoherent
    <3>3. ASSUME ~Suspended(BaseOf(i)) PROVE f = Effective(i) /\ ScanIsRight(t)
      <4>1. ~BeingRemoved(i)
        BY <3>3 DEF Suspended, BeingRemoved
      <4>2. f = Effective(i)
        BY <1>3, <1>4, <3>1, <3>2, <4>1 DEF CoherentIInv, CacheCoherent
      <4> QED BY <1>3, <2>4, <3>1, <3>3, <4>2 DEF CoherentIInv, ScansCoherent
    <3> QED BY <2>3, <2>4, <3>2, <3>3
  <2> QED BY <1>1, <1>2, <2>2, <2>3, <2>4, ReaderKeepsCoherence DEF CoherenceTypeOK
<1>5. CASE f = None
  <2>1. Goto(t, "native", goal[t], i, None)
    BY <1>3, <1>5 DEF Find
  <2>2. PICK g \in {"lookup", "scan"} : goal[t] = g
    BY <1>1 DEF CoherenceTypeOK
  <2>3. Goto(t, "native", g, i, None)
    BY <2>1, <2>2
  <2>4. /\ goal' \in [Reader -> {"lookup", "scan"}] /\ goal'[t] = g
        /\ \A u \in Reader \ {t} : goal'[u] = goal[u]
    BY <1>1, <2>3, GotoGoal
  <2>5. pc'[t] = "native" /\ id'[t] = i /\ OthersStay(t)
    BY ONLY <1>1, <2>3, GotoMoves
  <2>6. ScanIsRight(t) => ScanIsRight(t)'
    BY <1>2, <1>3, <2>5 DEF ScanIsRight, Effective
  <2>7. ASSUME t \notin raced, BaseOf(i) \notin tainted, g = "scan", ~Suspended(BaseOf(i))
        PROVE  ScanIsRight(t)'
    BY <1>2, <1>3, <2>2, <2>6, <2>7 DEF CoherentIInv, ScansCoherent
  <2> QED BY <1>1, <1>2, <2>4, <2>5, <2>7, ReaderKeepsCoherence DEF CoherenceTypeOK
<1> QED BY <1>4, <1>5

LEMMA LookupByIDCoherent ==
  ASSUME CoherentIInv, NEW t \in Reader, LookupByID(t)
  PROVE  CoherentIInv'
<1>1. FormCacheTypeOK /\ CoherenceTypeOK /\ FormCacheIInv /\ FormCacheIInv'
  BY LookupByIDInv DEF CoherentIInv, FormCacheIInv
<1>2. /\ UNCHANGED <<native, formCache, treeCache, writer, tainted>> /\ pc[t] = "native"
      /\ raced' = IF writer.op = "clear" THEN raced \cup {t} ELSE raced
      /\ writer.op \notin {"set", "remove"}
  BY DEF LookupByID, caches
<1>3. PICK i \in Id, f \in Form \cup {None}, g \in {"lookup", "scan"} :
        id[t] = i /\ native[i] = f /\ goal[t] = g
  BY <1>1 DEF FormCacheTypeOK, CoherenceTypeOK
<1>4. f = Effective(i)
  BY <1>2, <1>3 DEF Effective
<1>5. t \notin raced' => t \notin raced /\ writer.op # "clear"
  BY <1>2
<1>6. /\ raced' \subseteq Reader /\ \A u \in Reader \ {t} : u \in raced' <=> u \in raced
  BY <1>1, <1>2 DEF CoherenceTypeOK
<1>7. ASSUME t \notin raced, g = "scan", BaseOf(i) \notin tainted, ~Suspended(BaseOf(i))
      PROVE  ScanIsRight(t)
  BY <1>2, <1>3, <1>7 DEF CoherentIInv, ScansCoherent
<1>8. CASE f # None
  <2>1. Goto(t, "emplace", g, i, f)
    BY <1>3, <1>8 DEF LookupByID
  <2>2. /\ goal' \in [Reader -> {"lookup", "scan"}] /\ goal'[t] = g
        /\ \A u \in Reader \ {t} : goal'[u] = goal[u]
    BY <1>1, <2>1, GotoGoal
  <2>3. pc'[t] = "emplace" /\ id'[t] = i /\ got'[t] = f /\ OthersStay(t)
    BY ONLY <1>1, <2>1, GotoMoves
  <2>4. got'[t] = Effective(id'[t])
    BY <1>4, <2>3
  <2>5. ScanIsRight(t) => ScanIsRight(t)'
    BY <1>2, <1>3, <1>4, <2>3 DEF ScanIsRight, Effective
  <2> QED BY <1>1, <1>2, <1>3, <1>5, <1>6, <1>7, <2>2, <2>3, <2>4, <2>5, ReaderKeepsCoherence
<1>9. CASE f = None
  <2>1. Found(t, f)
    BY <1>3, <1>9 DEF LookupByID
  <2>2. OthersStay(t)
    BY <1>1, <2>1, FoundMoves
  <2>3. /\ goal' \in [Reader -> {"lookup", "scan"}] /\ \A u \in Reader \ {t} : goal'[u] = goal[u]
        /\ pc'[t] \in {"idle", "find", "store"}
        /\ pc'[t] # "idle" => goal[t] = "scan" /\ goal'[t] = "scan" /\ BaseOf(id'[t]) = BaseOf(i)
        /\ pc'[t] # "idle" /\ f = Effective(i) /\ ScanIsRight(t) => ScanIsRight(t)'
    BY <1>2, <1>3, <2>1, FoundScans
  <2>4. ASSUME t \notin raced', BaseOf(id'[t]) \notin tainted, pc'[t] # "idle",
               ~Suspended(BaseOf(id'[t]))
        PROVE  ScanIsRight(t)'
    BY <1>3, <1>4, <1>5, <1>7, <2>3, <2>4
  <2> QED BY <1>1, <1>2, <1>5, <1>6, <2>2, <2>3, <2>4, ReaderKeepsCoherence
<1> QED BY <1>8, <1>9

LEMMA BeginCoherent ==
  ASSUME CoherentIInv, NEW t \in Reader, NEW g \in {"lookup", "scan"}, NEW i \in Id,
         Goto(t, "find", g, i, None), g = "scan" => ModOf(i) = 0,
         UNCHANGED <<native, caches, writer, tainted>>, raced' = raced \ {t}, FormCacheIInv'
  PROVE  CoherentIInv'
<1>1. FormCacheTypeOK /\ CoherenceTypeOK
  BY DEF CoherentIInv, FormCacheIInv
<1>2. pc'[t] = "find" /\ id'[t] = i /\ OthersStay(t)
  BY ONLY <1>1, Goto(t, "find", g, i, None), GotoMoves
<1>3. /\ goal' \in [Reader -> {"lookup", "scan"}] /\ goal'[t] = g
      /\ \A u \in Reader \ {t} : goal'[u] = goal[u]
  BY <1>1, GotoGoal
<1>4. g = "scan" => ScanIsRight(t)'
  BY <1>2, FormCacheAssumption DEF ScanIsRight, Mod
<1>5. /\ raced' \subseteq Reader /\ \A u \in Reader \ {t} : u \in raced' <=> u \in raced
  BY <1>1 DEF CoherenceTypeOK
<1>6. UNCHANGED <<native, formCache, treeCache, writer, tainted>>
  BY DEF caches
<1> QED BY <1>2, <1>3, <1>4, <1>5, <1>6, ReaderKeepsCoherence

LEMMA LookupCoherent ==
  ASSUME CoherentIInv, NEW t \in Reader, NEW i \in Id, Lookup(t, i)
  PROVE  CoherentIInv'
<1>1. FormCacheIInv'
  BY LookupInv DEF CoherentIInv
<1> QED BY <1>1, BeginCoherent DEF Lookup

LEMMA ScanCoherent ==
  ASSUME CoherentIInv, NEW t \in Reader, NEW b \in Base, Scan(t, b)
  PROVE  CoherentIInv'
<1>1. FormCacheIInv'
  BY ScanInv DEF CoherentIInv
<1>4. 0 \in Mod
  BY FormCacheAssumption DEF Mod
<1>2. PICK i \in Id : i = <<0, b>> /\ ModOf(i) = 0
  BY <1>4, IdParts
<1>3. Goto(t, "find", "scan", i, None)
  BY <1>2 DEF Scan
<1> QED BY <1>1, <1>2, <1>3, BeginCoherent DEF Scan

LEMMA EmplaceCoherent ==
  ASSUME CoherentIInv, NEW t \in Reader, Emplace(t)
  PROVE  CoherentIInv'
<1>1. FormCacheTypeOK /\ CoherenceTypeOK /\ FormCacheIInv /\ FormCacheIInv'
  BY EmplaceInv DEF CoherentIInv, FormCacheIInv
<1>2. PICK i \in Id, f \in Form, b \in Base : id[t] = i /\ got[t] = f /\ BaseOf(i) = b
  BY <1>1, IdParts DEF FormCacheTypeOK, FormCacheIInv, StaleFillIsKeptOut, Emplace
<1>3. /\ UNCHANGED <<native, treeCache, writer, raced>> /\ pc[t] = "emplace" /\ Found(t, f)
      /\ formCache' = [formCache EXCEPT ![i] = IF @ = None THEN f ELSE @]
      /\ tainted' = IF t \in raced THEN tainted \cup {b} ELSE tainted
  BY <1>2 DEF Emplace, Fill, Taint
<1>4. OthersStay(t)
  BY <1>1, <1>2, <1>3, FoundMoves
<1>5. /\ goal' \in [Reader -> {"lookup", "scan"}] /\ \A u \in Reader \ {t} : goal'[u] = goal[u]
      /\ pc'[t] \in {"idle", "find", "store"}
      /\ pc'[t] # "idle" => goal[t] = "scan" /\ goal'[t] = "scan" /\ BaseOf(id'[t]) = b
      /\ pc'[t] # "idle" /\ f = Effective(i) /\ ScanIsRight(t) => ScanIsRight(t)'
  BY <1>2, <1>3, FoundScans
<1>6. /\ formCache'[i] = IF formCache[i] = None THEN f ELSE formCache[i]
      /\ \A j \in Id : j # i => formCache'[j] = formCache[j]
  BY <1>1, <1>3 DEF FormCacheTypeOK
<1>7. /\ \A j : Effective(j)' = Effective(j) /\ (BeingRemoved(j)' <=> BeingRemoved(j))
      /\ \A c : Suspended(c)' <=> Suspended(c)
  BY <1>3 DEF Effective, BeingRemoved, Suspended
<1>8. \A g, c : IsFirstTree(g, c)' <=> IsFirstTree(g, c)
  BY <1>7 DEF IsFirstTree
<1>9. tainted \subseteq tainted' /\ (b \notin tainted' => t \notin raced /\ b \notin tainted)
  BY <1>3
<1>10. b \notin tainted' => writer.op # "clear"
  BY <1>2, <1>3, <1>9 DEF CoherentIInv, ClearCoherent
<1>11. b \notin tainted' /\ ~BeingRemoved(i) => f = Effective(i) \/ formCache[i] # None
  BY <1>2, <1>3, <1>9, <1>10 DEF CoherentIInv, FillCoherent
<1>12. CoherenceTypeOK'
  <2>1. raced' \subseteq Reader /\ tainted' \subseteq Base
    BY <1>1, <1>3 DEF CoherenceTypeOK
  <2>2. \A u \in Reader : pc'[u] = "store" => goal'[u] = "scan"
    BY <1>1, <1>4, <1>5 DEF CoherenceTypeOK, OthersStay
  <2> QED BY <1>1, <1>3, <1>5, <2>1, <2>2 DEF CoherenceTypeOK
<1>13. CacheCoherent'
  <2> SUFFICES ASSUME NEW j \in Id, BaseOf(j) \notin tainted', writer.op # "clear", ~BeingRemoved(j)
               PROVE  formCache'[j] \in {None, Effective(j)}
    BY <1>3, <1>7 DEF CacheCoherent
  <2>1. formCache[j] \in {None, Effective(j)}
    BY <1>9 DEF CoherentIInv, CacheCoherent
  <2> QED BY <1>2, <1>6, <1>11, <2>1
<1>14. FillCoherent'
  <2>1. \A j \in Id : formCache[j] # None => formCache'[j] # None
    BY <1>6
  <2>2. \A u \in Reader : id[u] \in Id
    BY <1>1 DEF FormCacheTypeOK
  <2> QED BY <1>3, <1>4, <1>5, <1>7, <1>9, <2>1, <2>2 DEF CoherentIInv, FillCoherent, OthersStay
<1>15. ScansCoherent'
  <2>1. \A u \in Reader \ {t} : ScanIsRight(u) => ScanIsRight(u)'
    BY <1>4, <1>7, <1>8 DEF ScanIsRight, OthersStay
  <2>2. ASSUME t \notin raced, pc'[t] # "idle", BaseOf(id'[t]) \notin tainted', ~Suspended(BaseOf(id'[t]))
        PROVE  ScanIsRight(t)'
    <3>1. ScanIsRight(t)
      BY <1>2, <1>3, <1>5, <1>9, <2>2 DEF CoherentIInv, ScansCoherent
    <3> QED BY <1>2, <1>3, <1>5, <2>2, <3>1 DEF ScanIsRight
  <2> QED BY <1>3, <1>4, <1>5, <1>7, <1>9, <2>1, <2>2 DEF CoherentIInv, ScansCoherent, OthersStay
<1>16. TreeCoherent'
  BY <1>3, <1>7, <1>8, <1>9 DEF CoherentIInv, TreeCoherent
<1>17. ClearCoherent'
  BY <1>2, <1>3, <1>4, <1>5, <1>6, <1>9, <1>10 DEF CoherentIInv, ClearCoherent, OthersStay
<1> QED BY <1>1, <1>12, <1>13, <1>14, <1>15, <1>16, <1>17 DEF CoherentIInv

LEMMA StoreCoherent ==
  ASSUME CoherentIInv, NEW t \in Reader, Store(t)
  PROVE  CoherentIInv'
<1>1. FormCacheTypeOK /\ CoherenceTypeOK /\ FormCacheIInv /\ FormCacheIInv'
  BY StoreInv DEF CoherentIInv, FormCacheIInv
<1>2. PICK i \in Id, f \in Form \cup {None}, b \in Base : id[t] = i /\ got[t] = f /\ BaseOf(i) = b
  BY <1>1, IdParts DEF FormCacheTypeOK
<1>3. /\ UNCHANGED <<native, formCache, writer, raced>> /\ pc[t] = "store"
      /\ Goto(t, "idle", "lookup", AnyId, None)
      /\ treeCache' = [treeCache EXCEPT ![b] = IF @ = Absent THEN f ELSE @]
      /\ tainted' = IF t \in raced THEN tainted \cup {b} ELSE tainted
  BY <1>2 DEF Store, Idle, Taint
<1>4. pc'[t] = "idle" /\ OthersStay(t)
  BY <1>1, <1>3, AnyIdIsId, GotoMoves
<1>5. /\ goal' \in [Reader -> {"lookup", "scan"}] /\ \A u \in Reader \ {t} : goal'[u] = goal[u]
  BY <1>1, <1>3, GotoGoal
<1>6. /\ treeCache'[b] = IF treeCache[b] = Absent THEN f ELSE treeCache[b]
      /\ \A c \in Base : c # b => treeCache'[c] = treeCache[c]
      /\ treeCache' \in [Base -> Form \cup {None, Absent}]
  BY <1>1, <1>3 DEF CoherenceTypeOK
<1>7. /\ \A j : Effective(j)' = Effective(j) /\ (BeingRemoved(j)' <=> BeingRemoved(j))
      /\ \A c : Suspended(c)' <=> Suspended(c)
  BY <1>3 DEF Effective, BeingRemoved, Suspended
<1>8. \A g, c : IsFirstTree(g, c)' <=> IsFirstTree(g, c)
  BY <1>7 DEF IsFirstTree
<1>9. tainted \subseteq tainted' /\ (b \notin tainted' => t \notin raced /\ b \notin tainted)
  BY <1>3
<1>10. b \notin tainted' => writer.op # "clear"
  BY <1>2, <1>3, <1>9 DEF CoherentIInv, ClearCoherent
<1>11. b \notin tainted' /\ ~Suspended(b) => IsFirstTree(f, b)
  BY <1>1, <1>2, <1>3, <1>9 DEF CoherentIInv, CoherenceTypeOK, ScansCoherent, ScanIsRight
<1>12. CoherenceTypeOK'
  <2>1. raced' \subseteq Reader /\ tainted' \subseteq Base
    BY <1>1, <1>3 DEF CoherenceTypeOK
  <2>2. \A u \in Reader : pc'[u] = "store" => goal'[u] = "scan"
    BY <1>1, <1>4, <1>5 DEF CoherenceTypeOK, OthersStay
  <2> QED BY <1>1, <1>3, <1>5, <1>6, <2>1, <2>2 DEF CoherenceTypeOK
<1>13. CacheCoherent'
  BY <1>3, <1>7, <1>9 DEF CoherentIInv, CacheCoherent
<1>14. FillCoherent'
  BY <1>3, <1>4, <1>7, <1>9 DEF CoherentIInv, FillCoherent, OthersStay
<1>15. ScansCoherent'
  <2>1. \A u \in Reader \ {t} : ScanIsRight(u) => ScanIsRight(u)'
    BY <1>4, <1>7, <1>8 DEF ScanIsRight, OthersStay
  <2> QED BY <1>3, <1>4, <1>5, <1>7, <1>9, <2>1 DEF CoherentIInv, ScansCoherent, OthersStay
<1>16. TreeCoherent'
  BY <1>3, <1>6, <1>7, <1>8, <1>9, <1>11 DEF CoherentIInv, TreeCoherent
<1>17. ClearCoherent'
  BY <1>3, <1>4, <1>6, <1>9, <1>10 DEF CoherentIInv, ClearCoherent, OthersStay
<1> QED BY <1>1, <1>12, <1>13, <1>14, <1>15, <1>16, <1>17 DEF CoherentIInv

\* A step of a writer leaves the readers alone; some of them it overtakes.
LEMMA WriterTypes ==
  ASSUME CoherentIInv, UNCHANGED <<readerVars, tainted>>,
         raced \subseteq raced', raced' \subseteq Reader,
         treeCache' \in [Base -> Form \cup {None, Absent}],
         writer'.op = "set" => writer'.step \in {"tree", "native"},
         writer'.op = "remove" => writer'.step \in {"cache", "tree"}
  PROVE  CoherenceTypeOK' /\ \A t \in Reader : t \notin raced' => t \notin raced
  BY DEF CoherentIInv, CoherenceTypeOK, readerVars

LEMMA SetAtCoherent ==
  ASSUME CoherentIInv, NEW i \in Id, NEW f \in Form, SetAt(i, f)
  PROVE  CoherentIInv'
<1>1. FormCacheTypeOK /\ CoherenceTypeOK /\ FormCacheIInv /\ FormCacheIInv'
  BY SetAtInv DEF CoherentIInv, FormCacheIInv
<1>2. /\ writer.op = "none" /\ formCache' = [formCache EXCEPT ![i] = f]
      /\ writer' = [op |-> "set", id |-> i, form |-> f, step |-> "tree"]
      /\ UNCHANGED <<native, treeCache, readerVars, raced, tainted>>
  BY NoWriteIsNone DEF SetAt, CacheSet, history
<1>3. /\ formCache'[i] = f /\ \A j \in Id : j # i => formCache'[j] = formCache[j]
      /\ writer'.op = "set" /\ writer'.id = i /\ writer'.form = f /\ writer'.step = "tree"
  BY <1>1, <1>2 DEF FormCacheTypeOK
<1>4. /\ Effective(i)' = f /\ \A j : j # i => Effective(j)' = Effective(j)
      /\ \A j : ~BeingRemoved(j) /\ ~BeingRemoved(j)'
      /\ \A c : Suspended(c)' <=> c = BaseOf(i)
      /\ \A c : ~Suspended(c)
  BY <1>2, <1>3 DEF Effective, BeingRemoved, Suspended
<1>5. \A m \in Mod, c \in Base : c # BaseOf(i) => Effective(<<m, c>>)' = Effective(<<m, c>>)
  BY <1>4, IdParts
<1>6. \A g : \A c \in Base : c # BaseOf(i) => (IsFirstTree(g, c)' <=> IsFirstTree(g, c))
  BY <1>5 DEF IsFirstTree
<1>7. \A t \in Reader : id[t] \in Id /\ BaseOf(id[t]) \in Base
  BY <1>1, IdParts DEF FormCacheTypeOK
<1>8. CoherenceTypeOK'
  BY <1>1, <1>2, <1>3, WriterTypes DEF CoherenceTypeOK
<1>9. CacheCoherent'
  BY <1>2, <1>3, <1>4 DEF CoherentIInv, CacheCoherent
<1>10. FillCoherent'
  BY <1>2, <1>3, <1>4, <1>7, FormCacheAssumption DEF CoherentIInv, FillCoherent, readerVars
<1>11. ScansCoherent'
  <2>1. \A t \in Reader : BaseOf(id[t]) # BaseOf(i) /\ ScanIsRight(t) => ScanIsRight(t)'
    BY <1>2, <1>4, <1>5, <1>6, <1>7 DEF ScanIsRight, readerVars
  <2> QED BY <1>2, <1>4, <2>1 DEF CoherentIInv, ScansCoherent, readerVars
<1>12. TreeCoherent'
  BY <1>2, <1>4, <1>6 DEF CoherentIInv, TreeCoherent
<1>13. ClearCoherent'
  BY <1>3 DEF ClearCoherent
<1> QED BY <1>1, <1>8, <1>9, <1>10, <1>11, <1>12, <1>13 DEF CoherentIInv

\* Overtake, for the scans under b.
LEMMA ScansOvertaken ==
  ASSUME CoherenceTypeOK, NEW b,
         raced' = raced \cup {t \in Reader : pc[t] # "idle" /\ BaseOf(id[t]) = b /\ goal[t] = "scan"}
  PROVE  /\ raced \subseteq raced' /\ raced' \subseteq Reader
         /\ \A t \in Reader \ raced' : pc[t] # "idle" /\ goal[t] = "scan" => BaseOf(id[t]) # b
  BY DEF CoherenceTypeOK

LEMMA SetTreeCoherent ==
  ASSUME CoherentIInv, SetTree
  PROVE  CoherentIInv'
<1>1. FormCacheTypeOK /\ CoherenceTypeOK /\ FormCacheIInv /\ FormCacheIInv'
  BY SetTreeInv DEF CoherentIInv, FormCacheIInv
<1>2. PICK b \in Base : BaseOf(writer.id) = b
  BY <1>1, IdParts DEF FormCacheTypeOK
<1>3. /\ writer.op = "set" /\ writer.step = "tree"
      /\ treeCache' = [treeCache EXCEPT ![b] = Absent]
      /\ raced' = raced \cup {t \in Reader : pc[t] # "idle" /\ BaseOf(id[t]) = b /\ goal[t] = "scan"}
      /\ UNCHANGED <<native, formCache, readerVars, tainted>> /\ Advance("native")
  BY <1>2 DEF SetTree, WriterAt, ForgetTree, Overtake
<1>4. /\ writer'.op = "set" /\ writer'.id = writer.id /\ writer'.form = writer.form
      /\ writer'.step = "native"
  BY <1>1, <1>3 DEF Advance, FormCacheTypeOK
<1>5. /\ treeCache' \in [Base -> Form \cup {None, Absent}] /\ treeCache'[b] = Absent
      /\ \A c \in Base : c # b => treeCache'[c] = treeCache[c]
  BY <1>1, <1>3 DEF CoherenceTypeOK
<1>6. /\ raced \subseteq raced' /\ raced' \subseteq Reader
      /\ \A t \in Reader \ raced' : pc[t] # "idle" /\ goal[t] = "scan" => BaseOf(id[t]) # b
  BY <1>1, <1>3, ScansOvertaken
<1>7. /\ \A j : Effective(j)' = Effective(j) /\ ~BeingRemoved(j) /\ ~BeingRemoved(j)'
      /\ \A c : ~Suspended(c)' /\ (Suspended(c) <=> c = b)
  BY <1>2, <1>3, <1>4 DEF Effective, BeingRemoved, Suspended
<1>8. \A g, c : IsFirstTree(g, c)' <=> IsFirstTree(g, c)
  BY <1>7 DEF IsFirstTree
<1>9. CoherenceTypeOK'
  BY <1>1, <1>3, <1>4, <1>5, <1>6, WriterTypes
<1>10. CacheCoherent' /\ FillCoherent'
  BY <1>3, <1>4, <1>6, <1>7 DEF CoherentIInv, CacheCoherent, FillCoherent, readerVars
<1>11. ScansCoherent'
  <2>1. \A t \in Reader : ScanIsRight(t) => ScanIsRight(t)'
    BY <1>3, <1>7, <1>8 DEF ScanIsRight, readerVars
  <2> QED BY <1>3, <1>6, <1>7, <2>1 DEF CoherentIInv, ScansCoherent, readerVars
<1>12. TreeCoherent'
  BY <1>3, <1>5, <1>7, <1>8 DEF CoherentIInv, TreeCoherent
<1>13. ClearCoherent'
  BY <1>4 DEF ClearCoherent
<1> QED BY <1>1, <1>9, <1>10, <1>11, <1>12, <1>13 DEF CoherentIInv

LEMMA SetNativeCoherent ==
  ASSUME CoherentIInv, SetNative
  PROVE  CoherentIInv'
<1>1. FormCacheTypeOK /\ CoherenceTypeOK /\ FormCacheIInv /\ FormCacheIInv'
  BY SetNativeInv DEF CoherentIInv, FormCacheIInv
<1>2. /\ writer.op = "set" /\ writer.step = "native" /\ writer.id \in Id
      /\ native' = [native EXCEPT ![writer.id] = writer.form] /\ writer'.op = "none"
      /\ UNCHANGED <<formCache, treeCache, readerVars, raced, tainted>>
  BY <1>1, NoWriteIsNone DEF SetNative, WriterAt, caches, history, FormCacheTypeOK
<1>3. \A j \in Id : Effective(j)' = Effective(j)
  BY <1>1, <1>2 DEF Effective, FormCacheTypeOK
<1>4. /\ \A j : ~BeingRemoved(j) /\ ~BeingRemoved(j)'
      /\ \A c : ~Suspended(c) /\ ~Suspended(c)'
  BY <1>2 DEF BeingRemoved, Suspended
<1>5. \A m \in Mod, c \in Base : Effective(<<m, c>>)' = Effective(<<m, c>>)
  BY <1>3, IdParts
<1>6. \A g : \A c \in Base : IsFirstTree(g, c)' <=> IsFirstTree(g, c)
  BY <1>5 DEF IsFirstTree
<1>7. \A t \in Reader : id[t] \in Id /\ BaseOf(id[t]) \in Base
  BY <1>1, IdParts DEF FormCacheTypeOK
<1>8. CoherenceTypeOK'
  BY <1>1, <1>2, WriterTypes DEF CoherenceTypeOK
<1>9. CacheCoherent' /\ FillCoherent'
  BY <1>2, <1>3, <1>4, <1>7 DEF CoherentIInv, CacheCoherent, FillCoherent, readerVars
<1>10. ScansCoherent'
  <2>1. \A t \in Reader : ScanIsRight(t) => ScanIsRight(t)'
    BY <1>2, <1>3, <1>5, <1>6, <1>7 DEF ScanIsRight, readerVars
  <2> QED BY <1>2, <1>4, <2>1 DEF CoherentIInv, ScansCoherent, readerVars
<1>11. TreeCoherent' /\ ClearCoherent'
  BY <1>2, <1>4, <1>6 DEF CoherentIInv, TreeCoherent, ClearCoherent
<1> QED BY <1>1, <1>8, <1>9, <1>10, <1>11 DEF CoherentIInv

LEMMA RemoveAtCoherent ==
  ASSUME CoherentIInv, NEW i \in Id, RemoveAt(i)
  PROVE  CoherentIInv'
<1>1. FormCacheTypeOK /\ CoherenceTypeOK /\ FormCacheIInv /\ FormCacheIInv'
  BY RemoveAtInv DEF CoherentIInv, FormCacheIInv
<1>2. /\ writer.op = "none" /\ native' = [native EXCEPT ![i] = None]
      /\ writer' = [op |-> "remove", id |-> i, form |-> None, step |-> "cache"]
      /\ UNCHANGED <<formCache, treeCache, readerVars, raced, tainted>>
  BY NoWriteIsNone DEF RemoveAt, caches, history
<1>3. /\ \A j \in Id : j # i => native'[j] = native[j]
      /\ writer'.op = "remove" /\ writer'.id = i /\ writer'.step = "cache"
  BY <1>1, <1>2 DEF FormCacheTypeOK
<1>4. /\ \A j \in Id : j # i => Effective(j)' = Effective(j)
      /\ \A j : ~BeingRemoved(j) /\ (BeingRemoved(j)' <=> j = i)
      /\ \A c : ~Suspended(c) /\ (Suspended(c)' <=> c = BaseOf(i))
  BY <1>2, <1>3 DEF Effective, BeingRemoved, Suspended
<1>5. \A m \in Mod, c \in Base : c # BaseOf(i) => Effective(<<m, c>>)' = Effective(<<m, c>>)
  BY <1>4, IdParts
<1>6. \A g : \A c \in Base : c # BaseOf(i) => (IsFirstTree(g, c)' <=> IsFirstTree(g, c))
  BY <1>5 DEF IsFirstTree
<1>7. \A t \in Reader : id[t] \in Id /\ BaseOf(id[t]) \in Base
  BY <1>1, IdParts DEF FormCacheTypeOK
<1>8. CoherenceTypeOK'
  BY <1>1, <1>2, <1>3, WriterTypes DEF CoherenceTypeOK
<1>9. CacheCoherent' /\ FillCoherent'
  BY <1>2, <1>4, <1>7 DEF CoherentIInv, CacheCoherent, FillCoherent, readerVars
<1>10. ScansCoherent'
  <2>1. \A t \in Reader : BaseOf(id[t]) # BaseOf(i) /\ ScanIsRight(t) => ScanIsRight(t)'
    BY <1>2, <1>4, <1>5, <1>6, <1>7 DEF ScanIsRight, readerVars
  <2> QED BY <1>2, <1>4, <2>1 DEF CoherentIInv, ScansCoherent, readerVars
<1>11. TreeCoherent' /\ ClearCoherent'
  BY <1>2, <1>3, <1>4, <1>6 DEF CoherentIInv, TreeCoherent, ClearCoherent
<1> QED BY <1>1, <1>8, <1>9, <1>10, <1>11 DEF CoherentIInv

LEMMA RemoveCacheCoherent ==
  ASSUME CoherentIInv, RemoveCache
  PROVE  CoherentIInv'
<1>1. FormCacheTypeOK /\ CoherenceTypeOK /\ FormCacheIInv /\ FormCacheIInv'
  BY RemoveCacheInv DEF CoherentIInv, FormCacheIInv
<1>2. PICK i \in Id : writer.id = i
  BY <1>1 DEF FormCacheTypeOK
<1>3. /\ writer.op = "remove" /\ writer.step = "cache"
      /\ formCache' = [formCache EXCEPT ![i] = None]
      /\ raced' = raced \cup {t \in Reader : pc[t] # "idle" /\ BaseOf(id[t]) = BaseOf(i) /\ pc[t] = "emplace"}
      /\ UNCHANGED <<native, treeCache, readerVars, tainted>> /\ Advance("tree")
  BY <1>2 DEF RemoveCache, WriterAt, Overtake
<1>4. /\ writer'.op = "remove" /\ writer'.id = i /\ writer'.step = "tree"
      /\ formCache'[i] = None /\ \A j \in Id : j # i => formCache'[j] = formCache[j]
  BY <1>1, <1>2, <1>3 DEF Advance, FormCacheTypeOK
<1>5. /\ raced \subseteq raced' /\ raced' \subseteq Reader
      /\ \A t \in Reader \ raced' : pc[t] = "emplace" => id[t] # i
  BY <1>1, <1>3 DEF CoherenceTypeOK
<1>6. /\ \A j : Effective(j)' = Effective(j) /\ ~BeingRemoved(j)' /\ (BeingRemoved(j) <=> j = i)
      /\ \A c : Suspended(c)' <=> Suspended(c)
  BY <1>2, <1>3, <1>4 DEF Effective, BeingRemoved, Suspended
<1>7. \A g, c : IsFirstTree(g, c)' <=> IsFirstTree(g, c)
  BY <1>6 DEF IsFirstTree
<1>8. \A t \in Reader : id[t] \in Id
  BY <1>1 DEF FormCacheTypeOK
<1>9. CoherenceTypeOK'
  BY <1>1, <1>3, <1>4, <1>5, WriterTypes DEF CoherenceTypeOK
<1>10. CacheCoherent'
  BY <1>3, <1>4, <1>6 DEF CoherentIInv, CacheCoherent
<1>11. FillCoherent'
  BY <1>3, <1>4, <1>5, <1>6, <1>8 DEF CoherentIInv, FillCoherent, readerVars
<1>12. ScansCoherent'
  <2>1. \A t \in Reader : ScanIsRight(t) => ScanIsRight(t)'
    BY <1>3, <1>6, <1>7 DEF ScanIsRight, readerVars
  <2> QED BY <1>3, <1>5, <1>6, <2>1 DEF CoherentIInv, ScansCoherent, readerVars
<1>13. TreeCoherent' /\ ClearCoherent'
  BY <1>3, <1>4, <1>6, <1>7 DEF CoherentIInv, TreeCoherent, ClearCoherent
<1> QED BY <1>1, <1>9, <1>10, <1>11, <1>12, <1>13 DEF CoherentIInv

LEMMA RemoveTreeCoherent ==
  ASSUME CoherentIInv, RemoveTree
  PROVE  CoherentIInv'
<1>1. FormCacheTypeOK /\ CoherenceTypeOK /\ FormCacheIInv /\ FormCacheIInv'
  BY RemoveTreeInv DEF CoherentIInv, FormCacheIInv
<1>2. PICK b \in Base : BaseOf(writer.id) = b
  BY <1>1, IdParts DEF FormCacheTypeOK
<1>3. /\ writer.op = "remove" /\ writer.step = "tree" /\ writer'.op = "none"
      /\ treeCache' = [treeCache EXCEPT ![b] = Absent]
      /\ raced' = raced \cup {t \in Reader : pc[t] # "idle" /\ BaseOf(id[t]) = b /\ goal[t] = "scan"}
      /\ UNCHANGED <<native, formCache, readerVars, tainted>>
  BY <1>2, NoWriteIsNone DEF RemoveTree, WriterAt, ForgetTree, Overtake
<1>4. /\ treeCache' \in [Base -> Form \cup {None, Absent}] /\ treeCache'[b] = Absent
      /\ \A c \in Base : c # b => treeCache'[c] = treeCache[c]
  BY <1>1, <1>3 DEF CoherenceTypeOK
<1>5. /\ raced \subseteq raced' /\ raced' \subseteq Reader
      /\ \A t \in Reader \ raced' : pc[t] # "idle" /\ goal[t] = "scan" => BaseOf(id[t]) # b
  BY <1>1, <1>3, ScansOvertaken
<1>6. /\ \A j : Effective(j)' = Effective(j) /\ ~BeingRemoved(j) /\ ~BeingRemoved(j)'
      /\ \A c : ~Suspended(c)' /\ (Suspended(c) <=> c = b)
  BY <1>2, <1>3 DEF Effective, BeingRemoved, Suspended
<1>7. \A g, c : IsFirstTree(g, c)' <=> IsFirstTree(g, c)
  BY <1>6 DEF IsFirstTree
<1>8. CoherenceTypeOK'
  BY <1>1, <1>3, <1>4, <1>5, WriterTypes
<1>9. CacheCoherent' /\ FillCoherent'
  BY <1>3, <1>5, <1>6 DEF CoherentIInv, CacheCoherent, FillCoherent, readerVars
<1>10. ScansCoherent'
  <2>1. \A t \in Reader : ScanIsRight(t) => ScanIsRight(t)'
    BY <1>3, <1>6, <1>7 DEF ScanIsRight, readerVars
  <2> QED BY <1>3, <1>5, <1>6, <2>1 DEF CoherentIInv, ScansCoherent, readerVars
<1>11. TreeCoherent' /\ ClearCoherent'
  BY <1>3, <1>4, <1>6, <1>7 DEF CoherentIInv, TreeCoherent, ClearCoherent
<1> QED BY <1>1, <1>8, <1>9, <1>10, <1>11 DEF CoherentIInv

\* What every step of a clear does to the readers.
LEMMA AllOvertaken ==
  ASSUME CoherenceTypeOK, raced' = raced \cup {t \in Reader : pc[t] # "idle"}, UNCHANGED readerVars
  PROVE  /\ raced \subseteq raced' /\ raced' \subseteq Reader
         /\ \A t \in Reader \ raced' : pc'[t] = "idle"
  BY DEF CoherenceTypeOK, readerVars

LEMMA ClearStepsCoherent ==
  ASSUME CoherentIInv, Clear \/ ClearTree
  PROVE  CoherentIInv'
<1>1. FormCacheTypeOK /\ CoherenceTypeOK /\ FormCacheIInv /\ FormCacheIInv'
  BY ClearInv DEF CoherentIInv, FormCacheIInv
<1>2. /\ raced' = raced \cup {t \in Reader : pc[t] # "idle"}
      /\ UNCHANGED <<native, readerVars, tainted>> /\ writer'.op = "clear"
  BY <1>1 DEF Clear, ClearTree, WriterAt, Advance, FormCacheTypeOK
<1>3. /\ raced \subseteq raced' /\ raced' \subseteq Reader
      /\ \A t \in Reader \ raced' : pc'[t] = "idle"
  BY <1>1, <1>2, AllOvertaken
<1>4. treeCache' \in [Base -> Form \cup {None, Absent}]
  BY <1>1 DEF Clear, ClearTree, CoherenceTypeOK
<1>5. CoherenceTypeOK'
  BY <1>2, <1>3, <1>4, WriterTypes
<1>6. CacheCoherent' /\ FillCoherent' /\ ScansCoherent' /\ TreeCoherent'
  BY <1>2 DEF CacheCoherent, FillCoherent, ScansCoherent, TreeCoherent, Suspended
<1>7. ClearCoherent'
  <2>1. CASE Clear
    <3>1. \A i \in Id : formCache'[i] = None
      BY <2>1 DEF Clear
    <3>2. writer'.step = "tree"
      BY <2>1 DEF Clear
    <3> QED BY <1>3, <3>1, <3>2 DEF ClearCoherent
  <2>2. CASE ClearTree
    <3>1. formCache' = formCache /\ writer.op = "clear" /\ \A b \in Base : treeCache'[b] = Absent
      BY <2>2 DEF ClearTree, WriterAt
    <3> QED BY <1>2, <1>3, <3>1 DEF CoherentIInv, ClearCoherent
  <2> QED BY <2>1, <2>2
<1> QED BY <1>1, <1>5, <1>6, <1>7 DEF CoherentIInv

LEMMA ClearNativeCoherent ==
  ASSUME CoherentIInv, ClearNative
  PROVE  CoherentIInv'
<1>1. FormCacheTypeOK /\ CoherenceTypeOK /\ FormCacheIInv /\ FormCacheIInv'
  BY ClearNativeInv DEF CoherentIInv, FormCacheIInv
<1>2. /\ raced' = raced \cup {t \in Reader : pc[t] # "idle"}
      /\ writer.op = "clear" /\ writer.step = "native" /\ writer'.op = "none"
      /\ UNCHANGED <<formCache, treeCache, readerVars, tainted>>
  BY NoWriteIsNone DEF ClearNative, WriterAt, caches
<1>3. /\ raced \subseteq raced' /\ raced' \subseteq Reader
      /\ \A t \in Reader \ raced' : pc'[t] = "idle"
  BY <1>1, <1>2, AllOvertaken
<1>4. CoherenceTypeOK'
  BY <1>1, <1>2, <1>3, WriterTypes DEF CoherenceTypeOK
<1>5. CacheCoherent' /\ TreeCoherent' /\ ClearCoherent'
  BY <1>2 DEF CoherentIInv, CacheCoherent, TreeCoherent, ClearCoherent
<1>6. FillCoherent' /\ ScansCoherent'
  BY <1>3 DEF FillCoherent, ScansCoherent
<1> QED BY <1>1, <1>4, <1>5, <1>6 DEF CoherentIInv

LEMMA CoherentNext == CoherentIInv /\ [Next]_vars => CoherentIInv'
<1> SUFFICES ASSUME CoherentIInv, [Next]_vars PROVE CoherentIInv'
  OBVIOUS
<1>1. CASE Reading
  BY <1>1, FindCoherent, LookupByIDCoherent, EmplaceCoherent, StoreCoherent, LookupCoherent, ScanCoherent
     DEF Reading, ReaderStep
<1>2. CASE Registration
  BY <1>2, SetTreeCoherent, SetNativeCoherent, RemoveCacheCoherent, RemoveTreeCoherent,
     RemoveAtCoherent, SetAtCoherent DEF Registration
<1>3. CASE UNCHANGED vars
  <2>1. FormCacheIInv'
    BY <1>3, FormCacheNext DEF CoherentIInv
  <2>2. /\ \A j : Effective(j)' = Effective(j) /\ (BeingRemoved(j)' <=> BeingRemoved(j))
        /\ \A c : Suspended(c)' <=> Suspended(c)
    BY <1>3 DEF vars, Effective, BeingRemoved, Suspended
  <2>3. \A g, c : IsFirstTree(g, c)' <=> IsFirstTree(g, c)
    BY <2>2 DEF IsFirstTree
  <2>4. \A t \in Reader : ScanIsRight(t) => ScanIsRight(t)'
    BY <1>3, <2>2, <2>3 DEF vars, ScanIsRight
  <2>5. CoherenceTypeOK' /\ CacheCoherent' /\ FillCoherent' /\ ClearCoherent'
    BY <1>3, <2>2 DEF vars, CoherentIInv, CoherenceTypeOK, CacheCoherent, FillCoherent, ClearCoherent
  <2>6. ScansCoherent' /\ TreeCoherent'
    BY <1>3, <2>2, <2>3, <2>4 DEF vars, CoherentIInv, ScansCoherent, TreeCoherent
  <2> QED BY <2>1, <2>5, <2>6 DEF CoherentIInv
<1> QED BY <1>1, <1>2, <1>3, ClearStepsCoherent, ClearNativeCoherent DEF Next

LEMMA FirstTreeIsFirst ==
  ASSUME writer.op = "none", NEW b \in Base, NEW f, IsFirstTree(f, b)
  PROVE  f = FirstTree(b)
<1> DEFINE mods == {m \in Mod : native[<<m, b>>] \in Tree}
<1>1. \A j : Effective(j) = native[j]
  BY DEF Effective
<1>2. CASE f = None /\ \A m \in Mod : native[<<m, b>>] \notin Tree
  <2>1. mods = {}
    BY <1>2
  <2> QED BY <1>2, <2>1 DEF FirstTree
<1>3. CASE \E m \in Mod : /\ f = native[<<m, b>>] /\ f \in Tree
                          /\ \A n \in Mod : n < m => native[<<n, b>>] \notin Tree
  <2>1. PICK m \in Mod : /\ f = native[<<m, b>>] /\ f \in Tree
                         /\ \A n \in Mod : n < m => native[<<n, b>>] \notin Tree
    BY <1>3
  <2>2. Mod \subseteq Int
    BY FormCacheAssumption DEF Mod
  <2>3. m \in mods /\ \A n \in mods : m <= n
    BY <2>1, <2>2
  <2>4. \A k \in mods : (\A n \in mods : k <= n) => k = m
    BY <2>2, <2>3
  <2> DEFINE first == CHOOSE k \in mods : \A n \in mods : k <= n
  <2>5. first = m
    BY <2>3, <2>4
  <2>6. mods # {}
    BY <2>3
  <2>7. FirstTree(b) = native[<<first, b>>]
    BY <2>6, Zenon DEF FirstTree
  <2> HIDE DEF first
  <2> QED BY <2>1, <2>5, <2>7
<1> QED BY <1>1, <1>2, <1>3 DEF IsFirstTree

\* OnFormSet, OnFormRemoved, ClearData and the tree scan: for any number of readers, mods
\* and forms, both caches agree with the table as long as no fill was overtaken by a write.
THEOREM FormCachesCoherent == Spec => []CoherentUnlessOvertaken
<1>1. CoherentIInv => CoherentUnlessOvertaken
  <2> SUFFICES ASSUME CoherentIInv, writer = NoWrite, NEW b \in Base \ tainted
               PROVE  /\ \A m \in Mod : formCache[<<m, b>>] \in {None, native[<<m, b>>]}
                      /\ treeCache[b] \in {Absent, FirstTree(b)}
    BY DEF CoherentUnlessOvertaken
  <2>1. writer.op = "none"
    BY NoWriteIsNone
  <2>2. \A m \in Mod : formCache[<<m, b>>] \in {None, native[<<m, b>>]}
    BY <2>1, IdParts DEF CoherentIInv, CacheCoherent, BeingRemoved, Effective
  <2>3. treeCache[b] = Absent \/ IsFirstTree(treeCache[b], b)
    BY <2>1 DEF CoherentIInv, TreeCoherent, Suspended
  <2> QED BY <2>1, <2>2, <2>3, FirstTreeIsFirst
<1> QED BY CoherentInit, CoherentNext, <1>1, PTL DEF Spec
=============================================================================
