------------------------- MODULE RuntimeGuardProofs -------------------------
(***************************************************************************)
(* The small runtime guards for every value of their constants: the alpha  *)
(* geometry counter, the margin of the culling process pool, the order of  *)
(* reset and unlock of the actor values, the job list lock, the render     *)
(* target of screenshots, the scratch blocks and indices of shadow maps,   *)
(* the words the freed object guards let through, and the bounds of the    *)
(* Havok material lookup.                                                  *)
(***************************************************************************)
EXTENDS AlphaGeometryGroups, CullingProcessPool, ActorValueClear, JobListLock, SaveScreenshots,
  ShadowMapScratch, FreedObjectGuards, HavokMaterialGuard, Integers, SequenceTheorems, TLAPS

-----------------------------------------------------------------------------
(* AlphaGeometryGroups.                                                    *)

\* A slot that has passed the comparison is below the limit, one that has been
\* exchanged for is below the counter.
AlphaIInv ==
  /\ AlphaTypeOK
  /\ SlotsClaimedOnce
  /\ \A t \in Claimers : claims[t].at = "exchange" => claims[t].seen < limit
  /\ \A t \in Claimers : claims[t].at = "fill" => claims[t].seen < counter

LEMMA AlphaInitInv == AlphaInit => AlphaIInv
<1> SUFFICES ASSUME NEW requested \in Requests, AlphaStart(requested)
             PROVE  AlphaIInv
  BY DEF AlphaInit
<1>1. requested \in Nat /\ Capacity \in Nat /\ CapacityMargin \in 0..Capacity
  BY AlphaAssumption
<1>2. limit \in Nat /\ limit <= Capacity
  BY <1>1 DEF AlphaStart, Limit
<1> QED BY <1>1, <1>2 DEF AlphaStart, AlphaIInv, AlphaTypeOK, SlotsClaimedOnce, ClaimStep, Filling, Slots

\* The claim itself: the winner of the exchange takes the first free slot.
LEMMA CompareExchangeInv ==
  ASSUME AlphaIInv, NEW t \in Claimers, CompareExchange(t)
  PROVE  AlphaIInv'
<1> USE DEF AlphaIInv, AlphaTypeOK
<1>1. CASE counter = claims[t].seen
  <2>1. /\ counter' = counter + 1 /\ counter < limit
        /\ claims' = [claims EXCEPT ![t] = [at |-> "fill", seen |-> counter]]
        /\ UNCHANGED <<limit, groupWrites>>
    BY <1>1 DEF CompareExchange, Go
  <2>2. counter \in Slots /\ groupWrites[counter] # 1 /\ \A u \in Claimers : ~Filling(u, counter)
    BY <2>1, AlphaAssumption DEF SlotsClaimedOnce, Slots
  <2>3. \A s \in Slots : Filling(t, s)' <=> s = counter
    BY <2>1 DEF Filling
  <2>4. \A s \in Slots, u \in Claimers : u # t => (Filling(u, s)' <=> Filling(u, s))
    BY <2>1 DEF Filling
  <2>5. \A s \in Slots : ~Filling(t, s)
    BY DEF Filling, CompareExchange
  <2>6. SlotsClaimedOnce'
    BY <2>1, <2>2, <2>3, <2>4, <2>5 DEF SlotsClaimedOnce, Slots
  <2> QED BY <2>1, <2>6 DEF ClaimStep
<1>2. CASE counter # claims[t].seen
  <2>1. /\ claims' = [claims EXCEPT ![t] = [at |-> "load", seen |-> 0]]
        /\ UNCHANGED <<limit, counter, groupWrites>>
    BY <1>2 DEF CompareExchange, Go
  <2>2. \A s \in Slots, u \in Claimers : Filling(u, s)' <=> Filling(u, s)
    BY <2>1 DEF Filling, CompareExchange
  <2> QED BY <2>1, <2>2 DEF SlotsClaimedOnce, ClaimStep
<1> QED BY <1>1, <1>2

LEMMA FillGroupInv ==
  ASSUME AlphaIInv, NEW t \in Claimers, FillGroup(t)
  PROVE  AlphaIInv'
<1> USE DEF AlphaIInv, AlphaTypeOK
<1> PICK slot \in Slots : claims[t].seen = slot
  BY AlphaAssumption DEF FillGroup, SlotsClaimedOnce, Slots
<1>1. /\ claims[t].at = "fill" /\ claims[t].seen = slot
      /\ groupWrites' = [groupWrites EXCEPT ![slot] = @ + 1]
      /\ claims' = [claims EXCEPT ![t] = [at |-> "outside", seen |-> 0]]
      /\ UNCHANGED <<limit, counter>>
  BY DEF FillGroup, Go
<1>2. Filling(t, slot) /\ groupWrites[slot] = 0
  <2>1. Filling(t, slot)
    BY <1>1 DEF Filling
  <2>2. groupWrites[slot] # 1 /\ groupWrites[slot] <= 1 /\ groupWrites[slot] \in Nat
    BY <1>1, <2>1 DEF SlotsClaimedOnce
  <2> QED BY <2>1, <2>2
<1>3. \A s \in Slots : ~Filling(t, s)'
  BY <1>1 DEF Filling
<1>4. \A s \in Slots, u \in Claimers : u # t => (Filling(u, s)' <=> Filling(u, s))
  BY <1>1 DEF Filling
<1>5. \A s \in Slots : Filling(t, s) => s = slot
  BY DEF Filling
<1>6. SlotsClaimedOnce'
  <2>1. counter' <= limit' /\ limit' <= Capacity
    BY <1>1 DEF SlotsClaimedOnce
  <2>2. ASSUME NEW s \in Slots, s # slot
        PROVE  /\ groupWrites'[s] = groupWrites[s]
               /\ \A u \in Claimers : Filling(u, s)' <=> Filling(u, s)
    BY <1>1, <1>3, <1>4, <1>5, <2>2
  <2>3. groupWrites'[slot] = 1 /\ \A u \in Claimers : ~Filling(u, slot)'
    <3>1. groupWrites'[slot] = 1
      BY <1>1, <1>2
    <3>2. \A u, v \in Claimers : Filling(u, slot) /\ Filling(v, slot) => u = v
      BY <1>1 DEF SlotsClaimedOnce
    <3> QED BY <1>1, <1>2, <1>3, <1>4, <3>1, <3>2
  <2>4. slot < counter' /\ slot \in Nat
    BY <1>1, AlphaAssumption DEF Slots
  <2>5. \A s \in Slots : s = slot \/ s # slot
    OBVIOUS
  <2> QED BY <1>1, <2>1, <2>2, <2>3, <2>4, <2>5 DEF SlotsClaimedOnce
<1> QED BY <1>1, <1>6 DEF ClaimStep

LEMMA AlphaNextInv == AlphaIInv /\ [AlphaNext]_alphaVars => AlphaIInv'
<1> SUFFICES ASSUME AlphaIInv, [AlphaNext]_alphaVars
             PROVE  AlphaIInv'
  OBVIOUS
<1> USE DEF AlphaIInv, AlphaTypeOK
<1>1. ASSUME NEW t \in Claimers, StartGrouping(t) \/ LoadCounter(t) \/ LeaveWithoutGroup(t)
      PROVE  AlphaIInv'
  <2>1. PICK step \in ClaimStep \ {"fill"}, seen \in Nat :
          /\ claims' = [claims EXCEPT ![t] = [at |-> step, seen |-> seen]]
          /\ step = "exchange" => seen < limit
    BY <1>1 DEF StartGrouping, LoadCounter, LeaveWithoutGroup, Go, ClaimStep
  <2>2. UNCHANGED <<limit, counter, groupWrites>> /\ claims[t].at # "fill"
    BY <1>1 DEF StartGrouping, LoadCounter, LeaveWithoutGroup
  <2>3. \A s \in Slots, u \in Claimers : Filling(u, s)' <=> Filling(u, s)
    BY <2>1, <2>2 DEF Filling
  <2> QED BY <2>1, <2>2, <2>3 DEF SlotsClaimedOnce
<1>2. CASE SortAlphaGeometryGroups
  BY <1>2 DEF SortAlphaGeometryGroups, SlotsClaimedOnce, Filling, Slots
<1>3. CASE UNCHANGED alphaVars
  BY <1>3 DEF alphaVars, SlotsClaimedOnce, Filling
<1> QED BY <1>1, <1>2, <1>3, CompareExchangeInv, FillGroupInv DEF AlphaNext, AlphaStep

\* StartGroupingAlphas: for every number of threads, capacity and setting, the counter
\* stays within the array and every slot below it is filled once.
THEOREM AlphaSlotsClaimedOnce == AlphaSpec => []SlotsClaimedOnce
<1>1. AlphaIInv => SlotsClaimedOnce
  BY DEF AlphaIInv
<1> QED BY AlphaInitInv, AlphaNextInv, <1>1, PTL DEF AlphaSpec
-----------------------------------------------------------------------------
(* CullingProcessPool.                                                     *)

\* EnoughFree on wrapped counters never holds with fewer entries than the margin
\* between head and tail.
LEMMA EnoughFreeMeans ==
  ASSUME NEW a \in Nat, NEW b \in Nat, a <= b, EnoughFree(a % Width, b % Width)
  PROVE  b - a >= MinFreeEntries
<1>1. Width \in Nat \ {0} /\ MinFreeEntries \in Nat /\ MinFreeEntries <= Width
  BY PoolAssumption
<1>2. CASE b - a >= Width
  BY <1>1, <1>2
<1>3. CASE b - a < Width
  <2> DEFINE x == a % Width
             y == b % Width
             p == a \div Width
             q == b \div Width
  <2>1. /\ x \in 0..(Width - 1) /\ y \in 0..(Width - 1)
        /\ p \in Int /\ q \in Int
        /\ a = Width * p + x /\ b = Width * q + y
    BY <1>1
  <2>2. b - a = Width * (q - p) + (y - x)
    BY <1>1, <2>1
  <2>3. q - p = 0 \/ q - p = 1
    BY <1>1, <1>3, <2>1, <2>2
  <2>4. b - a = IF y >= x THEN y - x ELSE y - x + Width
    <3> HIDE DEF x, y, p, q
    <3>1. CASE q - p = 0
      <4>1. b - a = y - x
        BY <3>1, <2>1, <2>2, <1>1
      <4> QED BY <4>1, <2>1
    <3>2. CASE q - p = 1
      <4>1. b - a = Width + (y - x)
        BY <3>2, <2>1, <2>2, <1>1
      <4> QED BY <4>1, <2>1, <1>1, <1>3
    <3> QED BY <2>3, <3>1, <3>2
  <2>5. (y + Width - x) % Width = IF y >= x THEN y - x ELSE y - x + Width
    <3> DEFINE z == y + Width - x
    <3>1. z \in Nat /\ z < 2 * Width
      BY <1>1, <2>1
    <3>2. z % Width = IF z < Width THEN z ELSE z - Width
      <4> HIDE DEF z
      <4>1. CASE z < Width
        BY <4>1, <3>1, <1>1
      <4>2. CASE z >= Width
        <5>1. z = Width * 1 + (z - Width) /\ z - Width \in 0..(Width - 1)
          BY <3>1, <1>1, <4>2
        <5> QED BY <5>1, <4>2, <1>1
      <4> QED BY <4>1, <4>2, <3>1, <1>1
    <3> QED BY <3>2, <2>1, <1>1
  <2> QED BY <2>4, <2>5 DEF EnoughFree
<1> QED BY <1>1, <1>2, <1>3

\* The head a thread has read, without wrapping.
SeenHead(t) == head - popsSince[t]

\* The entries between the head a thread has read and the tail only become more.
PoolIInv ==
  /\ PoolTypeOK
  /\ \A t \in Appenders :
       /\ SeenHead(t) >= 0
       /\ appends[t].at # "outside" => appends[t].head = SeenHead(t) % Width
       /\ appends[t].at \in {"pop", "null"} => tail - SeenHead(t) >= MinFreeEntries
  /\ NullOnlyAfterManyPops

LEMMA PoolInitInv == PoolInit => PoolIInv
  BY PoolAssumption DEF PoolInit, PoolIInv, PoolTypeOK, SeenHead, NullOnlyAfterManyPops, AppendStep

LEMMA ReadHeadInv ==
  ASSUME PoolIInv, NEW t \in Appenders, ReadHead(t)
  PROVE  PoolIInv'
<1> USE DEF PoolIInv, PoolTypeOK
<1>1. head % Width \in 0..(Width - 1)
  BY PoolAssumption
<1>2. /\ appends' = [appends EXCEPT ![t] = [at |-> "tail", head |-> head % Width]]
      /\ popsSince' = [popsSince EXCEPT ![t] = 0]
      /\ UNCHANGED <<head, tail>>
  BY DEF ReadHead
<1>3. PoolTypeOK'
  BY <1>1, <1>2 DEF AppendStep
<1>4. SeenHead(t)' = head /\ \A u \in Appenders \ {t} : SeenHead(u)' = SeenHead(u)
  BY <1>2 DEF SeenHead
<1> QED BY <1>2, <1>3, <1>4 DEF NullOnlyAfterManyPops

LEMMA ReadTailInv ==
  ASSUME PoolIInv, NEW t \in Appenders, ReadTail(t)
  PROVE  PoolIInv'
<1> USE DEF PoolIInv, PoolTypeOK
<1>1. EnoughFree(appends[t].head, tail % Width) => tail - SeenHead(t) >= MinFreeEntries
  <2>1. SeenHead(t) \in Nat /\ SeenHead(t) <= tail /\ appends[t].head = SeenHead(t) % Width
    BY DEF ReadTail, SeenHead
  <2> HIDE DEF SeenHead
  <2> QED BY <2>1, EnoughFreeMeans
<1>2. PICK step \in {"pop", "outside"} :
        /\ appends' = [appends EXCEPT ![t].at = step]
        /\ step = "pop" => tail - SeenHead(t) >= MinFreeEntries
  BY <1>1 DEF ReadTail
<1>3. UNCHANGED <<head, tail, popsSince>> /\ appends[t].at = "tail"
  BY DEF ReadTail
<1>4. PoolTypeOK'
  BY <1>2, <1>3 DEF AppendStep
<1>5. \A u \in Appenders : SeenHead(u)' = SeenHead(u)
  BY <1>3 DEF SeenHead
<1>6. \A u \in Appenders : appends'[u].head = appends[u].head
                           /\ (u # t => appends'[u].at = appends[u].at)
  BY <1>2
<1> QED BY <1>2, <1>3, <1>4, <1>5, <1>6 DEF NullOnlyAfterManyPops

LEMMA AppendVirtualInv ==
  ASSUME PoolIInv, NEW t \in Appenders, AppendVirtual(t)
  PROVE  PoolIInv'
<1> USE DEF PoolIInv, PoolTypeOK
<1>1. CASE head = tail
  <2>1. appends' = [appends EXCEPT ![t].at = "null"] /\ UNCHANGED <<head, tail, popsSince>>
    BY <1>1 DEF AppendVirtual
  <2>2. appends[t].at = "pop" /\ popsSince[t] >= MinFreeEntries
    BY <1>1, PoolAssumption DEF AppendVirtual, SeenHead
  <2>3. \A u \in Appenders : SeenHead(u)' = SeenHead(u) /\ appends'[u].head = appends[u].head
                             /\ (u # t => appends'[u].at = appends[u].at)
    BY <2>1 DEF SeenHead
  <2>4. PoolTypeOK'
    BY <2>1 DEF AppendStep
  <2> QED BY <2>1, <2>2, <2>3, <2>4 DEF NullOnlyAfterManyPops
<1>2. CASE head # tail
  <2>1. /\ appends' = [appends EXCEPT ![t].at = "outside"]
        /\ head' = head + 1 /\ tail' = tail
        /\ popsSince' = [u \in Appenders |-> popsSince[u] + 1]
    BY <1>2 DEF AppendVirtual
  <2>2. \A u \in Appenders : SeenHead(u)' = SeenHead(u) /\ appends'[u].head = appends[u].head
                             /\ (u # t => appends'[u].at = appends[u].at)
    BY <2>1 DEF SeenHead
  <2>3. PoolTypeOK'
    <3> HIDE DEF PoolIInv, PoolTypeOK
    <3>4. /\ head \in Nat /\ tail \in Nat /\ PoolSize \in Nat
          /\ head <= tail /\ tail <= head + PoolSize
      BY PoolAssumption DEF PoolIInv, PoolTypeOK
    <3>1. head' \in Nat /\ tail' \in Nat /\ head' <= tail' /\ tail' <= head' + PoolSize
      BY <2>1, <1>2, <3>4
    <3> USE DEF PoolIInv, PoolTypeOK
    <3>2. appends' \in [Appenders -> [at : AppendStep, head : 0..(Width - 1)]]
      BY <2>1 DEF AppendStep
    <3>3. popsSince' \in [Appenders -> Nat]
      BY <2>1
    <3> QED BY <3>1, <3>2, <3>3
  <2>4. \A u \in Appenders : popsSince'[u] >= popsSince[u]
    BY <2>1
  <2>5. MinFreeEntries \in Nat
    BY PoolAssumption
  <2>6. appends'[t].at = "outside"
    BY <2>1
  <2>7. NullOnlyAfterManyPops'
    BY <2>1, <2>2, <2>4, <2>5, <2>6 DEF NullOnlyAfterManyPops
  <2> QED BY <2>1, <2>2, <2>3, <2>6, <2>7
<1> QED BY <1>1, <1>2

LEMMA PoolNextInv == PoolIInv /\ [PoolNext]_poolVars => PoolIInv'
<1> SUFFICES ASSUME PoolIInv, [PoolNext]_poolVars
             PROVE  PoolIInv'
  OBVIOUS
<1>1. CASE ReturnEntry
  BY <1>1, PoolAssumption DEF ReturnEntry, PoolIInv, PoolTypeOK, SeenHead, NullOnlyAfterManyPops
<1>2. CASE UNCHANGED poolVars
  BY <1>2 DEF poolVars, PoolIInv, PoolTypeOK, SeenHead, NullOnlyAfterManyPops
<1> QED BY <1>1, <1>2, ReadHeadInv, ReadTailInv, AppendVirtualInv DEF PoolNext

\* AppendVirtualGuarded: for every margin, pool and number of threads, and counters of
\* every width, a guarded append meets an empty pool only if at least kMinFreeEntries
\* entries were popped since it read the head.
THEOREM PoolMargin == PoolSpec => []NullOnlyAfterManyPops
<1>1. PoolIInv => NullOnlyAfterManyPops
  BY DEF PoolIInv
<1> QED BY PoolInitInv, PoolNextInv, <1>1, PTL DEF PoolSpec
-----------------------------------------------------------------------------
(* ActorValueClear.                                                        *)

\* The lock belongs to whoever is inside.
LockHeld == \A t \in AvThreads : avCalls[t].at \notin {"outside", "lateReset"} => avLock = t

\* A map whose clearing is patched is torn only while a clearing is about to reset it.
TornWhileClearing ==
  \A m \in AvMap : ClearSite(m) \in sites /\ Torn(avMap[m]) =>
    \E t \in AvThreads : At(t, "reset") /\ avCalls[t].map = m

\* Behind a patched SetBaseValue's test the base values are whole.
Checked ==
  \A t \in AvThreads :
    At(t, "write") /\ avCalls[t].map = "base" /\ "SetBaseValue" \in sites => ~Torn(avMap["base"])

WildOnlyUnpatched ==
  /\ "base" \in wildWrites => sites \cap {"ClearBaseValues", "SetBaseValue"} = {}
  /\ "modifiers" \in wildWrites => "wrapper" \notin sites

AvIInv == AvTypeOK /\ LockHeld /\ TornWhileClearing /\ Checked /\ WildOnlyUnpatched

LEMMA AvInitInv == AvInit => AvIInv
  BY DEF AvInit, AvStart, AvIInv, AvTypeOK, LockHeld, TornWhileClearing, Checked,
         WildOnlyUnpatched, AvStep, AvMap, Torn, At

\* A step that touches no map keeps everything but the threads' positions.
LEMMA SameMapsInv ==
  ASSUME AvIInv, NEW t \in AvThreads, NEW step \in AvStep, NEW m \in AvMap,
         avCalls' \in [AvThreads -> [at : AvStep, map : AvMap]],
         avCalls'[t].at = step, avCalls'[t].map = m,
         \A u \in AvThreads : u # t => avCalls'[u] = avCalls[u],
         UNCHANGED <<sites, avMap, wildWrites>>,
         ~At(t, "reset"),
         avLock' \in AvThreads \cup {"free"}, LockHeld',
         step = "write" /\ m = "base" /\ "SetBaseValue" \in sites => ~Torn(avMap["base"])
  PROVE  AvIInv'
<1>1. AvTypeOK'
  BY DEF AvIInv, AvTypeOK
<1>2. TornWhileClearing'
  BY DEF AvIInv, TornWhileClearing, At
<1>3. Checked'
  BY DEF AvIInv, Checked, At
<1> QED BY <1>1, <1>2, <1>3 DEF AvIInv, WildOnlyUnpatched

LEMMA EnterInv ==
  ASSUME AvIInv, NEW t \in AvThreads, NEW m \in AvMap, NEW step \in {"clear", "set"},
         Enter(t, m, step)
  PROVE  AvIInv'
<1>1. LockHeld'
  BY AvAssumption DEF Enter, AvIInv, AvTypeOK, LockHeld
<1>2. step \in AvStep /\ ~At(t, "reset")
  BY DEF Enter, At, AvStep
<1>3. /\ avCalls' \in [AvThreads -> [at : AvStep, map : AvMap]]
      /\ avCalls'[t].at = step /\ avCalls'[t].map = m
      /\ \A u \in AvThreads : u # t => avCalls'[u] = avCalls[u]
      /\ step # "write" /\ avLock' \in AvThreads \cup {"free"}
      /\ UNCHANGED <<sites, avMap, wildWrites>>
  BY <1>2 DEF Enter, AvIInv, AvTypeOK
<1> QED BY <1>1, <1>2, <1>3, SameMapsInv

LEMMA FreeEntriesInv ==
  ASSUME AvIInv, NEW t \in AvThreads, FreeEntries(t)
  PROVE  AvIInv'
<1> PICK m \in AvMap : avCalls[t].map = m
  BY DEF AvIInv, AvTypeOK
<1> PICK step \in {"reset", "lateReset"} :
      /\ avCalls' = [avCalls EXCEPT ![t].at = step]
      /\ step = "reset" <=> ClearSite(m) \in sites
      /\ avLock' = IF step = "reset" THEN avLock ELSE "free"
  BY DEF FreeEntries, GoTo
<1>1. /\ avMap' = [avMap EXCEPT ![m].entries = FALSE]
      /\ UNCHANGED <<sites, wildWrites>> /\ avLock = t
  BY DEF FreeEntries, At, AvIInv, LockHeld
<1>2. AvTypeOK'
  BY <1>1 DEF AvIInv, AvTypeOK, AvStep
<1>3. \A u \in AvThreads : u # t => avCalls'[u] = avCalls[u] /\ avCalls[u].at \in {"outside", "lateReset"}
  BY <1>1 DEF AvIInv, AvTypeOK, LockHeld
<1>4. avCalls'[t].at = step /\ avCalls'[t].map = m
  BY DEF AvIInv, AvTypeOK
<1>5. LockHeld'
  BY <1>1, <1>3, <1>4 DEF LockHeld
<1>6. TornWhileClearing'
  <2>1. ASSUME NEW n \in AvMap, n # m PROVE avMap'[n] = avMap[n]
    BY <1>1, <2>1 DEF AvIInv, AvTypeOK
  <2> QED BY <1>1, <1>3, <1>4, <2>1 DEF AvIInv, TornWhileClearing, At, FreeEntries
<1>7. Checked'
  BY <1>3, <1>4 DEF Checked, At
<1> QED BY <1>1, <1>2, <1>5, <1>6, <1>7 DEF AvIInv, WildOnlyUnpatched

\* Either reset leaves the map whole.
LEMMA ResetInv ==
  ASSUME AvIInv, NEW t \in AvThreads, ResetBeforeUnlock(t) \/ ResetAfterUnlock(t)
  PROVE  AvIInv'
<1> PICK m \in AvMap : avCalls[t].map = m
  BY DEF AvIInv, AvTypeOK
<1> PICK step \in {"unlock", "outside"} :
      /\ avCalls' = [avCalls EXCEPT ![t].at = step]
      /\ step = "unlock" => At(t, "reset")
  BY DEF ResetBeforeUnlock, ResetAfterUnlock, GoTo
<1>1. avMap' = [avMap EXCEPT ![m].keys = FALSE] /\ UNCHANGED <<sites, avLock, wildWrites>>
  BY DEF ResetBeforeUnlock, ResetAfterUnlock
<1>2. AvTypeOK'
  BY <1>1 DEF AvIInv, AvTypeOK, AvStep
<1>3. \A u \in AvThreads : u # t => avCalls'[u] = avCalls[u]
  BY DEF AvIInv, AvTypeOK
<1>4. avCalls'[t].at = step /\ avCalls'[t].map = m
  BY DEF AvIInv, AvTypeOK
<1>5. LockHeld'
  BY <1>1, <1>3, <1>4 DEF AvIInv, LockHeld, At
<1>6. ~Torn(avMap'[m]) /\ \A n \in AvMap : n # m => avMap'[n] = avMap[n]
  BY <1>1 DEF AvIInv, AvTypeOK, Torn
<1>7. TornWhileClearing'
  <2> SUFFICES ASSUME NEW n \in AvMap, ClearSite(n) \in sites, Torn(avMap'[n])
               PROVE  \E u \in AvThreads : At(u, "reset")' /\ avCalls'[u].map = n
    BY <1>1 DEF TornWhileClearing
  <2>1. n # m /\ Torn(avMap[n])
    BY <1>6
  <2>2. PICK u \in AvThreads : At(u, "reset") /\ avCalls[u].map = n
    BY <2>1 DEF AvIInv, TornWhileClearing
  <2> QED BY <2>1, <2>2, <1>3 DEF At
<1>8. Checked'
  <2>1. Torn(avMap'["base"]) => Torn(avMap["base"])
    BY <1>6 DEF AvMap
  <2> QED BY <1>1, <1>3, <1>4, <2>1 DEF AvIInv, Checked, At
<1> QED BY <1>1, <1>2, <1>5, <1>7, <1>8 DEF AvIInv, WildOnlyUnpatched

LEMMA CheckEntriesInv ==
  ASSUME AvIInv, NEW t \in AvThreads, CheckEntries(t)
  PROVE  AvIInv'
<1> PICK m \in AvMap : avCalls[t].map = m
  BY DEF AvIInv, AvTypeOK
<1> PICK step \in {"bail", "write"} :
      /\ avCalls' = [avCalls EXCEPT ![t].at = step]
      /\ step = "write" /\ m = "base" /\ "SetBaseValue" \in sites => ~Torn(avMap["base"])
  BY DEF CheckEntries, GoTo
<1>1. /\ step \in AvStep
      /\ avCalls' \in [AvThreads -> [at : AvStep, map : AvMap]]
      /\ avCalls'[t].at = step /\ avCalls'[t].map = m
      /\ \A u \in AvThreads : u # t => avCalls'[u] = avCalls[u]
  BY DEF AvIInv, AvTypeOK, AvStep
<1>2. LockHeld' /\ avLock' \in AvThreads \cup {"free"} /\ ~At(t, "reset")
  BY <1>1 DEF CheckEntries, AvIInv, AvTypeOK, LockHeld, At
<1> QED BY <1>1, <1>2, SameMapsInv DEF CheckEntries

LEMMA UnlockInv ==
  ASSUME AvIInv, NEW t \in AvThreads, Unlock(t)
  PROVE  AvIInv'
<1> PICK m \in AvMap : avCalls[t].map = m
  BY DEF AvIInv, AvTypeOK
<1>1. /\ "outside" \in AvStep
      /\ avCalls' \in [AvThreads -> [at : AvStep, map : AvMap]]
      /\ avCalls'[t].at = "outside" /\ avCalls'[t].map = m
      /\ \A u \in AvThreads : u # t => avCalls'[u] = avCalls[u]
  BY DEF AvIInv, AvTypeOK, AvStep, Unlock, GoTo
<1>2. LockHeld' /\ avLock' \in AvThreads \cup {"free"} /\ ~At(t, "reset")
  BY <1>1 DEF Unlock, AvIInv, AvTypeOK, LockHeld, At
<1> QED BY <1>1, <1>2, SameMapsInv DEF Unlock

LEMMA WriteValueInv ==
  ASSUME AvIInv, NEW t \in AvThreads, WriteValue(t)
  PROVE  AvIInv'
<1> PICK m \in AvMap : avCalls[t].map = m
  BY DEF AvIInv, AvTypeOK
<1>1. /\ avMap' = [avMap EXCEPT ![m] = [keys |-> TRUE, entries |-> TRUE]]
      /\ wildWrites' = IF Torn(avMap[m]) THEN wildWrites \cup {m} ELSE wildWrites
      /\ avCalls' = [avCalls EXCEPT ![t].at = "unlock"]
      /\ UNCHANGED <<sites, avLock>> /\ At(t, "write") /\ avLock = t
  BY DEF WriteValue, GoTo, At, AvIInv, LockHeld
<1>2. AvTypeOK'
  BY <1>1 DEF AvIInv, AvTypeOK, AvStep
<1>3. \A u \in AvThreads : u # t => avCalls'[u] = avCalls[u] /\ avCalls[u].at \in {"outside", "lateReset"}
  BY <1>1 DEF AvIInv, AvTypeOK, LockHeld
<1>4. avCalls'[t].at = "unlock"
  BY <1>1 DEF AvIInv, AvTypeOK
<1>5. \A n \in AvMap : ClearSite(n) \in sites => ~Torn(avMap[n])
  BY <1>1, <1>3 DEF AvIInv, TornWhileClearing, At
<1>6. ~Torn(avMap'[m]) /\ \A n \in AvMap : n # m => avMap'[n] = avMap[n]
  BY <1>1 DEF AvIInv, AvTypeOK, Torn
<1>7. LockHeld' /\ TornWhileClearing' /\ Checked'
  BY <1>1, <1>3, <1>4, <1>5, <1>6 DEF LockHeld, TornWhileClearing, Checked, At
<1>8. WildOnlyUnpatched'
  BY <1>1, <1>5 DEF AvIInv, WildOnlyUnpatched, Checked, AvMap, ClearSite
<1> QED BY <1>2, <1>7, <1>8 DEF AvIInv

LEMMA AvNextInv == AvIInv /\ [AvNext]_avVars => AvIInv'
<1> SUFFICES ASSUME AvIInv, [AvNext]_avVars
             PROVE  AvIInv'
  OBVIOUS
<1>1. CASE UNCHANGED avVars
  BY <1>1 DEF avVars, AvIInv, AvTypeOK, LockHeld, TornWhileClearing, Checked, WildOnlyUnpatched, At
<1> QED BY <1>1, EnterInv, FreeEntriesInv, ResetInv, CheckEntriesInv, UnlockInv, WriteValueInv DEF AvNext

\* ResetBeforeUnlockPatch and NullEntriesGuardPatch: for any number of threads and any
\* subset of the sites in place, no value is written through freed entries that a
\* patch in place guards.
THEOREM ActorValuesSafe == AvSpec => []NoWriteThroughFreedEntries
<1>1. AvIInv => NoWriteThroughFreedEntries
  <2> SUFFICES ASSUME AvIInv PROVE NoWriteThroughFreedEntries
    OBVIOUS
  <2>1. ASSUME NEW m \in AvMap, ClearSite(m) \in sites, avLock = "free" PROVE ~Torn(avMap[m])
    BY <2>1, AvAssumption DEF AvIInv, TornWhileClearing, LockHeld, At
  <2> QED BY <2>1 DEF AvIInv, WildOnlyUnpatched, NoWriteThroughFreedEntries
<1> QED BY AvInitInv, AvNextInv, <1>1, PTL DEF AvSpec
-----------------------------------------------------------------------------
(* JobListLock.                                                            *)

JobTypeOK ==
  /\ hooks \subseteq Function
  /\ lockOwner \in JobThreads \cup {"free"} /\ lockDepth \in Int
  /\ jobCalls \in [JobThreads -> Seq(Function)]
  /\ jobStep \in [JobThreads -> JobStep]
  /\ jobList \subseteq JobThreads

\* With both functions hooked the mutex counts its owner's calls, and nobody else is inside.
OwnerAlone ==
  /\ \A t \in JobThreads : lockOwner = t => lockDepth = Len(jobCalls[t]) /\ lockDepth > 0
  /\ \A t \in JobThreads : lockOwner # t => jobCalls[t] = <<>>
  /\ lockOwner = "free" => lockDepth = 0

\* A batch is in the list exactly while its thread waits for it.
ListIsOwners ==
  /\ BatchAloneInList
  /\ (\A t \in JobThreads : ~Inside(t, "submitted")) => jobList = {}

JobIInv == JobTypeOK /\ (registered => hooks = Function /\ OwnerAlone /\ ListIsOwners)

LEMMA JobInitInv == JobListInit => JobIInv
<1> SUFFICES ASSUME JobListInit PROVE JobIInv
  OBVIOUS
<1> USE DEF JobListInit, JobListStart
<1>1. JobTypeOK
  BY DEF JobTypeOK, JobStep
<1>2. OwnerAlone
  BY JobListAssumption DEF OwnerAlone
<1>3. ListIsOwners
  BY DEF ListIsOwners, BatchAloneInList, Inside
<1> QED BY <1>1, <1>2, <1>3 DEF JobIInv

LEMMA CallInv ==
  ASSUME JobIInv, NEW t \in JobThreads, NEW fn \in Function, Call(t, fn)
  PROVE  JobIInv'
<1>1. <<fn>> \o jobCalls[t] \in Seq(Function) /\ Len(<<fn>> \o jobCalls[t]) = Len(jobCalls[t]) + 1
  BY DEF JobIInv, JobTypeOK
<1>2. /\ jobCalls'[t] = <<fn>> \o jobCalls[t]
      /\ \A u \in JobThreads : u # t => jobCalls'[u] = jobCalls[u]
      /\ jobStep' = jobStep /\ jobStep[t] = "begun"
  BY DEF JobIInv, JobTypeOK, Call
<1>3. JobTypeOK'
  <2>1. jobCalls' \in [JobThreads -> Seq(Function)]
    BY <1>1 DEF JobIInv, JobTypeOK, Call
  <2> QED BY <2>1 DEF JobIInv, JobTypeOK, Call, Acquire
<1>4. ASSUME registered PROVE OwnerAlone' /\ ListIsOwners' /\ hooks' = Function
  <2>1. Acquire(t) /\ hooks' = Function
    BY <1>4 DEF Call, JobIInv
  <2>2. lockDepth' = Len(jobCalls'[t]) /\ lockDepth' > 0
    <3>1. lockDepth = Len(jobCalls[t]) /\ Len(jobCalls[t]) \in Nat
      <4>1. CASE lockOwner = t
        BY <1>4, <4>1 DEF JobIInv, JobTypeOK, OwnerAlone
      <4>2. CASE lockOwner = "free"
        BY <1>4, <4>2, <2>1, JobListAssumption DEF JobIInv, JobTypeOK, OwnerAlone
      <4> QED BY <2>1, <4>1, <4>2 DEF Acquire
    <3> QED BY <3>1, <1>1, <1>2, <2>1 DEF Acquire
  <2>3. \A u \in JobThreads : u # t => jobCalls[u] = <<>>
    BY <1>4, <2>1, JobListAssumption DEF Acquire, JobIInv, OwnerAlone
  <2>4. OwnerAlone'
    BY <2>1, <2>2, <2>3, <1>2, JobListAssumption DEF OwnerAlone, Acquire
  <2>5. ListIsOwners'
    BY <1>2, <1>4, <2>3 DEF ListIsOwners, BatchAloneInList, Inside, JobIInv, Call
  <2> QED BY <2>1, <2>4, <2>5
<1> QED BY <1>3, <1>4 DEF JobIInv, Call

\* The owner is the only thread inside, so only its batch can be in the list.
LEMMA Alone ==
  ASSUME JobIInv, registered, NEW t \in JobThreads, NEW step, Inside(t, step)
  PROVE  /\ lockOwner = t /\ lockDepth = Len(jobCalls[t])
         /\ \A u \in JobThreads : u # t => jobCalls[u] = <<>>
  BY DEF JobIInv, OwnerAlone, Inside

LEMMA SubmitInv ==
  ASSUME JobIInv, NEW t \in JobThreads, Submit(t)
  PROVE  JobIInv'
<1>1. JobTypeOK'
  BY DEF JobIInv, JobTypeOK, Submit, Proceed, JobStep
<1>2. ASSUME registered PROVE OwnerAlone' /\ ListIsOwners'
  <2>1. \A u \in JobThreads : u # t => jobCalls[u] = <<>>
    BY <1>2, Alone DEF Submit
  <2>2. ~Inside(t, "submitted")
    BY DEF Submit, Inside
  <2>3. jobList = {}
    BY <2>1, <2>2, <1>2 DEF JobIInv, ListIsOwners, Inside
  <2>4. jobStep'[t] = "submitted" /\ jobList' = {t} /\ jobCalls' = jobCalls
    BY <2>3 DEF Submit, Proceed, JobIInv, JobTypeOK
  <2>5. Inside(t, "submitted")'
    BY <2>4 DEF Inside, Submit
  <2>6. ListIsOwners'
    BY <2>1, <2>4, <2>5 DEF ListIsOwners, BatchAloneInList, Inside
  <2> QED BY <1>2, <2>6 DEF JobIInv, OwnerAlone, Submit, Proceed
<1> QED BY <1>1, <1>2 DEF JobIInv, Submit, Proceed

LEMMA ClearListInv ==
  ASSUME JobIInv, NEW t \in JobThreads, ClearList(t)
  PROVE  JobIInv'
<1>1. JobTypeOK'
  BY DEF JobIInv, JobTypeOK, ClearList, Proceed, JobStep
<1>2. ASSUME registered PROVE OwnerAlone' /\ ListIsOwners'
  <2>1. \A u \in JobThreads : u # t => jobCalls[u] = <<>>
    BY <1>2, Alone DEF ClearList
  <2>2. jobStep'[t] = "cleared" /\ jobList' = {} /\ jobCalls' = jobCalls
    BY DEF ClearList, Proceed, JobIInv, JobTypeOK
  <2>3. ListIsOwners'
    BY <2>1, <2>2 DEF ListIsOwners, BatchAloneInList, Inside
  <2> QED BY <1>2, <2>3 DEF JobIInv, OwnerAlone, ClearList, Proceed
<1> QED BY <1>1, <1>2 DEF JobIInv, ClearList, Proceed

LEMMA ReturnInv ==
  ASSUME JobIInv, NEW t \in JobThreads, Return(t)
  PROVE  JobIInv'
<1>1. /\ jobCalls[t] \in Seq(Function) /\ jobCalls[t] # <<>>
      /\ Head(jobCalls[t]) \in Function /\ Tail(jobCalls[t]) \in Seq(Function)
      /\ Len(Tail(jobCalls[t])) = Len(jobCalls[t]) - 1 /\ Len(jobCalls[t]) \in Nat \ {0}
  BY HeadTailProperties, EmptySeq DEF JobIInv, JobTypeOK, Return, Inside
<1>2. /\ jobCalls'[t] = Tail(jobCalls[t]) /\ jobStep'[t] = "begun"
      /\ \A u \in JobThreads : u # t => jobCalls'[u] = jobCalls[u] /\ jobStep'[u] = jobStep[u]
      /\ jobList' = jobList
  BY DEF Return, JobIInv, JobTypeOK
<1>3. jobCalls' \in [JobThreads -> Seq(Function)] /\ jobStep' \in [JobThreads -> JobStep]
  BY <1>1 DEF Return, JobIInv, JobTypeOK, JobStep
<1>4. lockDepth' \in Int /\ lockOwner' \in JobThreads \cup {"free"}
  BY DEF Return, JobIInv, JobTypeOK, Release
<1>5. JobTypeOK'
  BY <1>3, <1>4 DEF JobIInv, JobTypeOK, Return
<1>6. ASSUME registered PROVE OwnerAlone' /\ ListIsOwners'
  <2>1. /\ lockOwner = t /\ lockDepth = Len(jobCalls[t])
        /\ \A u \in JobThreads : u # t => jobCalls[u] = <<>>
    BY <1>6, Alone DEF Return
  <2>2. Release(t)
    BY <1>1, <1>6 DEF Return, JobIInv
  <2>3. Len(Tail(jobCalls[t])) = 0 => Tail(jobCalls[t]) = <<>>
    BY ONLY <1>1, EmptySeq
  <2>4. OwnerAlone'
    <3>1. \A u \in JobThreads : u # t => jobCalls'[u] = <<>>
      BY <1>2, <2>1
    <3>2. lockDepth = Len(jobCalls'[t]) + 1 /\ Len(jobCalls'[t]) \in Nat
      BY <1>1, <1>2, <2>1
    <3>3. CASE lockDepth = 1
      <4>1. lockOwner' = "free" /\ lockDepth' = 0
        BY <3>3, <2>2 DEF Release
      <4>2. Len(Tail(jobCalls[t])) = 0 /\ jobCalls'[t] = Tail(jobCalls[t])
        BY <3>2, <3>3, <1>2
      <4>3. jobCalls'[t] = <<>>
        BY <4>2, <2>3
      <4> QED BY <3>1, <4>1, <4>3, JobListAssumption DEF OwnerAlone
    <3>4. CASE lockDepth # 1
      <4>1. lockOwner' = t /\ lockDepth' = lockDepth - 1
        BY <3>4, <2>2 DEF Release
      <4>2. lockDepth' = Len(jobCalls'[t]) /\ lockDepth' > 0
        BY <3>2, <3>4, <4>1
      <4> QED BY <3>1, <4>1, <4>2, JobListAssumption DEF OwnerAlone
    <3> QED BY <3>3, <3>4
  <2>5. ~Inside(t, "submitted")
    BY DEF Return, Inside
  <2>6. jobList = {}
    BY <2>1, <2>5, <1>6 DEF JobIInv, ListIsOwners, Inside
  <2>7. ListIsOwners'
    BY <1>2, <2>1, <2>6 DEF ListIsOwners, BatchAloneInList, Inside
  <2> QED BY <2>4, <2>7
<1> QED BY <1>5, <1>6 DEF JobIInv, Return

LEMMA JobNextInv == JobIInv /\ [JobListNext]_jobVars => JobIInv'
<1> SUFFICES ASSUME JobIInv, [JobListNext]_jobVars
             PROVE  JobIInv'
  OBVIOUS
<1>1. CASE UNCHANGED jobVars
  BY <1>1 DEF jobVars, JobIInv, JobTypeOK, OwnerAlone, ListIsOwners, BatchAloneInList, Inside
<1> QED BY <1>1, CallInv, SubmitInv, ClearListInv, ReturnInv DEF JobListNext

\* UpdateNonHighActors, JobTesAnimation: for any number of threads and any depth of
\* nesting, the fix installed keeps every batch alone in the list until it is cleared.
THEOREM JobListSafe == JobListSpec => []BatchAloneInList
<1>1. JobIInv => BatchAloneInList
  BY DEF JobIInv, ListIsOwners, BatchAloneInList
<1> QED BY JobInitInv, JobNextInv, <1>1, PTL DEF JobListSpec
-----------------------------------------------------------------------------
(* SaveScreenshots.                                                        *)

\* The request a frame began with and the number the hooks test differ only by what
\* ScreenshotRender_Code takes back; the saved register is the engine's while the
\* target is replaced.
ShotIInv ==
  /\ screenshot_requested_location \in {0, 1, 2} /\ requestAtStart \in {0, 1, 2}
  /\ engineTarget \in Targets
  /\ frameAt = "jnz" => requestAtStart = screenshot_requested_location
  /\ frameAt \in {"hook1", "target", "hook2"} =>
       screenshot_requested_location = IF requestAtStart = 1 THEN 0 ELSE requestAtStart
  /\ frameAt # "hook2" => targetRegister = engineTarget
  /\ frameAt = "hook2" =>
       IF requestAtStart = 2 THEN targetRegister = SavedTarget /\ saved_register = engineTarget
       ELSE targetRegister = engineTarget
  /\ frameAt = "rest" => screenshot_requested_location = 0
  /\ frameAt = "skipped" => requestAtStart # 1 \/ screenshot_requested_location = 0

LEMMA ShotInitInv == ScreenshotInit => ShotIInv
BY DEF ScreenshotInit, ScreenshotStart, ShotIInv

LEMMA ShotNextInv == ShotIInv /\ [ScreenshotNext]_screenshotVars => ShotIInv'
<1> SUFFICES ASSUME ShotIInv, [ScreenshotNext]_screenshotVars
             PROVE  ShotIInv'
  OBVIOUS
<1> USE DEF ShotIInv
<1>1. CASE ProcessEventsRequest
  BY <1>1 DEF ProcessEventsRequest
<1>2. CASE MenuRequest
  BY <1>2 DEF MenuRequest
<1>3. CASE BeginFrame
  BY <1>3 DEF BeginFrame
<1>4. CASE ScreenshotJnz
  BY <1>4 DEF ScreenshotJnz
<1>5. CASE EngineToHook1
  BY <1>5 DEF EngineToHook1
<1>6. CASE RenderTargetHook_1
  BY <1>6 DEF RenderTargetHook_1
<1>7. CASE RenderTargetHook_2
  BY <1>7 DEF RenderTargetHook_2
<1>8. CASE EndFrame
  BY <1>8 DEF EndFrame
<1>9. CASE UNCHANGED screenshotVars
  BY <1>9 DEF screenshotVars
<1> QED BY <1>1, <1>2, <1>3, <1>4, <1>5, <1>6, <1>7, <1>8, <1>9 DEF ScreenshotNext

\* RenderTargetHook_2_Code: for any render targets of the engine, any order of requests
\* and frames, the register is put back just in the frames that replaced it.
THEOREM RenderTargetRestored == ScreenshotSpec => []TargetRestored
<1>1. ShotIInv => TargetRestored
  BY ScreenshotAssumption DEF ShotIInv, TargetRestored
<1> QED BY ShotInitInv, ShotNextInv, <1>1, PTL DEF ScreenshotSpec
-----------------------------------------------------------------------------
(* FreedObjectGuards.                                                      *)

ThunkStep == {"enter", "load", "check", "slot", "checkSlot", "dispatch", "used", "invalid"}

\* What a guard's tests have established once the thunk has passed them.  The margin
\* some thunks take off the end of the image is just the reach of their slot.
GuardIInv ==
  /\ guard \in AllGuards /\ image \in Layouts /\ thunkAt \in ThunkStep
  /\ word \in Nat /\ loaded \in Nat
  /\ object = "null" => guard.null /\ thunkAt \in {"enter", "invalid"}
  /\ object \in {"live", "null"}
  /\ thunkAt \in {"slot", "checkSlot", "dispatch"} => Accepts(loaded)
  /\ thunkAt \in {"slot", "checkSlot"} => guard.slotGuard
  /\ thunkAt = "dispatch" /\ guard.slotGuard => LoadedSlotGuard(target)
  /\ ~disturbed /\ object = "live" => word \in LiveWords(guard, image)
  /\ ~disturbed /\ thunkAt \in {"check", "slot", "checkSlot", "dispatch"} => loaded = word
  /\ ~disturbed /\ thunkAt = "checkSlot" /\ object = "live" => LoadedSlotGuard(target)
  /\ UsesVouchedWord /\ LiveObjectsDispatched

Tests == {"image", "aligned", "canonical", "plausible", "mapped", "nonNull"}

\* The thunks' parameters: only image guards have a margin, of slot + 7 bytes.
LEMMA GuardShape ==
  ASSUME NEW g \in AllGuards
  PROVE  /\ g.slot \in Nat /\ g.margin \in Nat
         /\ g.margin > 0 => g.margin = g.slot + 7
         /\ g.accepts \in Tests
         /\ g.slotGuard => g.accepts = "image"
<1> DEFINE Shape(h) == /\ h.slot \in Nat /\ h.margin \in Nat
                       /\ h.margin > 0 => h.margin = h.slot + 7
                       /\ h.accepts \in Tests
                       /\ h.slotGuard => h.accepts = "image"
<1> USE DEF Calls, NullTested, SlotTested, WithMargin, ResumesWithRax, ResumesAndReloads, Pointer, Tests
<1>1. Shape(VisitPatch) /\ Shape(ChildPatch) /\ Shape(RecursiveNodePatchRdx) /\ Shape(RecursiveNodePatchRdi)
  BY DEF VisitPatch, ChildPatch, RecursiveNodePatchRdx, RecursiveNodePatchRdi
<1>2. Shape(MultiBoundHelperPatch) /\ Shape(MultiBoundCallerPatch) /\ Shape(ObjectLODVisitorPatch)
  BY DEF MultiBoundHelperPatch, MultiBoundCallerPatch, ObjectLODVisitorPatch
<1>3. Shape(NiNodeCloneChildPatch) /\ Shape(NiNodeProcessCloneChildPatch) /\ Shape(ObjectLODPropertyPatch)
  BY DEF NiNodeCloneChildPatch, NiNodeProcessCloneChildPatch, ObjectLODPropertyPatch
<1>4. /\ Shape(LightAttachSubtreeAsNodePatch) /\ Shape(LightAttachSubtreeFallbackPatch)
      /\ Shape(VisitCollisionArrayPatch) /\ Shape(ReleaseBufferPatch)
  BY DEF LightAttachSubtreeAsNodePatch, LightAttachSubtreeFallbackPatch, VisitCollisionArrayPatch,
    ReleaseBufferPatch
<1>5. Shape(PatchTechnique) /\ Shape(PatchMaterial) /\ Shape(PatchRestore)
  BY DEF PatchTechnique, PatchMaterial, PatchRestore
<1>6. /\ Shape(ApplyPassPatch) /\ Shape(ReadPassPatch) /\ Shape(SubIndexPatch)
      /\ Shape(TaskPoolPatch) /\ Shape(GetCombatGroup)
  BY DEF ApplyPassPatch, ReadPassPatch, SubIndexPatch, TaskPoolPatch, GetCombatGroup
<1>7. \A h \in ObjectLODReaderDispatchPatch \cup CullingPatch : Shape(h)
  BY DEF ObjectLODReaderDispatchPatch, CullingPatch
<1> HIDE DEF Shape
<1>8. Shape(g)
  BY ONLY g \in AllGuards, <1>1, <1>2, <1>3, <1>4, <1>5, <1>6, <1>7 DEF AllGuards
<1> QED BY <1>8 DEF Shape

\* The tests, one by one.
LEMMA AcceptsMeans ==
  ASSUME NEW w
  PROVE  /\ guard.accepts = "image" => (Accepts(w) <=> ModuleRangeCheck(w, guard.margin))
         /\ guard.accepts = "plausible" => (Accepts(w) <=> w > MinPointer)
         /\ guard.accepts = "mapped" => (Accepts(w) <=> w >= MinPointer)
         /\ guard.accepts = "canonical" => (Accepts(w) <=> w # 0 /\ w < HighEnd)
         /\ guard.accepts = "nonNull" => (Accepts(w) <=> w # 0)
         /\ guard.accepts = "aligned" => (Accepts(w) <=> w # 0 /\ w % 8 = 0)
<1>1. guard.accepts = "image" => (Accepts(w) <=> ModuleRangeCheck(w, guard.margin))
  BY DEF Accepts
<1>2. guard.accepts = "plausible" => (Accepts(w) <=> w > MinPointer)
  BY DEF Accepts
<1>3. guard.accepts = "mapped" => (Accepts(w) <=> w >= MinPointer)
  BY DEF Accepts
<1>4. guard.accepts = "canonical" => (Accepts(w) <=> w # 0 /\ w < HighEnd)
  BY DEF Accepts
<1>5. guard.accepts = "nonNull" => (Accepts(w) <=> w # 0)
  BY DEF Accepts
<1>6. guard.accepts = "aligned" => (Accepts(w) <=> w # 0 /\ w % 8 = 0)
  BY DEF Accepts
<1> QED BY <1>1, <1>2, <1>3, <1>4, <1>5, <1>6

\* EmitModuleRangeCheck and the other tests: what they accept is fit for the use.
LEMMA AcceptedIsSound ==
  ASSUME guard \in AllGuards, image \in Layouts, NEW w \in Nat, Accepts(w)
  PROVE  Sound(w)
<1>1. /\ guard.slot \in Nat /\ guard.margin \in Nat
      /\ guard.margin > 0 => guard.margin = guard.slot + 7
      /\ guard.accepts \in Tests
  BY GuardShape
<1>2. image.base \in Nat /\ image.end \in Nat /\ MinPointer \in Nat /\ MinPointer > 0
  BY GuardAssumption
<1>3. CASE guard.accepts = "image"
  <2>1. image.base <= w /\ w < image.end - guard.margin
    BY <1>3, AcceptsMeans DEF ModuleRangeCheck
  <2>2. InImage(w) /\ (guard.margin > 0 => w + guard.slot + 7 < image.end)
    BY <1>1, <1>2, <2>1 DEF InImage
  <2> QED BY <1>3, <2>2 DEF Sound
<1>4. CASE guard.accepts = "aligned"
  BY <1>4, AcceptsMeans DEF Sound
<1>5. CASE guard.accepts = "canonical"
  BY <1>5, AcceptsMeans DEF Sound
<1>6. CASE guard.accepts \in {"plausible", "mapped", "nonNull"}
  <2>1. w # 0 /\ (guard.accepts \in {"plausible", "mapped"} => w >= MinPointer)
    BY <1>2, <1>6, AcceptsMeans
  <2> QED BY <1>6, <2>1 DEF Sound
<1> QED BY <1>1, <1>3, <1>4, <1>5, <1>6 DEF Tests

\* The tests turn no word of a live object away, up to the last vtable in the image.
LEMMA LiveIsAccepted ==
  ASSUME guard \in AllGuards, image \in Layouts, NEW w \in LiveWords(guard, image)
  PROVE  Accepts(w)
<1>1. /\ guard.slot \in Nat /\ guard.margin \in Nat
      /\ guard.margin > 0 => guard.margin = guard.slot + 7
      /\ guard.accepts \in Tests
  BY GuardShape
<1>2. /\ image.base \in Nat /\ image.end \in Nat
      /\ MinPointer \in Nat /\ MinPointer > 0 /\ MinPointer < image.base
  BY GuardAssumption
<1>3. CASE guard.accepts \in {"image", "aligned"}
  <2>1. w \in Nat /\ w % 8 = 0 /\ image.base <= w /\ w + guard.slot + 8 <= image.end
    BY <1>3, GuardAssumption DEF LiveWords, IsVtable, Vtables
  <2>2. w # 0 /\ ModuleRangeCheck(w, guard.margin)
    BY <2>1, <1>1, <1>2 DEF ModuleRangeCheck
  <2> QED BY <2>1, <2>2, <1>3, AcceptsMeans
<1>4. CASE guard.accepts \notin {"image", "aligned"}
  <2>1. w \in Nat /\ MinPointer < w /\ w < HighEnd
    BY <1>4, GuardAssumption DEF LiveWords, IsVtable
  <2>2. w # 0 /\ w > MinPointer /\ w >= MinPointer
    BY <2>1, <1>2
  <2> QED BY <2>1, <2>2, <1>1, <1>4, AcceptsMeans DEF Tests
<1> QED BY <1>3, <1>4

LEMMA GuardInitInv == GuardInit => GuardIInv
<1> SUFFICES ASSUME NEW g \in AllGuards, NEW l \in Layouts, NEW o \in {"live", "null"},
                    o = "null" => g.null, NEW w \in LiveWords(g, l), GuardStart(g, l, o, w)
             PROVE  GuardIInv
  BY DEF GuardInit
<1>1. w \in Nat
  BY GuardAssumption DEF LiveWords, Vtables
<1> QED BY <1>1 DEF GuardIInv, GuardStart, ThunkStep, UsesVouchedWord, LiveObjectsDispatched

\* The thunk's own steps up to the use.
LEMMA ThunkStepsInv ==
  ASSUME GuardIInv, EnterThunk \/ LoadWord \/ CheckWord
  PROVE  GuardIInv'
<1>1. CASE EnterThunk
  BY <1>1 DEF EnterThunk, GuardIInv, ThunkStep, UsesVouchedWord, LiveObjectsDispatched, LiveWords,
    IsVtable, Vtables
<1>2. CASE LoadWord
  BY <1>2 DEF LoadWord, GuardIInv, ThunkStep, UsesVouchedWord, LiveObjectsDispatched, LiveWords,
    IsVtable, Vtables
<1>3. CASE CheckWord
  <2>1. ~disturbed /\ object = "live" => Accepts(loaded)
    BY <1>3, LiveIsAccepted DEF CheckWord, GuardIInv
  <2>2. guard' = guard /\ image' = image /\ loaded' = loaded /\ (Accepts(loaded) => Accepts(loaded)')
    BY <1>3 DEF CheckWord, Accepts, ModuleRangeCheck
  <2>3. LiveWords(guard, image)' = LiveWords(guard, image)
    BY <2>2 DEF LiveWords, IsVtable, Vtables
  <2> QED BY <1>3, <2>1, <2>2, <2>3 DEF CheckWord, GuardIInv, ThunkStep, UsesVouchedWord,
        LiveObjectsDispatched
<1> QED BY <1>1, <1>2, <1>3

\* EmitLoadedSlotGuard: the functions of a vtable of the game pass.
LEMMA SlotStepsInv ==
  ASSUME GuardIInv, LoadSlot \/ CheckSlot
  PROVE  GuardIInv'
<1>1. /\ guard' = guard /\ image' = image /\ loaded' = loaded /\ object' = object /\ word' = word
      /\ disturbed' = disturbed /\ used' = used /\ Accepts(loaded)
  BY DEF LoadSlot, CheckSlot, GuardIInv
<1>2. Accepts(loaded)' /\ LiveWords(guard, image)' = LiveWords(guard, image)
  BY <1>1 DEF Accepts, ModuleRangeCheck, LiveWords, IsVtable, Vtables
<1>3. CASE LoadSlot
  <2>1. ASSUME ~disturbed, object = "live"
        PROVE  LoadedSlotGuard(target)'
    <3>1. loaded \in LiveWords(guard, image) /\ guard.slotGuard
      BY <2>1, <1>3 DEF LoadSlot, GuardIInv
    <3>2. guard.accepts = "image"
      BY <3>1, GuardShape DEF GuardIInv
    <3>3. loaded \in Vtables(guard, image)
      BY <3>1, <3>2 DEF LiveWords, IsVtable
    <3>4. target' \in {w \in OtherWords : InImage(w) \/ InHighRange(w)}
      BY <3>3, <1>3 DEF LoadSlot
    <3>5. target' \in Nat /\ image.base \in Nat /\ image.base > 0 /\ HighBase \in Nat /\ HighBase > 0
      BY <3>4, GuardAssumption DEF GuardIInv
    <3>6. target' # 0 /\ (InImage(target') \/ InHighRange(target'))
      BY <3>4, <3>5 DEF InImage, InHighRange
    <3> QED BY <3>6, <1>1 DEF LoadedSlotGuard, InImage, InHighRange
  <2> QED BY <1>1, <1>2, <1>3, <2>1 DEF LoadSlot, GuardIInv, ThunkStep, UsesVouchedWord,
        LiveObjectsDispatched
<1>4. CASE CheckSlot
  BY <1>1, <1>2, <1>4 DEF CheckSlot, GuardIInv, ThunkStep, UsesVouchedWord,
    LiveObjectsDispatched, LoadedSlotGuard, InImage, InHighRange
<1> QED BY <1>3, <1>4

LEMMA DispatchInv ==
  ASSUME GuardIInv, Dispatch
  PROVE  GuardIInv'
<1>1. /\ guard' = guard /\ image' = image /\ loaded' = loaded /\ object' = object /\ word' = word
      /\ disturbed' = disturbed /\ target' = target /\ thunkAt' = "used" /\ object = "live"
  BY DEF Dispatch, GuardIInv
<1>2. LiveWords(guard, image)' = LiveWords(guard, image)
  BY <1>1 DEF LiveWords, IsVtable, Vtables
<1>3. Sound(loaded)
  BY AcceptedIsSound DEF GuardIInv, Dispatch
<1>4. (guard.dispatch = "memory" /\ disturbed) \/ used' = loaded
  BY DEF Dispatch, GuardIInv
<1>5. (guard.dispatch = "memory" /\ disturbed)' \/ Sound(used)'
  BY <1>1, <1>3, <1>4 DEF Sound, InImage
<1>6. guard.slotGuard => InImage(target) \/ InHighRange(target)
  BY DEF Dispatch, GuardIInv, LoadedSlotGuard
<1>7. UsesVouchedWord'
  BY <1>1, <1>5, <1>6 DEF UsesVouchedWord, InImage, InHighRange
<1>8. LiveObjectsDispatched'
  BY <1>1, <1>2, <1>4 DEF LiveObjectsDispatched, Dispatch, GuardIInv
<1> QED BY <1>1, <1>2, <1>7, <1>8 DEF GuardIInv, ThunkStep

LEMMA FreeObjectInv ==
  ASSUME GuardIInv, FreeObject
  PROVE  GuardIInv'
<1>1. word' \in Nat
  BY GuardAssumption DEF FreeObject
<1>2. Accepts(loaded) => Accepts(loaded)'
  BY DEF FreeObject, Accepts, ModuleRangeCheck
<1>3. LoadedSlotGuard(target) => LoadedSlotGuard(target)'
  BY DEF FreeObject, LoadedSlotGuard, InImage, InHighRange
<1> QED BY <1>1, <1>2, <1>3 DEF FreeObject, GuardIInv, UsesVouchedWord, LiveObjectsDispatched

LEMMA GuardNextInv == GuardIInv /\ [GuardNext]_guardVars => GuardIInv'
<1>1. ASSUME GuardIInv, UNCHANGED guardVars
      PROVE  GuardIInv'
  BY <1>1 DEF guardVars, GuardIInv, UsesVouchedWord, LiveObjectsDispatched, Accepts, ModuleRangeCheck,
    LoadedSlotGuard, InImage, InHighRange, LiveWords, IsVtable, Vtables, Sound
<1> QED BY <1>1, ThunkStepsInv, SlotStepsInv, DispatchInv, FreeObjectInv DEF GuardNext

\* The freed object thunks: for any address space, layout of the images and timing of
\* frees, the game uses no word and calls no slot its guard has not vouched for.
THEOREM VouchedWordUsed == GuardSpec => []UsesVouchedWord
<1>1. GuardIInv => UsesVouchedWord
  BY DEF GuardIInv
<1> QED BY GuardInitInv, GuardNextInv, <1>1, PTL DEF GuardSpec

\* The freed object thunks: for any address space and layout of the images, an object
\* that nobody frees is dispatched to, through its own word.
THEOREM LiveNotTurnedAway == GuardSpec => []LiveObjectsDispatched
<1>1. GuardIInv => LiveObjectsDispatched
  BY DEF GuardIInv
<1> QED BY GuardInitInv, GuardNextInv, <1>1, PTL DEF GuardSpec
-----------------------------------------------------------------------------
(* ShadowMapScratch: the thread-local index.                               *)

DetourStep == {"idle", "read", "allocate", "publish", "fill"}
Detours == [at : DetourStep, property : Properties \cup {"null"}, block : Blocks \cup {"null"}, index : Index]

ScratchTypeOK ==
  /\ unk08 \in [Properties -> Blocks \cup {"null"}]
  /\ lifetime \in [Properties -> {"alive", "deleting", "destroyed"}]
  /\ allocated \subseteq Blocks /\ passes \in [Blocks -> SUBSET Index]
  /\ detours \in [ShadowThreads -> Detours]
  /\ \A t \in ShadowThreads : detours[t].at # "idle" => detours[t].property \in Properties
  /\ currentIndex \in [ShadowThreads -> Index]
  /\ previous \in [ShadowThreads -> Seq(Index)] /\ lights \in [ShadowThreads -> Seq(Descriptors)]

\* The indices a thread has put aside are those of the lights around the innermost.
IndicesOf(current, aside, nested) ==
  /\ Len(aside) = Len(nested)
  /\ nested # <<>> => current = ValidIndex(nested[1])
  /\ \A k \in 1..(Len(nested) - 1) : aside[k] = ValidIndex(nested[k + 1])

LightsIInv ==
  /\ ScratchTypeOK
  /\ \A t \in ShadowThreads :
       /\ IndicesOf(currentIndex[t], previous[t], lights[t])
       /\ detours[t].at # "idle" => detours[t].index = currentIndex[t]

LEMMA ValidIndexInRange ==
  ASSUME NEW i \in Nat
  PROVE  /\ ValidIndex(i) \in Index
         /\ i \in Index => ValidIndex(i) = i
BY ScratchAssumption DEF ValidIndex, Index

LEMMA PushIndex ==
  ASSUME NEW c \in Index, NEW a \in Seq(Index), NEW n \in Seq(Descriptors), NEW d \in Descriptors,
         IndicesOf(c, a, n)
  PROVE  IndicesOf(ValidIndex(d), <<c>> \o a, <<d>> \o n)
<1> DEFINE aa == <<c>> \o a
           nn == <<d>> \o n
<1>1. Len(a) = Len(n) /\ Len(n) \in Nat
  BY DEF IndicesOf
<1>2. /\ Len(nn) = Len(n) + 1 /\ Len(aa) = Len(n) + 1
      /\ nn[1] = d /\ aa[1] = c
      /\ \A k \in 1..Len(n) : nn[k + 1] = n[k] /\ aa[k + 1] = a[k]
  BY <1>1
<1> HIDE DEF aa, nn
<1>3. ASSUME NEW k \in 1..(Len(nn) - 1)
      PROVE  aa[k] = ValidIndex(nn[k + 1])
  <2>1. k \in 1..Len(n) /\ nn[k + 1] = n[k]
    BY <1>1, <1>2
  <2>2. CASE k = 1
    <3>1. n # <<>>
      BY <2>1
    <3> QED BY <3>1, <2>1, <2>2, <1>2 DEF IndicesOf
  <2>3. CASE k # 1
    <3>1. k - 1 \in 1..(Len(n) - 1) /\ k - 1 \in 1..Len(n) /\ (k - 1) + 1 = k
      BY <2>1, <2>3, <1>1
    <3>2. aa[k] = a[k - 1]
      BY <3>1, <1>2
    <3>3. a[k - 1] = ValidIndex(n[k])
      BY <3>1 DEF IndicesOf
    <3> QED BY <2>1, <3>2, <3>3
  <2> QED BY <2>2, <2>3
<1> QED BY <1>1, <1>2, <1>3 DEF IndicesOf, aa, nn

LEMMA PopIndex ==
  ASSUME NEW c, NEW a \in Seq(Index), NEW n \in Seq(Descriptors), n # <<>>, IndicesOf(c, a, n)
  PROVE  a # <<>> /\ IndicesOf(Head(a), Tail(a), Tail(n))
<1> DEFINE aa == Tail(a)
           nn == Tail(n)
<1>1. Len(a) = Len(n) /\ Len(n) \in Nat /\ Len(n) > 0 /\ a # <<>>
  BY DEF IndicesOf
<1>2. /\ Len(nn) = Len(n) - 1 /\ Len(aa) = Len(n) - 1 /\ Head(a) = a[1]
      /\ \A k \in 1..(Len(n) - 1) : nn[k] = n[k + 1] /\ aa[k] = a[k + 1]
  BY <1>1
<1>3. nn # <<>> => Len(n) > 1
  BY <1>1
<1> HIDE DEF aa, nn
<1>4. ASSUME NEW k \in 1..(Len(nn) - 1)
      PROVE  aa[k] = ValidIndex(nn[k + 1])
  <2>1. k \in 1..(Len(n) - 1) /\ k + 1 \in 1..(Len(n) - 1)
    BY <1>1, <1>2
  <2> QED BY <2>1, <1>2 DEF IndicesOf
<1>5. nn # <<>> => Head(a) = ValidIndex(nn[1])
  <2> HAVE nn # <<>>
  <2>1. 1 \in 1..(Len(n) - 1)
    BY <1>1, <1>3
  <2> QED BY <2>1, <1>2 DEF IndicesOf
<1> QED BY <1>1, <1>2, <1>4, <1>5 DEF IndicesOf, aa, nn

LEMMA ScratchTypeInit == ScratchInit => ScratchTypeOK
BY ScratchAssumption DEF ScratchInit, ScratchTypeOK, Idle, Index, Detours, DetourStep

LEMMA LightsInitInv == ScratchInit => LightsIInv
BY ScratchTypeInit DEF ScratchInit, LightsIInv, IndicesOf, Idle

LEMMA AccumulateInv ==
  ASSUME LightsIInv, NEW t \in ShadowThreads, NEW d \in Descriptors, AccumulateShadowMap(t, d)
  PROVE  LightsIInv'
<1>1. ValidIndex(d) \in Index
  BY ScratchAssumption, ValidIndexInRange
<1>2. /\ lights[t] \in Seq(Descriptors) /\ previous[t] \in Seq(Index) /\ currentIndex[t] \in Index
      /\ IndicesOf(currentIndex[t], previous[t], lights[t])
  BY DEF LightsIInv, ScratchTypeOK
<1>3. /\ lights'[t] = <<d>> \o lights[t] /\ previous'[t] = <<currentIndex[t]>> \o previous[t]
      /\ currentIndex'[t] = ValidIndex(d) /\ detours'[t].at = "idle"
  BY DEF LightsIInv, ScratchTypeOK, AccumulateShadowMap, Idle
<1>4. IndicesOf(currentIndex'[t], previous'[t], lights'[t])
  BY <1>2, <1>3, PushIndex
<1>5. \A u \in ShadowThreads : u # t =>
        lights'[u] = lights[u] /\ previous'[u] = previous[u] /\ currentIndex'[u] = currentIndex[u]
  BY DEF LightsIInv, ScratchTypeOK, AccumulateShadowMap
<1>6. ScratchTypeOK'
  <2>1. lights'[t] \in Seq(Descriptors) /\ previous'[t] \in Seq(Index)
    BY <1>2, <1>3
  <2>2. lights' \in [ShadowThreads -> Seq(Descriptors)] /\ previous' \in [ShadowThreads -> Seq(Index)]
    BY <2>1, <1>3 DEF LightsIInv, ScratchTypeOK, AccumulateShadowMap
  <2>3. currentIndex' \in [ShadowThreads -> Index]
    BY <1>1 DEF LightsIInv, ScratchTypeOK, AccumulateShadowMap
  <2> QED BY <2>2, <2>3 DEF LightsIInv, ScratchTypeOK, AccumulateShadowMap
<1>7. detours' = detours
  BY DEF AccumulateShadowMap
<1>8. ASSUME NEW u \in ShadowThreads
      PROVE  /\ IndicesOf(currentIndex'[u], previous'[u], lights'[u])
             /\ detours'[u].at # "idle" => detours'[u].index = currentIndex'[u]
  BY <1>3, <1>4, <1>5, <1>7 DEF LightsIInv
<1> QED BY <1>6, <1>8 DEF LightsIInv, IndicesOf, ValidIndex

LEMMA AccumulateReturnsInv ==
  ASSUME LightsIInv, NEW t \in ShadowThreads, AccumulateReturns(t)
  PROVE  LightsIInv'
<1>1. /\ lights[t] \in Seq(Descriptors) /\ lights[t] # <<>> /\ previous[t] \in Seq(Index)
      /\ IndicesOf(currentIndex[t], previous[t], lights[t])
  BY DEF LightsIInv, ScratchTypeOK, AccumulateReturns
<1>2. previous[t] # <<>> /\ IndicesOf(Head(previous[t]), Tail(previous[t]), Tail(lights[t]))
  BY <1>1, PopIndex
<1>3. /\ lights'[t] = Tail(lights[t]) /\ previous'[t] = Tail(previous[t])
      /\ currentIndex'[t] = Head(previous[t]) /\ detours'[t].at = "idle"
  BY DEF LightsIInv, ScratchTypeOK, AccumulateReturns, Idle
<1>4. \A u \in ShadowThreads : u # t =>
        lights'[u] = lights[u] /\ previous'[u] = previous[u] /\ currentIndex'[u] = currentIndex[u]
  BY DEF LightsIInv, ScratchTypeOK, AccumulateReturns
<1>5. ScratchTypeOK'
  <2>1. lights'[t] \in Seq(Descriptors) /\ previous'[t] \in Seq(Index) /\ currentIndex'[t] \in Index
    BY <1>1, <1>2, <1>3
  <2>2. lights' \in [ShadowThreads -> Seq(Descriptors)] /\ previous' \in [ShadowThreads -> Seq(Index)]
    BY <2>1, <1>3 DEF LightsIInv, ScratchTypeOK, AccumulateReturns
  <2>3. currentIndex' \in [ShadowThreads -> Index]
    BY <2>1, <1>3 DEF LightsIInv, ScratchTypeOK, AccumulateReturns
  <2> QED BY <2>2, <2>3 DEF LightsIInv, ScratchTypeOK, AccumulateReturns
<1>6. detours' = detours
  BY DEF AccumulateReturns
<1>7. ASSUME NEW u \in ShadowThreads
      PROVE  /\ IndicesOf(currentIndex'[u], previous'[u], lights'[u])
             /\ detours'[u].at # "idle" => detours'[u].index = currentIndex'[u]
  BY <1>2, <1>3, <1>4, <1>6 DEF LightsIInv
<1> QED BY <1>5, <1>7 DEF LightsIInv, IndicesOf, ValidIndex

\* A step of a detour that only moves it on.
LEMMA MovedDetour ==
  ASSUME ScratchTypeOK, NEW t \in ShadowThreads, NEW at \in DetourStep, detours[t].at # "idle",
         \/ detours' = [detours EXCEPT ![t].at = at]
         \/ \E b \in Blocks \cup {"null"} : detours' = [detours EXCEPT ![t].at = at, ![t].block = b]
  PROVE  /\ detours' \in [ShadowThreads -> Detours]
         /\ detours'[t].property = detours[t].property /\ detours'[t].index = detours[t].index
         /\ \A u \in ShadowThreads : u # t => detours'[u] = detours[u]
<1>1. detours \in [ShadowThreads -> Detours] /\ detours[t] \in Detours
  BY DEF ScratchTypeOK
<1>2. CASE detours' = [detours EXCEPT ![t].at = at]
  <2>1. [detours[t] EXCEPT !.at = at] \in Detours
    BY <1>1 DEF Detours
  <2>2. detours' = [detours EXCEPT ![t] = [detours[t] EXCEPT !.at = at]]
    BY <1>2
  <2>3. /\ [detours[t] EXCEPT !.at = at].property = detours[t].property
        /\ [detours[t] EXCEPT !.at = at].index = detours[t].index
    BY <1>1 DEF Detours
  <2> QED BY <1>1, <2>1, <2>2, <2>3
<1>3. ASSUME NEW b \in Blocks \cup {"null"}, detours' = [detours EXCEPT ![t].at = at, ![t].block = b]
      PROVE  /\ detours' \in [ShadowThreads -> Detours]
             /\ detours'[t].property = detours[t].property /\ detours'[t].index = detours[t].index
             /\ \A u \in ShadowThreads : u # t => detours'[u] = detours[u]
  <2> DEFINE r == [detours[t] EXCEPT !.at = at, !.block = b]
  <2>1. r \in Detours /\ r.property = detours[t].property /\ r.index = detours[t].index
    BY <1>1 DEF Detours
  <2>2. detours' = [detours EXCEPT ![t] = r]
    BY <1>1, <1>3
  <2> QED BY <1>1, <2>1, <2>2
<1> QED BY <1>2, <1>3

\* The detour and the destructors leave the lights alone.
LEMMA DetourInv ==
  ASSUME LightsIInv, NEW t \in ShadowThreads,
         \/ \E p \in Properties : GetRenderPasses(t, p)
         \/ ReadScratch(t) \/ AllocateScratch(t) \/ PublishScratch(t) \/ FillArray(t)
  PROVE  LightsIInv'
<1>1. UNCHANGED <<currentIndex, previous, lights>>
  BY DEF GetRenderPasses, ReadScratch, AllocateScratch, PublishScratch, FillArray
<1>2. ASSUME NEW p \in Properties, GetRenderPasses(t, p)
      PROVE  ScratchTypeOK' /\ \A u \in ShadowThreads :
               detours'[u].at # "idle" => detours'[u].index = currentIndex[u]
  <2>1. currentIndex[t] \in Index /\ ValidIndex(currentIndex[t]) = currentIndex[t]
    BY ScratchAssumption, ValidIndexInRange DEF LightsIInv, ScratchTypeOK, Index
  <2> QED BY <1>2, <2>1 DEF GetRenderPasses, LightsIInv, ScratchTypeOK, Detours, DetourStep
<1>3. ASSUME ReadScratch(t)
      PROVE  ScratchTypeOK' /\ \A u \in ShadowThreads :
               detours'[u].at # "idle" => detours'[u].index = currentIndex[u]
  <2>1. detours[t].property \in Properties
    BY <1>3 DEF ReadScratch, LightsIInv, ScratchTypeOK
  <2>2. unk08[detours[t].property] \in Blocks \cup {"null"}
    BY <2>1 DEF LightsIInv, ScratchTypeOK
  <2>3. \/ \E b \in Blocks \cup {"null"} : detours' = [detours EXCEPT ![t].at = "fill", ![t].block = b]
        \/ detours' = [detours EXCEPT ![t].at = "allocate"]
    BY <1>3, <2>2 DEF ReadScratch, UseBlock
  <2> QED BY <1>3, <2>1, <2>3, MovedDetour DEF ReadScratch, LightsIInv, ScratchTypeOK, DetourStep
<1>4. ASSUME AllocateScratch(t)
      PROVE  ScratchTypeOK' /\ \A u \in ShadowThreads :
               detours'[u].at # "idle" => detours'[u].index = currentIndex[u]
  <2>1. PICK b \in Blocks \ allocated :
          /\ allocated' = allocated \cup {b}
          /\ passes' = [passes EXCEPT ![b] = {}]
          /\ detours' = [detours EXCEPT ![t].at = "publish", ![t].block = b]
    BY <1>4 DEF AllocateScratch
  <2>2. passes' \in [Blocks -> SUBSET Index] /\ allocated' \subseteq Blocks
    BY <2>1 DEF LightsIInv, ScratchTypeOK
  <2>3. detours[t].at # "idle" /\ detours[t].property \in Properties
    BY <1>4 DEF AllocateScratch, LightsIInv, ScratchTypeOK
  <2> QED BY <1>4, <2>1, <2>2, <2>3, MovedDetour DEF AllocateScratch, LightsIInv, ScratchTypeOK, DetourStep
<1>5. ASSUME PublishScratch(t)
      PROVE  ScratchTypeOK' /\ \A u \in ShadowThreads :
               detours'[u].at # "idle" => detours'[u].index = currentIndex[u]
  <2>1. detours[t].property \in Properties
    BY <1>5 DEF PublishScratch, LightsIInv, ScratchTypeOK
  <2>2. /\ unk08[detours[t].property] \in Blocks \cup {"null"}
        /\ detours[t].block \in Blocks \cup {"null"}
    BY <2>1 DEF LightsIInv, ScratchTypeOK, Detours
  <2>3. \E b \in Blocks \cup {"null"} : detours' = [detours EXCEPT ![t].at = "fill", ![t].block = b]
    BY <1>5, <2>2 DEF PublishScratch, UseBlock
  <2>4. unk08' \in [Properties -> Blocks \cup {"null"}] /\ allocated' \subseteq Blocks
    BY <1>5, <2>2 DEF PublishScratch, LightsIInv, ScratchTypeOK
  <2> QED BY <1>5, <2>1, <2>3, <2>4, MovedDetour DEF PublishScratch, LightsIInv, ScratchTypeOK, DetourStep
<1>6. ASSUME FillArray(t)
      PROVE  ScratchTypeOK' /\ \A u \in ShadowThreads :
               detours'[u].at # "idle" => detours'[u].index = currentIndex[u]
  <2>1. Idle \in Detours
    BY ScratchAssumption DEF Idle, Index, Detours, DetourStep
  <2>2. detours' = [detours EXCEPT ![t] = Idle] /\ Idle.at = "idle"
    BY <1>6 DEF FillArray, Idle
  <2>3. detours[t].index \in Index
    BY DEF LightsIInv, ScratchTypeOK, Detours
  <2>4. passes' \in [Blocks -> SUBSET Index]
    BY <1>6, <2>3 DEF FillArray, LightsIInv, ScratchTypeOK
  <2> QED BY <1>6, <2>1, <2>2, <2>4 DEF FillArray, LightsIInv, ScratchTypeOK
<1> QED BY <1>1, <1>2, <1>3, <1>4, <1>5, <1>6 DEF LightsIInv, IndicesOf, ValidIndex

LEMMA DestructorInv ==
  ASSUME LightsIInv, NEW p \in Properties, DeletingDtor(p) \/ Dtor(p) \/ Construct(p)
  PROVE  LightsIInv'
<1>1. UNCHANGED <<detours, currentIndex, previous, lights>>
  BY DEF DeletingDtor, Dtor, Destructor, Construct
<1>2. ScratchTypeOK'
  BY <1>1 DEF DeletingDtor, Dtor, Destructor, FreeScratch, Construct, LightsIInv, ScratchTypeOK
<1> QED BY <1>1, <1>2 DEF LightsIInv, IndicesOf, ValidIndex

LEMMA LightsNextInv == LightsIInv /\ [ScratchNext]_scratchVars => LightsIInv'
<1>1. ASSUME LightsIInv, UNCHANGED scratchVars
      PROVE  LightsIInv'
  BY <1>1 DEF scratchVars, LightsIInv, ScratchTypeOK, IndicesOf, ValidIndex
<1> QED BY <1>1, AccumulateInv, AccumulateReturnsInv, DetourInv, DestructorInv DEF ScratchNext, ScratchStep

\* BSShadowLight_AccumulateShadowMap: for any threads, descriptors and depth of nesting,
\* a thread fills the array of the light it is accumulating innermost.
THEOREM InnermostLightFilled == ScratchSpec => []FillsInnermostLight
<1>1. LightsIInv => FillsInnermostLight
  <2> SUFFICES ASSUME LightsIInv, NEW t \in ShadowThreads
               PROVE  /\ lights[t] # <<>> => currentIndex[t] = ValidIndex(Head(lights[t]))
                      /\ detours[t].at = "fill" /\ lights[t] # <<>> =>
                           detours[t].index = ValidIndex(Head(lights[t]))
    BY DEF FillsInnermostLight
  <2>1. lights[t] \in Seq(Descriptors)
    BY DEF LightsIInv, ScratchTypeOK
  <2>2. lights[t] # <<>> => currentIndex[t] = ValidIndex(lights[t][1])
    BY DEF LightsIInv, IndicesOf
  <2>3. detours[t].at = "fill" => detours[t].index = currentIndex[t]
    BY DEF LightsIInv
  <2> QED BY <2>1, <2>2, <2>3
<1> QED BY LightsInitInv, LightsNextInv, <1>1, PTL DEF ScratchSpec
-----------------------------------------------------------------------------
(* ShadowMapScratch: the blocks.                                           *)

EveryBlockOwned ==
  \A b \in allocated : \/ \E p \in Properties : unk08[p] = b
                       \/ \E t \in ShadowThreads : Unpublished(t, b)
OwnedOnce ==
  /\ \A p, q \in Properties : unk08[p] # "null" /\ unk08[p] = unk08[q] => p = q
  /\ \A t, u \in ShadowThreads : \A b \in Blocks : Unpublished(t, b) /\ Unpublished(u, b) => t = u
  /\ \A t \in ShadowThreads : \A p \in Properties : ~Unpublished(t, unk08[p])
OwnersAllocated ==
  /\ \A p \in Properties : unk08[p] \in allocated \cup {"null"}
  /\ \A t \in ShadowThreads : detours[t].at = "publish" =>
       detours[t].block \in allocated /\ passes[detours[t].block] = {}
FillsItsProperty ==
  \A t \in ShadowThreads : detours[t].at = "fill" =>
    unk08[detours[t].property] = detours[t].block /\ detours[t].block # "null"
FreeIsEmpty == \A b \in Blocks \ allocated : passes[b] = {}
\* A property that is not alive has neither a block nor a detour in it.
DeadHasNone ==
  \A p \in Properties : lifetime[p] # "alive" =>
    unk08[p] = "null" /\ \A t \in ShadowThreads : detours[t].at # "idle" => detours[t].property # p

BlocksIInv ==
  /\ EveryBlockOwned /\ OwnedOnce /\ OwnersAllocated
  /\ FillsItsProperty /\ FreeIsEmpty /\ DeadHasNone

LEMMA BlocksInitInv == ScratchInit => BlocksIInv
BY DEF ScratchInit, BlocksIInv, EveryBlockOwned, OwnedOnce, OwnersAllocated, FillsItsProperty, FreeIsEmpty, DeadHasNone,
  Unpublished, Idle

\* Steps in which no thread owns or fills other than before.
LEMMA GetRenderPassesInv ==
  ASSUME ScratchTypeOK, BlocksIInv, NEW t \in ShadowThreads, NEW p \in Properties, GetRenderPasses(t, p)
  PROVE  BlocksIInv'
<1>1. /\ detours'[t].at = "read" /\ detours'[t].property = p /\ detours[t].at = "idle"
      /\ \A u \in ShadowThreads : u # t => detours'[u] = detours[u]
  BY DEF GetRenderPasses, ScratchTypeOK, Idle
<1>2. UNCHANGED <<unk08, lifetime, allocated, passes>> /\ lifetime[p] = "alive"
  BY DEF GetRenderPasses
<1>3. \A u \in ShadowThreads, b \in Blocks \cup {"null"} : Unpublished(u, b)' <=> Unpublished(u, b)
  BY <1>1 DEF Unpublished
<1>4. \A q \in Properties : unk08[q] \in Blocks \cup {"null"}
  BY DEF ScratchTypeOK
<1> USE DEF BlocksIInv
<1>5. EveryBlockOwned'
  BY <1>2, <1>3 DEF EveryBlockOwned, ScratchTypeOK
<1>6. OwnedOnce' /\ FreeIsEmpty'
  BY <1>2, <1>3, <1>4 DEF OwnedOnce, FreeIsEmpty
<1>7. OwnersAllocated' /\ FillsItsProperty' /\ DeadHasNone'
  BY <1>1, <1>2 DEF OwnersAllocated, FillsItsProperty, DeadHasNone
<1> QED BY <1>5, <1>6, <1>7

LEMMA ReadScratchInv ==
  ASSUME ScratchTypeOK, BlocksIInv, NEW t \in ShadowThreads, ReadScratch(t)
  PROVE  BlocksIInv'
<1> DEFINE existing == unk08[detours[t].property]
<1>1. detours[t].property \in Properties /\ existing \in Blocks \cup {"null"} /\ detours[t].at = "read"
  BY DEF ReadScratch, ScratchTypeOK
<1>2. \/ /\ detours' = [detours EXCEPT ![t].at = "fill", ![t].block = existing]
         /\ existing # "null"
      \/ detours' = [detours EXCEPT ![t].at = "allocate"]
  BY DEF ReadScratch, UseBlock
<1>3. /\ detours[t] \in Detours /\ detours'[t].property = detours[t].property
      /\ \/ detours'[t].at = "fill" /\ detours'[t].block = existing /\ existing # "null"
         \/ detours'[t].at = "allocate"
      /\ \A u \in ShadowThreads : u # t => detours'[u] = detours[u]
  BY <1>1, <1>2 DEF ScratchTypeOK, Detours
<1>4. UNCHANGED <<unk08, lifetime, allocated, passes>>
  BY DEF ReadScratch
<1>5. \A u \in ShadowThreads, b \in Blocks \cup {"null"} : Unpublished(u, b)' <=> Unpublished(u, b)
  BY <1>1, <1>3 DEF Unpublished
<1>6. \A q \in Properties : unk08[q] \in Blocks \cup {"null"}
  BY DEF ScratchTypeOK
<1> USE DEF BlocksIInv
<1>7. EveryBlockOwned'
  BY <1>4, <1>5 DEF EveryBlockOwned, ScratchTypeOK
<1>8. OwnedOnce' /\ FreeIsEmpty'
  BY <1>4, <1>5, <1>6 DEF OwnedOnce, FreeIsEmpty
<1>9. OwnersAllocated' /\ FillsItsProperty' /\ DeadHasNone'
  BY <1>1, <1>3, <1>4 DEF OwnersAllocated, FillsItsProperty, DeadHasNone
<1> QED BY <1>7, <1>8, <1>9

LEMMA AllocateScratchInv ==
  ASSUME ScratchTypeOK, BlocksIInv, NEW t \in ShadowThreads, AllocateScratch(t)
  PROVE  BlocksIInv'
<1>1. PICK b \in Blocks \ allocated :
        /\ allocated' = allocated \cup {b}
        /\ passes' = [passes EXCEPT ![b] = {}]
        /\ detours' = [detours EXCEPT ![t].at = "publish", ![t].block = b]
  BY DEF AllocateScratch
<1>2. /\ detours'[t].at = "publish" /\ detours'[t].block = b /\ detours'[t].property = detours[t].property
      /\ detours[t].at = "allocate"
      /\ \A u \in ShadowThreads : u # t => detours'[u] = detours[u]
  BY <1>1 DEF AllocateScratch, ScratchTypeOK, Detours
<1>3. UNCHANGED <<unk08, lifetime>>
  BY DEF AllocateScratch
<1>4. b # "null" /\ \A p \in Properties : unk08[p] # b
  BY ScratchAssumption DEF BlocksIInv, OwnersAllocated
<1>5. \A u \in ShadowThreads : ~Unpublished(u, b)
  BY DEF BlocksIInv, OwnersAllocated, Unpublished
<1>6. \A u \in ShadowThreads, c \in Blocks \cup {"null"} :
        Unpublished(u, c)' <=> (Unpublished(u, c) \/ (u = t /\ c = b))
  BY <1>2 DEF Unpublished
<1>7. \A p \in Properties : unk08[p] \in Blocks \cup {"null"}
  BY DEF ScratchTypeOK
<1>8. /\ passes'[b] = {} /\ \A c \in Blocks : c # b => passes'[c] = passes[c]
      /\ allocated \subseteq Blocks
  BY <1>1 DEF ScratchTypeOK
<1> USE DEF BlocksIInv
<1>9. EveryBlockOwned'
  BY <1>1, <1>3, <1>6, <1>8 DEF EveryBlockOwned
<1>10. OwnedOnce'
  BY <1>3, <1>4, <1>5, <1>6, <1>7 DEF OwnedOnce
<1>11. OwnersAllocated'
  <2>1. \A q \in Properties : unk08'[q] \in allocated' \cup {"null"}
    BY <1>1, <1>3 DEF OwnersAllocated
  <2>2. ASSUME NEW u \in ShadowThreads, detours'[u].at = "publish"
        PROVE  detours'[u].block \in allocated' /\ passes'[detours'[u].block] = {}
    <3>1. CASE u = t
      <4>1. detours'[u].block = b
        BY <3>1, <1>2
      <4>2. b \in allocated' /\ passes'[b] = {}
        BY <1>1, <1>8
      <4> QED BY <4>1, <4>2
    <3>2. CASE u # t
      <4>1. detours'[u] = detours[u]
        BY <3>2, <1>2
      <4> QED BY <4>1, <2>2, <1>1, <1>8 DEF OwnersAllocated
    <3> QED BY <3>1, <3>2
  <2> QED BY <2>1, <2>2 DEF OwnersAllocated
<1>13. FreeIsEmpty'
  BY <1>1, <1>8 DEF FreeIsEmpty
<1>12. FillsItsProperty' /\ DeadHasNone'
  BY <1>2, <1>3 DEF FillsItsProperty, DeadHasNone
<1> QED BY <1>9, <1>10, <1>11, <1>12, <1>13

LEMMA PublishScratchInv ==
  ASSUME ScratchTypeOK, BlocksIInv, NEW t \in ShadowThreads, PublishScratch(t)
  PROVE  BlocksIInv'
<1> DEFINE p == detours[t].property
           own == detours[t].block
           prior == unk08[p]
<1>1. p \in Properties /\ prior \in Blocks \cup {"null"} /\ detours[t].at = "publish" /\ own \in allocated
  BY DEF PublishScratch, ScratchTypeOK, BlocksIInv, OwnersAllocated
<1>2. own \in Blocks /\ own # "null" /\ allocated \subseteq Blocks
  BY <1>1, ScratchAssumption DEF ScratchTypeOK
<1>3. UNCHANGED <<lifetime, passes>> /\ \A q \in Properties : unk08[q] # own
  BY <1>1 DEF PublishScratch, BlocksIInv, OwnedOnce, Unpublished
<1>4. /\ detours'[t].at = "fill" /\ detours'[t].property = p
      /\ detours'[t].block = IF prior = "null" THEN own ELSE prior
      /\ \A u \in ShadowThreads : u # t => detours'[u] = detours[u]
  BY DEF PublishScratch, UseBlock, ScratchTypeOK, Detours
<1>5. \A u \in ShadowThreads, c \in Blocks \cup {"null"} :
        Unpublished(u, c)' <=> (Unpublished(u, c) /\ u # t)
  BY <1>1, <1>4 DEF Unpublished
<1>6. \A u \in ShadowThreads : Unpublished(u, own) => u = t
  BY <1>1, <1>2 DEF BlocksIInv, OwnedOnce, Unpublished
<1>7. Unpublished(t, own) /\ \A c \in Blocks : Unpublished(t, c) => c = own
  BY <1>1 DEF Unpublished
<1>8. \A q \in Properties : unk08[q] \in Blocks \cup {"null"}
  BY DEF ScratchTypeOK
<1>9. CASE prior = "null"
  <2>1. /\ unk08'[p] = own /\ allocated' = allocated
        /\ \A q \in Properties : q # p => unk08'[q] = unk08[q]
    BY <1>1, <1>9 DEF PublishScratch, ScratchTypeOK
  <2>2. \A u \in ShadowThreads : detours[u].at = "fill" => detours[u].property # p
    BY <1>9 DEF BlocksIInv, FillsItsProperty
  <2>3. lifetime[p] = "alive"
    BY <1>1 DEF BlocksIInv, DeadHasNone
  <2>4. EveryBlockOwned'
    <3> SUFFICES ASSUME NEW b \in allocated
                 PROVE  \/ \E q \in Properties : unk08'[q] = b
                        \/ \E u \in ShadowThreads : Unpublished(u, b)'
      BY <2>1 DEF EveryBlockOwned
    <3>1. CASE b = own
      BY <3>1, <2>1, <1>1
    <3>2. CASE b # own
      <4>1. CASE \E q \in Properties : unk08[q] = b
        <5>1. PICK q \in Properties : unk08[q] = b
          BY <4>1
        <5>2. q # p
          BY <5>1, <1>9, <1>2, ScratchAssumption
        <5> QED BY <5>1, <5>2, <2>1
      <4>2. CASE \E u \in ShadowThreads : Unpublished(u, b)
        BY <4>2, <3>2, <1>2, <1>5, <1>7
      <4> QED BY <4>1, <4>2 DEF BlocksIInv, EveryBlockOwned
    <3> QED BY <3>1, <3>2
  <2>5. OwnedOnce'
    <3>1. \A q, r \in Properties : unk08'[q] # "null" /\ unk08'[q] = unk08'[r] => q = r
      BY <2>1, <1>3 DEF BlocksIInv, OwnedOnce
    <3>2. ASSUME NEW u \in ShadowThreads, NEW q \in Properties
          PROVE  ~(Unpublished(u, unk08[q])')
      <4>1. CASE q = p
        BY <4>1, <2>1, <1>4, <1>6 DEF Unpublished
      <4>2. CASE q # p
        BY <4>2, <2>1, <1>4 DEF Unpublished, BlocksIInv, OwnedOnce
      <4> QED BY <4>1, <4>2
    <3>3. \A u, v \in ShadowThreads : \A b \in Blocks : Unpublished(u, b)' /\ Unpublished(v, b)' => u = v
      BY <1>5 DEF BlocksIInv, OwnedOnce
    <3> QED BY <3>1, <3>2, <3>3 DEF OwnedOnce
  <2>6. OwnersAllocated' /\ FreeIsEmpty'
    BY <2>1, <1>1, <1>3, <1>4 DEF BlocksIInv, OwnersAllocated, FreeIsEmpty
  <2>7. FillsItsProperty'
    <3> SUFFICES ASSUME NEW u \in ShadowThreads, detours'[u].at = "fill"
                 PROVE  unk08'[detours'[u].property] = detours'[u].block /\ detours'[u].block # "null"
      BY DEF FillsItsProperty
    <3>1. CASE u = t
      BY <3>1, <1>2, <1>4, <1>9, <2>1
    <3>2. CASE u # t
      <4>1. detours'[u] = detours[u] /\ detours[u].property \in Properties
        BY <3>2, <1>4 DEF ScratchTypeOK
      <4> QED BY <4>1, <2>1, <2>2 DEF BlocksIInv, FillsItsProperty
    <3> QED BY <3>1, <3>2
  <2>8. DeadHasNone'
    BY <1>1, <1>3, <1>4, <2>1, <2>3 DEF BlocksIInv, DeadHasNone
  <2> QED BY <2>4, <2>5, <2>6, <2>7, <2>8 DEF BlocksIInv
<1>10. CASE prior # "null"
  <2>1. unk08' = unk08 /\ allocated' = allocated \ {own}
    BY <1>10 DEF PublishScratch
  <2>2. passes[own] = {}
    BY <1>1 DEF BlocksIInv, OwnersAllocated
  <2>3. EveryBlockOwned'
    BY <2>1, <1>2, <1>5, <1>7 DEF BlocksIInv, EveryBlockOwned
  <2>4. OwnedOnce'
    BY <2>1, <1>5, <1>8 DEF BlocksIInv, OwnedOnce
  <2>5. OwnersAllocated' /\ FreeIsEmpty'
    <3>1. \A u \in ShadowThreads : detours'[u].at = "publish" => u # t /\ detours[u].block # own
      BY <1>4, <1>6 DEF Unpublished
    <3> QED BY <3>1, <2>1, <2>2, <1>1, <1>3, <1>4 DEF BlocksIInv, OwnersAllocated, FreeIsEmpty
  <2>6. FillsItsProperty' /\ DeadHasNone'
    BY <2>1, <1>1, <1>3, <1>4, <1>10 DEF BlocksIInv, FillsItsProperty, DeadHasNone
  <2> QED BY <2>3, <2>4, <2>5, <2>6 DEF BlocksIInv
<1> QED BY <1>9, <1>10

LEMMA FillArrayInv ==
  ASSUME ScratchTypeOK, BlocksIInv, NEW t \in ShadowThreads, FillArray(t)
  PROVE  BlocksIInv'
<1> DEFINE full == detours[t].block
<1>1. /\ detours'[t].at = "idle" /\ detours[t].at = "fill" /\ detours[t].property \in Properties
      /\ \A u \in ShadowThreads : u # t => detours'[u] = detours[u]
  BY DEF FillArray, ScratchTypeOK, Idle
<1>2. UNCHANGED <<unk08, lifetime, allocated>>
  BY DEF FillArray
<1>3. full \in allocated /\ unk08[detours[t].property] = full
  BY <1>1 DEF BlocksIInv, FillsItsProperty, OwnersAllocated
<1>4. \A b \in Blocks : b # full => passes'[b] = passes[b]
  BY DEF FillArray, ScratchTypeOK
<1>5. \A u \in ShadowThreads, b \in Blocks \cup {"null"} : Unpublished(u, b)' <=> Unpublished(u, b)
  BY <1>1 DEF Unpublished
<1>6. /\ \A q \in Properties : unk08[q] \in Blocks \cup {"null"}
      /\ allocated \subseteq Blocks
  BY DEF ScratchTypeOK
<1>7. \A u \in ShadowThreads : ~Unpublished(u, full)
  BY <1>1, <1>3 DEF BlocksIInv, OwnedOnce
<1> USE DEF BlocksIInv
<1>8. EveryBlockOwned'
  BY <1>2, <1>5, <1>6 DEF EveryBlockOwned
<1>9. OwnedOnce'
  BY <1>2, <1>5, <1>6 DEF OwnedOnce
<1>10. OwnersAllocated'
  <2>1. ASSUME NEW u \in ShadowThreads, detours'[u].at = "publish"
        PROVE  detours'[u].block \in allocated /\ passes'[detours'[u].block] = {}
    <3>1. u # t /\ detours'[u] = detours[u] /\ detours[u].block # full
      BY <2>1, <1>1, <1>7 DEF Unpublished
    <3> QED BY <2>1, <3>1, <1>4, <1>6 DEF OwnersAllocated
  <2> QED BY <2>1, <1>2 DEF OwnersAllocated
<1>11. FreeIsEmpty' /\ FillsItsProperty' /\ DeadHasNone'
  BY <1>1, <1>2, <1>3, <1>4 DEF FreeIsEmpty, FillsItsProperty, DeadHasNone
<1> QED BY <1>8, <1>9, <1>10, <1>11

LEMMA DestructorBlocksInv ==
  ASSUME ScratchTypeOK, BlocksIInv, NEW p \in Properties, NEW from, NEW to, Destructor(p, from, to)
  PROVE  BlocksIInv'
<1>1. /\ allocated' = allocated \ {unk08[p]} /\ unk08'[p] = "null" /\ detours' = detours
      /\ \A q \in Properties : q # p => unk08'[q] = unk08[q] /\ lifetime'[q] = lifetime[q]
      /\ \A b \in Blocks : passes'[b] = IF b = unk08[p] THEN {} ELSE passes[b]
      /\ \A t \in ShadowThreads : detours[t].property # p
  BY DEF Destructor, FreeScratch, ScratchTypeOK
<1>2. allocated \subseteq Blocks /\ "null" \notin Blocks
  BY ScratchAssumption DEF ScratchTypeOK
<1>3. \A u \in ShadowThreads : \A b : Unpublished(u, b)' <=> Unpublished(u, b)
  BY <1>1 DEF Unpublished
<1> USE DEF BlocksIInv
<1>4. EveryBlockOwned'
  <2> SUFFICES ASSUME NEW b \in allocated, b # unk08[p]
               PROVE  \/ \E q \in Properties : unk08'[q] = b
                      \/ \E u \in ShadowThreads : Unpublished(u, b)'
    BY <1>1 DEF EveryBlockOwned
  <2>1. CASE \E q \in Properties : unk08[q] = b
    BY <2>1, <1>1
  <2>2. CASE \E u \in ShadowThreads : Unpublished(u, b)
    BY <2>2, <1>3
  <2> QED BY <2>1, <2>2 DEF EveryBlockOwned
<1>5. OwnedOnce'
  <2>1. \A q, r \in Properties : unk08'[q] # "null" /\ unk08'[q] = unk08'[r] => q = r
    BY <1>1 DEF OwnedOnce
  <2>2. \A u, v \in ShadowThreads : \A b \in Blocks : Unpublished(u, b)' /\ Unpublished(v, b)' => u = v
    BY <1>3 DEF OwnedOnce
  <2>3. ASSUME NEW u \in ShadowThreads, NEW q \in Properties
        PROVE  ~(Unpublished(u, unk08[q])')
    <3>1. CASE q = p
      BY <3>1, <1>1, <1>2 DEF Unpublished, OwnersAllocated
    <3>2. CASE q # p
      BY <3>2, <1>1 DEF Unpublished, OwnedOnce
    <3> QED BY <3>1, <3>2
  <2> QED BY <2>1, <2>2, <2>3 DEF OwnedOnce
<1>6. OwnersAllocated'
  <2>1. \A q \in Properties : unk08'[q] \in allocated' \cup {"null"}
    BY <1>1 DEF OwnersAllocated, OwnedOnce
  <2>2. ASSUME NEW u \in ShadowThreads, detours[u].at = "publish"
        PROVE  detours[u].block \in allocated' /\ passes'[detours[u].block] = {}
    <3>1. detours[u].block # unk08[p]
      BY <2>2 DEF OwnedOnce, Unpublished
    <3> QED BY <3>1, <2>2, <1>1, <1>2 DEF OwnersAllocated
  <2> QED BY <2>1, <2>2, <1>1 DEF OwnersAllocated
<1>7. FillsItsProperty'
  <2> SUFFICES ASSUME NEW u \in ShadowThreads, detours[u].at = "fill"
               PROVE  unk08'[detours[u].property] = detours[u].block /\ detours[u].block # "null"
    BY <1>1 DEF FillsItsProperty
  <2>1. detours[u].property \in Properties /\ detours[u].property # p
    BY <1>1 DEF ScratchTypeOK
  <2> QED BY <2>1, <1>1 DEF FillsItsProperty
<1>8. FreeIsEmpty' /\ DeadHasNone'
  BY <1>1 DEF FreeIsEmpty, DeadHasNone
<1> QED BY <1>4, <1>5, <1>6, <1>7, <1>8

LEMMA ConstructInv ==
  ASSUME ScratchTypeOK, BlocksIInv, NEW p \in Properties, Construct(p)
  PROVE  BlocksIInv'
<1>1. unk08[p] = "null"
  BY DEF Construct, BlocksIInv, DeadHasNone
<1>2. unk08' = unk08 /\ UNCHANGED <<allocated, passes, detours>>
  BY <1>1 DEF Construct, ScratchTypeOK
<1>3. \A q \in Properties : lifetime'[q] # "alive" => lifetime[q] # "alive"
  BY DEF Construct, ScratchTypeOK
<1>4. \A u \in ShadowThreads : \A b : Unpublished(u, b)' <=> Unpublished(u, b)
  BY <1>2 DEF Unpublished
<1> USE DEF BlocksIInv
<1>5. EveryBlockOwned' /\ OwnedOnce'
  BY <1>2, <1>4 DEF EveryBlockOwned, OwnedOnce, Unpublished
<1>6. OwnersAllocated' /\ FillsItsProperty' /\ FreeIsEmpty' /\ DeadHasNone'
  BY <1>2, <1>3 DEF OwnersAllocated, FillsItsProperty, FreeIsEmpty, DeadHasNone
<1> QED BY <1>5, <1>6

LEMMA BlocksNextInv == ScratchTypeOK /\ BlocksIInv /\ [ScratchNext]_scratchVars => BlocksIInv'
<1> SUFFICES ASSUME ScratchTypeOK, BlocksIInv, [ScratchNext]_scratchVars
             PROVE  BlocksIInv'
  OBVIOUS
<1>1. ASSUME UNCHANGED <<unk08, lifetime, allocated, passes, detours>>
      PROVE  BlocksIInv'
  BY <1>1 DEF BlocksIInv, EveryBlockOwned, OwnedOnce, OwnersAllocated, FillsItsProperty, FreeIsEmpty,
    DeadHasNone, Unpublished
<1>2. ASSUME NEW t \in ShadowThreads, NEW d \in Descriptors, AccumulateShadowMap(t, d)
      PROVE  BlocksIInv'
  BY <1>1, <1>2 DEF AccumulateShadowMap
<1>3. ASSUME NEW t \in ShadowThreads, AccumulateReturns(t)
      PROVE  BlocksIInv'
  BY <1>1, <1>3 DEF AccumulateReturns
<1>4. CASE UNCHANGED scratchVars
  BY <1>1, <1>4 DEF scratchVars
<1> QED BY <1>2, <1>3, <1>4, GetRenderPassesInv, ReadScratchInv, AllocateScratchInv, PublishScratchInv,
      FillArrayInv, DestructorBlocksInv, ConstructInv DEF ScratchNext, ScratchStep, DeletingDtor, Dtor

\* GetOrCreateScratch and FreeScratch: for any threads, properties and addresses, no
\* block leaks, has two owners, or is filled after it lost the race or was freed.
THEOREM BlocksOwnedOnce == ScratchSpec => []BlockHasOneOwner
<1>1. LightsIInv /\ BlocksIInv => BlockHasOneOwner
  <2> SUFFICES ASSUME ScratchTypeOK, BlocksIInv
               PROVE  BlockHasOneOwner
    BY DEF LightsIInv
  <2> USE DEF BlocksIInv
  <2>1. ASSUME NEW b \in allocated
        PROVE  \/ /\ \E p \in Properties : Published(p, b) /\ \A q \in Properties : Published(q, b) => q = p
                  /\ \A t \in ShadowThreads : ~Unpublished(t, b)
               \/ /\ \E t \in ShadowThreads : Unpublished(t, b) /\ \A u \in ShadowThreads : Unpublished(u, b) => u = t
                  /\ \A p \in Properties : ~Published(p, b)
    <3>1. b \in Blocks /\ b # "null"
      BY ScratchAssumption DEF ScratchTypeOK
    <3>2. CASE \E p \in Properties : unk08[p] = b
      BY <3>1, <3>2 DEF OwnedOnce, Published
    <3>3. CASE \A p \in Properties : unk08[p] # b
      BY <3>1, <3>3 DEF EveryBlockOwned, OwnedOnce, Published
    <3> QED BY <3>2, <3>3
  <2>2. \A t \in ShadowThreads :
          detours[t].at = "fill" => Published(detours[t].property, detours[t].block)
    BY DEF FillsItsProperty, Published
  <2> QED BY <2>1, <2>2 DEF BlockHasOneOwner, OwnersAllocated, FreeIsEmpty
<1>2. LightsIInv => ScratchTypeOK
  BY DEF LightsIInv
<1> QED BY LightsInitInv, LightsNextInv, BlocksInitInv, BlocksNextInv, <1>1, <1>2, PTL DEF ScratchSpec
-----------------------------------------------------------------------------
(* HavokMaterialGuard.                                                     *)

LEMMA ProductMono ==
  ASSUME NEW m \in Int, NEW n \in Int, m <= n, NEW u \in Nat
  PROVE  m * u <= n * u
<1>1. (n - m) * u >= 0
  OBVIOUS
<1>2. (n - m) * u = n * u - m * u /\ n * u \in Int /\ m * u \in Int
  OBVIOUS
<1> QED BY <1>1, <1>2

LEMMA QuotientTimes ==
  ASSUME NEW n \in Nat, NEW u \in Nat \ {0}
  PROVE  /\ n \div u \in Nat /\ (n \div u) * u \in Nat /\ (n \div u) * u <= n
         /\ n % u = 0 => n = (n \div u) * u
OBVIOUS

\* Below the modulus, and a step around it.
LEMMA ModBelow ==
  ASSUME NEW w \in Nat \ {0}, NEW n \in Nat, n < w
  PROVE  n % w = n /\ (n + w) % w = n
OBVIOUS

\* The test on count keeps the bytes of the table from wrapping, so an entry that
\* passes the bounds is the k-th of the table and ends inside it.
LEMMA EntryIsWhole ==
  ASSUME NEW t \in [base : Word, stride : Word, count : Word], NEW address \in Word,
         IsEntryInBounds(t, address)
  PROVE  \E k \in 0..(t.count - 1) :
           address = Entry(t, k) /\ address + EntrySize <= Entry(t, t.count)
<1> DEFINE s == t.stride
           c == t.count
           off == address - t.base
           q == (WordSize - 1) \div s
           k == off \div s
           bytes == s * c
<1>1. /\ WordSize \in Nat /\ EntrySize \in Nat /\ 1 <= EntrySize /\ EntrySize <= WordSize - 1
  BY HavokAssumption
<1>2. /\ s \in Nat /\ c \in Nat /\ t.base \in Nat /\ address \in Nat
      /\ s >= EntrySize /\ c # 0 /\ c <= q /\ address >= t.base /\ off % s = 0
      /\ off <= (TableBytes(t) + WordSize - EntrySize) % WordSize
  BY <1>1 DEF IsEntryInBounds, Word
<1>3. off \in Nat /\ s \in Nat \ {0} /\ WordSize - 1 \in Nat /\ WordSize \in Nat \ {0}
  BY <1>1, <1>2
<1>4. q \in Nat /\ q * s \in Nat /\ q * s <= WordSize - 1
  BY <1>3, QuotientTimes
<1>5. k \in Nat /\ off = k * s /\ k * s \in Nat
  BY <1>2, <1>3, QuotientTimes
<1>6. bytes = c * s /\ bytes \in Nat
  BY <1>2
<1> HIDE DEF q, k, off, bytes, s, c
<1>7. c * s <= q * s /\ 1 * s <= c * s
  BY <1>2, <1>4, ProductMono
<1>8. bytes < WordSize /\ EntrySize <= bytes
  BY <1>1, <1>2, <1>4, <1>6, <1>7
<1>9. TableBytes(t) = bytes
  BY <1>3, <1>6, <1>8, ModBelow DEF TableBytes, bytes, s, c
<1>10. (TableBytes(t) + WordSize - EntrySize) % WordSize = bytes - EntrySize
  <2>1. bytes - EntrySize \in Nat /\ bytes - EntrySize < WordSize
    BY <1>1, <1>6, <1>8
  <2>2. ((bytes - EntrySize) + WordSize) % WordSize = bytes - EntrySize
    BY <1>3, <2>1, ModBelow
  <2>3. TableBytes(t) + WordSize - EntrySize = (bytes - EntrySize) + WordSize
    BY <1>1, <1>6, <1>9
  <2> QED BY <2>2, <2>3
<1>11. k * s + EntrySize <= c * s
  BY <1>1, <1>2, <1>5, <1>6, <1>8, <1>10
<1>12. k < c
  <2>1. SUFFICES ASSUME c <= k PROVE FALSE
    BY <1>2, <1>5
  <2>2. c * s <= k * s
    BY <1>2, <1>5, <2>1, ProductMono
  <2> QED BY <1>1, <1>5, <1>6, <1>11, <2>2
<1>13. address = t.base + k * s
  BY <1>2, <1>5 DEF off
<1>14. address + EntrySize <= t.base + c * s
  BY <1>1, <1>2, <1>5, <1>6, <1>11, <1>13
<1>15. k \in 0..(c - 1)
  BY <1>2, <1>5, <1>12
<1> QED BY <1>13, <1>14, <1>15 DEF Entry, s, c

\* What is read has passed the bounds of the table that was tested.
HavokIInv ==
  /\ table \in [base : Word, stride : Word, count : Word]
  /\ checked \in [base : Word, stride : Word, count : Word]
  /\ material \in Word
  /\ lookup \in {"read", "material"} => IsEntryInBounds(checked, material)

LEMMA HavokInitInv == HavokInit => HavokIInv
<1> SUFFICES ASSUME NEW t \in Tables, HavokStart(t) PROVE HavokIInv
  BY DEF HavokInit
<1>1. 0 \in Word
  BY HavokAssumption DEF Word
<1>2. table \in [base : Word, stride : Word, count : Word]
  BY HavokAssumption DEF HavokStart
<1>3. checked \in [base : Word, stride : Word, count : Word]
  BY <1>1 DEF HavokStart, NoTable
<1> QED BY <1>1, <1>2, <1>3 DEF HavokStart, HavokIInv

LEMMA HavokNextInv == HavokIInv /\ [HavokNext]_havokVars => HavokIInv'
<1> SUFFICES ASSUME HavokIInv, [HavokNext]_havokVars PROVE HavokIInv'
  OBVIOUS
<1> USE DEF HavokIInv
<1>1. CASE ReadShape
  BY <1>1 DEF ReadShape, Neutral, Recover
<1>2. CASE ResolveMaterial
  <2>1. 0 \in Word
    BY HavokAssumption DEF Word
  <2> QED BY <1>2, <2>1 DEF ResolveMaterial, Neutral, Recover
<1>3. CASE CheckBounds
  <2>1. CASE ~freed /\ IsEntryInBounds(table, material)
    BY <1>3, <2>1 DEF CheckBounds
  <2>2. CASE ~(~freed /\ IsEntryInBounds(table, material))
    BY <1>3, <2>2 DEF CheckBounds, Recover
  <2> QED BY <2>1, <2>2
<1>4. CASE ReadMaterial
  BY <1>4 DEF ReadMaterial, Recover
<1>5. CASE DisturbShape
  <2>1. table' \in [base : Word, stride : Word, count : Word]
    BY <1>5, HavokAssumption DEF DisturbShape
  <2> QED BY <1>5, <2>1 DEF DisturbShape
<1>6. CASE UNCHANGED havokVars
  BY <1>6 DEF havokVars
<1> QED BY <1>1, <1>2, <1>3, <1>4, <1>5, <1>6 DEF HavokNext

\* GuardedMaterialLookup, for every word size, entry size and contents of the shape's
\* memory: the material that is read is a whole entry of the tested table.
THEOREM WholeEntryRead == HavokSpec => []ReadsWholeEntry
<1>1. HavokIInv => ReadsWholeEntry
  <2> SUFFICES ASSUME HavokIInv, lookup \in {"read", "material"}
               PROVE  /\ checked.base # 0
                      /\ \E k \in 0..(checked.count - 1) :
                           /\ material = Entry(checked, k)
                           /\ material + EntrySize <= Entry(checked, checked.count)
    BY DEF ReadsWholeEntry
  <2>1. IsEntryInBounds(checked, material)
    BY DEF HavokIInv
  <2>2. checked.base # 0
    BY <2>1 DEF IsEntryInBounds
  <2> QED BY <2>1, <2>2, EntryIsWhole DEF HavokIInv
<1> QED BY <1>1, HavokInitInv, HavokNextInv, PTL DEF HavokSpec
=============================================================================
