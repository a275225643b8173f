-------------------------- MODULE ShadowMapScratch --------------------------
(***************************************************************************)
(* fixes/bslightingshaderproperty_shadowmap.h.  Every shader property gets *)
(* a scratch block with one pass array per shadow map, made by the first   *)
(* job thread that needs it, published in the unused field unk08, and      *)
(* freed by the property's destructor.  The array a thread fills is the    *)
(* one of the light it is accumulating, kept in a thread-local index that  *)
(* is restored when an accumulation ends inside another.                   *)
(*                                                                         *)
(* The engine keeps a property alive while a thread renders it, and gives  *)
(* jobs that work on one property at a time different descriptors: filling *)
(* an array is one step.                                                   *)
(***************************************************************************)
EXTENDS Naturals, Sequences

CONSTANTS
  ShadowThreads, Properties,
  Blocks,          \* addresses the allocator may return
  PassCount,       \* kShadowPassCount
  Descriptors,     \* indices a light's descriptor may hold, valid or not
  MaxAccumulate    \* bound: accumulations inside one another on one thread

ASSUME ScratchAssumption ==
  /\ PassCount \in Nat \ {0} /\ Descriptors \subseteq Nat
  /\ MaxAccumulate \in Nat /\ "null" \notin Blocks

VARIABLES
  unk08,         \* per property: its block, or "null"
  lifetime,      \* per property: "alive", "deleting" (AE), "destroyed"
  allocated,     \* blocks that are allocated
  passes,        \* per block: the arrays that hold a pass
  detours,       \* per thread: the detour's position and locals
  currentIndex,  \* per thread: g_currentIndex
  previous,      \* per thread: previousIndex of each accumulation, innermost first
  lights         \* history, per thread: descriptor index of each, innermost first

scratchVars == <<unk08, lifetime, allocated, passes, detours, currentIndex, previous, lights>>

Index == 0..(PassCount - 1)
Idle == [at |-> "idle", property |-> "null", block |-> "null", index |-> 0]

ScratchInit ==
  /\ unk08 = [p \in Properties |-> "null"]
  /\ lifetime = [p \in Properties |-> "alive"]
  /\ allocated = {} /\ passes = [b \in Blocks |-> {}]
  /\ detours = [t \in ShadowThreads |-> Idle]
  /\ currentIndex = [t \in ShadowThreads |-> 0]
  /\ previous = [t \in ShadowThreads |-> <<>>] /\ lights = [t \in ShadowThreads |-> <<>>]

ValidIndex(i) == IF i < PassCount THEN i ELSE 0

\* Mutant: one index for the process.
AccumulateSharedIndex(t, descriptor) ==
  /\ detours[t] = Idle /\ Len(lights[t]) < MaxAccumulate
  /\ lights' = [lights EXCEPT ![t] = <<descriptor>> \o @]
  /\ previous' = [previous EXCEPT ![t] = <<currentIndex[t]>> \o @]
  /\ currentIndex' = [u \in ShadowThreads |-> ValidIndex(descriptor)]
  /\ UNCHANGED <<unk08, lifetime, allocated, passes, detours>>

\* BSShadowLight_AccumulateShadowMap up to the original function ...
AccumulateShadowMap(t, descriptor) ==
  /\ detours[t] = Idle /\ Len(lights[t]) < MaxAccumulate
  /\ lights' = [lights EXCEPT ![t] = <<descriptor>> \o @]
  /\ previous' = [previous EXCEPT ![t] = <<currentIndex[t]>> \o @]
  /\ currentIndex' = [currentIndex EXCEPT ![t] = ValidIndex(descriptor)]
  /\ UNCHANGED <<unk08, lifetime, allocated, passes, detours>>

\* ... and from its return.
AccumulateReturns(t) ==
  /\ detours[t] = Idle /\ lights[t] # <<>>
  /\ currentIndex' = [currentIndex EXCEPT ![t] = Head(previous[t])]
  /\ previous' = [previous EXCEPT ![t] = Tail(@)]
  /\ lights' = [lights EXCEPT ![t] = Tail(@)]
  /\ UNCHANGED <<unk08, lifetime, allocated, passes, detours>>

\* The detour of GetRenderPasses_ShadowMapOrMask fixes the index first.
GetRenderPasses(t, p) ==
  /\ detours[t] = Idle /\ lifetime[p] = "alive"
  /\ detours' = [detours EXCEPT ![t] =
       [at |-> "read", property |-> p, block |-> "null", index |-> ValidIndex(currentIndex[t])]]
  /\ UNCHANGED <<unk08, lifetime, allocated, passes, currentIndex, previous, lights>>

UseBlock(t, b) == detours' = [detours EXCEPT ![t].at = "fill", ![t].block = b]

\* GetOrCreateScratch: a published block, or one of its own.
ReadScratch(t) ==
  LET existing == unk08[detours[t].property] IN
  /\ detours[t].at = "read"
  /\ IF existing # "null" THEN UseBlock(t, existing)
     ELSE detours' = [detours EXCEPT ![t].at = "allocate"]
  /\ UNCHANGED <<unk08, lifetime, allocated, passes, currentIndex, previous, lights>>

AllocateScratch(t) ==
  /\ detours[t].at = "allocate"
  /\ \E b \in Blocks \ allocated :
       /\ allocated' = allocated \cup {b}
       /\ passes' = [passes EXCEPT ![b] = {}]
       /\ detours' = [detours EXCEPT ![t].at = "publish", ![t].block = b]
  /\ UNCHANGED <<unk08, lifetime, currentIndex, previous, lights>>

\* Mutant: a plain store.
StoreScratch(t) ==
  /\ detours[t].at = "publish"
  /\ unk08' = [unk08 EXCEPT ![detours[t].property] = detours[t].block]
  /\ UseBlock(t, detours[t].block)
  /\ UNCHANGED <<lifetime, allocated, passes, currentIndex, previous, lights>>

\* _InterlockedCompareExchange64: the loser frees its block and takes the winner's.
PublishScratch(t) ==
  LET prior == unk08[detours[t].property]
      own   == detours[t].block IN
  /\ detours[t].at = "publish"
  /\ IF prior = "null"
     THEN /\ unk08' = [unk08 EXCEPT ![detours[t].property] = own]
          /\ UseBlock(t, own) /\ UNCHANGED allocated
     ELSE /\ allocated' = allocated \ {own}
          /\ UseBlock(t, prior) /\ UNCHANGED unk08
  /\ UNCHANGED <<lifetime, passes, currentIndex, previous, lights>>

\* Clear() and EmplacePass() on the array, and the return to the engine.
FillArray(t) ==
  /\ detours[t].at = "fill"
  /\ passes' = [passes EXCEPT ![detours[t].block] = @ \cup {detours[t].index}]
  /\ detours' = [detours EXCEPT ![t] = Idle]
  /\ UNCHANGED <<unk08, lifetime, allocated, currentIndex, previous, lights>>

\* FreeScratch: all arrays are cleared, the block freed and the field reset.
FreeScratch(p) ==
  /\ allocated' = allocated \ {unk08[p]}
  /\ passes' = [b \in Blocks |-> IF b = unk08[p] THEN {} ELSE passes[b]]
  /\ unk08' = [unk08 EXCEPT ![p] = "null"]

\* The two hooked destructors.  AE's deleting one is hooked as well, and may or may
\* not come through the other.
Destructor(p, from, to) ==
  /\ lifetime[p] \in from /\ \A t \in ShadowThreads : detours[t].property # p
  /\ FreeScratch(p)
  /\ lifetime' = [lifetime EXCEPT ![p] = to]
  /\ UNCHANGED <<detours, currentIndex, previous, lights>>

DeletingDtor(p) == Destructor(p, {"alive"}, "deleting")
Dtor(p) == Destructor(p, {"alive", "deleting"}, "destroyed")

\* The engine makes a property at the address.
Construct(p) ==
  /\ lifetime[p] \in {"deleting", "destroyed"}
  /\ lifetime' = [lifetime EXCEPT ![p] = "alive"]
  /\ unk08' = [unk08 EXCEPT ![p] = "null"]
  /\ UNCHANGED <<allocated, passes, detours, currentIndex, previous, lights>>

ScratchStep(t) ==
  \/ \E d \in Descriptors : AccumulateShadowMap(t, d)
  \/ AccumulateReturns(t)
  \/ \E p \in Properties : GetRenderPasses(t, p)
  \/ ReadScratch(t) \/ AllocateScratch(t) \/ PublishScratch(t) \/ FillArray(t)

ScratchNext ==
  \/ \E t \in ShadowThreads : ScratchStep(t)
  \/ \E p \in Properties : DeletingDtor(p) \/ Dtor(p) \/ Construct(p)

ScratchSpec == ScratchInit /\ [][ScratchNext]_scratchVars
-----------------------------------------------------------------------------
Unpublished(t, b) == detours[t].at = "publish" /\ detours[t].block = b
Published(p, b) == unk08[p] = b

\* GetOrCreateScratch and FreeScratch lose no block and free none in use: an
\* allocated block belongs to one property, or to the one thread about to publish
\* it; what a thread fills is its property's block; and a free block has no passes.
BlockHasOneOwner ==
  /\ \A b \in allocated :
       \/ /\ \E p \in Properties : Published(p, b) /\ \A q \in Properties : Published(q, b) => q = p
          /\ \A t \in ShadowThreads : ~Unpublished(t, b)
       \/ /\ \E t \in ShadowThreads : Unpublished(t, b) /\ \A u \in ShadowThreads : Unpublished(u, b) => u = t
          /\ \A p \in Properties : ~Published(p, b)
  /\ \A p \in Properties : unk08[p] \in allocated \cup {"null"}
  /\ \A t \in ShadowThreads :
       detours[t].at = "fill" => Published(detours[t].property, detours[t].block)
  /\ \A b \in Blocks \ allocated : passes[b] = {}

\* "Keep the active descriptor index local to the calling thread and restore it
\* around nested accumulation": a thread fills the array of the light it is
\* accumulating innermost, 0 for a descriptor that is out of range.
FillsInnermostLight ==
  \A t \in ShadowThreads :
    /\ lights[t] # <<>> => currentIndex[t] = ValidIndex(Head(lights[t]))
    /\ detours[t].at = "fill" /\ lights[t] # <<>> =>
         detours[t].index = ValidIndex(Head(lights[t]))
=============================================================================
