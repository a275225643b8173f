------------------------ MODULE AlphaGeometryGroups ------------------------
(***************************************************************************)
(* fixes/batchrenderer_alphageometrygroup_overflow.h.  The culling threads *)
(* claim slots of the alpha geometry groups by adding to one counter; the  *)
(* engine's `lock xadd` never looks at the capacity.  The patch claims with *)
(* a compare-and-exchange loop that stops at a limit and then takes the    *)
(* function's exit without a group.  Later SortAlphaGeometryGroups sorts   *)
(* as many entries as the counter says and resets it.                      *)
(***************************************************************************)
EXTENDS Naturals

CONSTANTS
  Claimers,        \* threads in StartGroupingAlphas
  Capacity,        \* kCapacityFlat, kCapacityVR
  CapacityMargin,  \* kCapacityMargin
  Requests         \* values of iBatchRendererAlphaGeometryGroupLimit

ASSUME AlphaAssumption ==
  /\ Capacity \in Nat /\ CapacityMargin \in 0..Capacity
  /\ Requests \subseteq Nat /\ 0 \in Requests

VARIABLES
  limit,       \* what Install passes to the patch
  counter,     \* the engine's slot counter
  claims,      \* per thread: where it is, and the counter it has read (EAX)
  groupWrites  \* how often each slot was filled since the last sort

alphaVars == <<limit, counter, claims, groupWrites>>

Slots == 0..(Capacity - 1)
ClaimStep == {"outside", "load", "exchange", "fill", "noGroup"}

\* Install(): 0 asks for the default, anything else is cut to the capacity.
Limit(requested) ==
  IF requested = 0 THEN Capacity - CapacityMargin
  ELSE IF requested < Capacity THEN requested ELSE Capacity

AlphaStart(requested) ==
  /\ limit = Limit(requested) /\ counter = 0
  /\ claims = [t \in Claimers |-> [at |-> "outside", seen |-> 0]]
  /\ groupWrites = [s \in Slots |-> 0]

AlphaInit == \E requested \in Requests : AlphaStart(requested)

Go(t, step, seen) == claims' = [claims EXCEPT ![t] = [at |-> step, seen |-> seen]]

\* A thread reaches the patched instruction.
StartGrouping(t) ==
  /\ claims[t].at = "outside"
  /\ Go(t, "load", 0)
  /\ UNCHANGED <<limit, counter, groupWrites>>

\* mov eax,[rcx]; cmp eax,limit; jae noGroupExit
LoadCounter(t) ==
  /\ claims[t].at = "load"
  /\ Go(t, IF counter >= limit THEN "noGroup" ELSE "exchange", counter)
  /\ UNCHANGED <<limit, counter, groupWrites>>

\* Mutant: the engine's own instruction after the comparison.
ExchangeAdd(t) ==
  /\ claims[t].at = "exchange"
  /\ counter' = counter + 1 /\ Go(t, "fill", counter)
  /\ UNCHANGED <<limit, groupWrites>>

\* lock cmpxchg [rcx],edx; jne retry
CompareExchange(t) ==
  /\ claims[t].at = "exchange"
  /\ IF counter = claims[t].seen
     THEN counter' = counter + 1 /\ Go(t, "fill", claims[t].seen)
     ELSE UNCHANGED counter /\ Go(t, "load", 0)
  /\ UNCHANGED <<limit, groupWrites>>

\* The engine's code at the resume address fills slot EAX.
FillGroup(t) ==
  /\ claims[t].at = "fill"
  /\ groupWrites' = [groupWrites EXCEPT ![claims[t].seen] = @ + 1]
  /\ Go(t, "outside", 0)
  /\ UNCHANGED <<limit, counter>>

\* The function's exit for a geometry that gets no group.
LeaveWithoutGroup(t) ==
  /\ claims[t].at = "noGroup"
  /\ Go(t, "outside", 0)
  /\ UNCHANGED <<limit, counter, groupWrites>>

\* The engine's sort, once the threads are done.
SortAlphaGeometryGroups ==
  /\ \A t \in Claimers : claims[t].at = "outside"
  /\ counter > 0 /\ counter' = 0
  /\ groupWrites' = [s \in Slots |-> 0]
  /\ UNCHANGED <<limit, claims>>

AlphaStep(t) ==
  StartGrouping(t) \/ LoadCounter(t) \/ CompareExchange(t) \/ FillGroup(t) \/ LeaveWithoutGroup(t)

AlphaNext == (\E t \in Claimers : AlphaStep(t)) \/ SortAlphaGeometryGroups

AlphaSpec == AlphaInit /\ [][AlphaNext]_alphaVars
-----------------------------------------------------------------------------
AlphaTypeOK ==
  /\ limit \in Nat /\ counter \in Nat
  /\ claims \in [Claimers -> [at : ClaimStep, seen : Nat]]
  /\ groupWrites \in [Slots -> Nat]

Filling(t, s) == claims[t].at = "fill" /\ claims[t].seen = s

\* The counter is the number of entries the sort looks at: it stays within the
\* array, and every slot below it is filled once, or is about to be by exactly
\* one thread, whatever the threads' order and the user's limit.
SlotsClaimedOnce ==
  /\ counter <= limit /\ limit <= Capacity
  /\ \A s \in Slots :
       /\ groupWrites[s] <= 1
       /\ s < counter <=> groupWrites[s] = 1 \/ \E t \in Claimers : Filling(t, s)
       /\ \A t, u \in Claimers : Filling(t, s) /\ Filling(u, s) => t = u
       /\ groupWrites[s] = 1 => \A t \in Claimers : ~Filling(t, s)
=============================================================================
