----------------------- MODULE RenderPassCacheProofs -----------------------
(***************************************************************************)
(* RenderPassCache for every number of threads, passes, ring slots and     *)
(* frames, and every width of the frame counter.                           *)
(*                                                                         *)
(* The invariants speak of the parked passes by age: index 0 is the        *)
(* oldest, SlotOf maps an index to its ring slot.  The arithmetic of the   *)
(* ring and of the wrapping counter is settled first.                      *)
(***************************************************************************)
EXTENDS RenderPassCache, TLAPS

\* The parked passes by age, and the frame each was stamped with.
Ages == 0..(s_count - 1)
PassAt(k) == s_ring[SlotOf(k)].pass
FrameAt(k) == s_ring[SlotOf(k)].frame

-----------------------------------------------------------------------------
(* Arithmetic.                                                             *)

\* A sum of two ring indices is reduced by at most one turn.
LEMMA ModOnce ==
  ASSUME NEW K \in Nat \ {0}, NEW x \in 0..(2 * K - 1)
  PROVE  x % K = IF x < K THEN x ELSE x - K
<1>1. CASE x < K
  BY <1>1
<1>2. CASE x >= K
  <2>1. x = K * 1 + (x - K) /\ x - K \in 0..(K - 1)
    BY <1>2
  <2> QED BY <2>1, <1>2
<1> QED BY <1>1, <1>2

\* The difference of two wrapped counters is the frames between them when
\* these are less than a turn of the counter.
LEMMA WrappedDifference ==
  ASSUME NEW m \in Nat \ {0}, NEW a \in Nat, NEW b \in Nat, b <= a, a - b < m
  PROVE  ((a % m) - (b % m)) % m = a - b
<1> DEFINE x == a % m
           y == b % m
           p == a \div m
           q == b \div m
<1>1. /\ x \in 0..(m - 1) /\ y \in 0..(m - 1)
      /\ p \in Int /\ q \in Int
  OBVIOUS
<1>2. a = m * p + x /\ b = m * q + y
  OBVIOUS
<1>3. a - b = m * (p - q) + (x - y)
  BY <1>1, <1>2
<1>4. p - q = 0 \/ p - q = 1
  BY <1>1, <1>3
<1>5. CASE p - q = 0
  BY <1>5, <1>1, <1>3
<1>6. CASE p - q = 1
  BY <1>6, <1>1, <1>3
<1> QED BY <1>4, <1>5, <1>6

\* What Expired says of two frames that were wrapped: it never holds too
\* early, and between frames less than a turn apart it is exact.
LEMMA ExpiredMeans ==
  ASSUME NEW a \in Nat, NEW b \in Nat, b <= a
  PROVE  /\ Expired(a % FrameModulus, b % FrameModulus) => a - b >= QuarantineFrames
         /\ a - b < FrameModulus =>
              (Expired(a % FrameModulus, b % FrameModulus) <=> a - b >= QuarantineFrames)
<1> USE QuarantineAssumption
<1>1. FrameModulus \in Nat \ {0} /\ QuarantineFrames \in Nat /\ QuarantineFrames < FrameModulus
  OBVIOUS
<1>2. CASE a - b < FrameModulus
  <2>1. ((a % FrameModulus) - (b % FrameModulus)) % FrameModulus = a - b
    BY <1>1, <1>2, WrappedDifference
  <2> QED BY <2>1, <1>2 DEF Expired
<1>3. CASE a - b >= FrameModulus
  BY <1>1, <1>3
<1> QED BY <1>2, <1>3, <1>1
-----------------------------------------------------------------------------
(* The ring.                                                               *)

\* The state the ring arithmetic needs.
LEMMA RingBounds ==
  ASSUME TypeOK
  PROVE  /\ MaxQuarantined \in Nat \ {0}
         /\ s_head \in 0..(MaxQuarantined - 1)
         /\ s_count \in 0..MaxQuarantined
  BY QuarantineAssumption DEF TypeOK, Slots

\* The slots of the parked passes, without the modulo.
LEMMA SlotCases ==
  ASSUME TypeOK, NEW k \in Nat, k <= s_count
  PROVE  SlotOf(k) = IF s_head + k < s_count
                     THEN s_head + k - s_count + MaxQuarantined
                     ELSE s_head + k - s_count
<1> DEFINE x == s_head + MaxQuarantined - s_count + k
<1>1. x \in 0..(2 * MaxQuarantined - 1) /\ MaxQuarantined \in Nat \ {0}
  BY RingBounds
<1>2. SlotOf(k) = x % MaxQuarantined
  BY DEF SlotOf
<1>3. x % MaxQuarantined = IF x < MaxQuarantined THEN x ELSE x - MaxQuarantined
  <2> HIDE DEF x
  <2> QED BY <1>1, ModOnce
<1> QED BY <1>2, <1>3, RingBounds

\* Different ages, different slots; all of them slots of the ring.
LEMMA SlotInjective ==
  ASSUME TypeOK
  PROVE  /\ \A k \in Ages : SlotOf(k) \in Slots
         /\ \A k, l \in Ages : SlotOf(k) = SlotOf(l) => k = l
         /\ s_count < MaxQuarantined => \A k \in Ages : SlotOf(k) # s_head
<1>1. \A k \in Ages : k \in Nat /\ k < s_count
  BY RingBounds DEF Ages
<1>2. \A k \in Ages : SlotOf(k) = IF s_head + k < s_count
                                  THEN s_head + k - s_count + MaxQuarantined
                                  ELSE s_head + k - s_count
  BY <1>1, SlotCases, RingBounds
<1> QED BY <1>1, <1>2, RingBounds DEF Slots

\* A full ring parks a pass in every slot.
LEMMA FullRing ==
  ASSUME TypeOK, s_count = MaxQuarantined, NEW i \in Slots
  PROVE  \E k \in Ages : SlotOf(k) = i
<1> DEFINE k == IF i >= s_head THEN i - s_head ELSE i - s_head + MaxQuarantined
<1>1. k \in Ages /\ k \in Nat /\ k <= s_count
  BY RingBounds DEF Slots, Ages
<1>2. SlotOf(k) = IF s_head + k < s_count
                  THEN s_head + k - s_count + MaxQuarantined
                  ELSE s_head + k - s_count
  BY <1>1, SlotCases
<1>3. SlotOf(k) = i
  BY <1>2, RingBounds DEF Slots
<1> QED BY <1>1, <1>3

\* Freeing the oldest pass makes every other one older by one place.
LEMMA FreeShifts ==
  ASSUME TypeOK, s_count > 0, FreeOldest
  PROVE  /\ s_count' \in 0..(MaxQuarantined - 1)
         /\ 0 \in Ages /\ PassAt(0) = s_ring[OldestSlot].pass
         /\ FrameAt(0) = s_ring[OldestSlot].frame
         /\ \A k \in Ages' : /\ k + 1 \in Ages
                             /\ PassAt(k)' = PassAt(k + 1)
                             /\ FrameAt(k)' = FrameAt(k + 1)
<1>1. /\ s_count' = s_count - 1 /\ s_head' = s_head /\ s_ring' = s_ring
      /\ s_count' \in 0..(MaxQuarantined - 1) /\ 0 \in Ages
  BY RingBounds DEF FreeOldest, Ages
<1>2. SlotOf(0) = OldestSlot
  BY RingBounds DEF SlotOf, OldestSlot
<1>3. ASSUME NEW k \in Ages' PROVE k + 1 \in Ages /\ SlotOf(k)' = SlotOf(k + 1)
  <2>1. k \in Int /\ k + 1 \in Ages
    BY <1>1, RingBounds DEF Ages
  <2>2. s_head' + MaxQuarantined - s_count' + k = s_head + MaxQuarantined - s_count + (k + 1)
    BY <1>1, <2>1, RingBounds
  <2> QED BY <2>1, <2>2 DEF SlotOf
<1> QED BY <1>1, <1>2, <1>3 DEF PassAt, FrameAt

\* Parking a pass leaves the others where they are and makes it the youngest.
LEMMA ParkAppends ==
  ASSUME TypeOK, s_count < MaxQuarantined, NEW e, NEW n \in Nat, n = s_count,
         s_ring' = [s_ring EXCEPT ![s_head] = e],
         s_head' = (s_head + 1) % MaxQuarantined,
         s_count' = s_count + 1
  PROVE  /\ s_head' \in Slots /\ s_count' \in 0..MaxQuarantined
         /\ Ages' = Ages \cup {n}
         /\ \A k \in Ages : PassAt(k)' = PassAt(k) /\ FrameAt(k)' = FrameAt(k)
         /\ PassAt(n)' = e.pass /\ FrameAt(n)' = e.frame
<1>1. s_head' = IF s_head + 1 < MaxQuarantined THEN s_head + 1 ELSE 0
  <2> DEFINE x == s_head + 1
  <2>1. x \in 0..(2 * MaxQuarantined - 1) /\ MaxQuarantined \in Nat \ {0}
    BY RingBounds
  <2>2. x % MaxQuarantined = IF x < MaxQuarantined THEN x ELSE x - MaxQuarantined
    <3> HIDE DEF x
    <3> QED BY <2>1, ModOnce
  <2> QED BY <2>2, RingBounds
<1>2. s_head' \in Slots /\ s_count' \in 0..MaxQuarantined /\ Ages' = Ages \cup {n}
  BY <1>1, RingBounds DEF Ages, Slots
<1>3. ASSUME NEW k \in 0..n
      PROVE  SlotOf(k)' = IF k = n THEN s_head ELSE SlotOf(k)
  <2> DEFINE x == s_head' + MaxQuarantined - s_count' + k
  <2>1. x \in 0..(2 * MaxQuarantined - 1) /\ MaxQuarantined \in Nat \ {0}
    BY <1>1, RingBounds
  <2>2. SlotOf(k)' = x % MaxQuarantined
    BY DEF SlotOf
  <2>3. x % MaxQuarantined = IF x < MaxQuarantined THEN x ELSE x - MaxQuarantined
    <3> HIDE DEF x
    <3> QED BY <2>1, ModOnce
  <2>4. SlotOf(k) = IF s_head + k < s_count
                    THEN s_head + k - s_count + MaxQuarantined
                    ELSE s_head + k - s_count
    BY SlotCases, RingBounds
  <2> QED BY <1>1, <2>2, <2>3, <2>4, RingBounds
<1>4. SlotOf(n)' = s_head /\ s_head \in Slots
  BY <1>3, RingBounds DEF Slots
<1>5. \A k \in Ages : SlotOf(k)' = SlotOf(k) /\ SlotOf(k) \in Slots /\ SlotOf(k) # s_head
  BY <1>3, SlotInjective, RingBounds DEF Ages
<1>6. s_ring \in [Slots -> [pass : Pass \cup {NoPass}, frame : Counter]]
  BY DEF TypeOK
<1> QED
  BY <1>2, <1>4, <1>5, <1>6 DEF PassAt, FrameAt
-----------------------------------------------------------------------------
(* The inductive invariant.                                                *)

\* Who holds the lock, and what a thread in Deallocate holds in its hands: a
\* pass of its own, given up by the engine and not tagged yet.
InvLock ==
  /\ \A t \in Threads : pc[t] \in {"drain", "park"} <=> holder = t
  /\ \A t \in Threads : pc[t] = "idle" <=> arg[t] = NoPass
  /\ \A t \in Threads : arg[t] # NoPass => arg[t] \in heap \ live /\ ~retired[arg[t]]
  /\ \A t, u \in Threads : arg[t] # NoPass /\ arg[t] = arg[u] => t = u
  /\ \A t \in Threads : pc[t] = "park" => s_count < MaxQuarantined
  /\ \A p \in live : ~retired[p]

\* Every parked pass is memory of the cache, out of use, tagged, parked once.
InvRing ==
  /\ \A k \in Ages : PassAt(k) \in heap \ live /\ retired[PassAt(k)]
  /\ \A k, l \in Ages : PassAt(k) = PassAt(l) => k = l

\* A pass that is out of use is parked or in the hands of a thread.
InvOwned ==
  \A p \in heap \ live : \/ \E k \in Ages : p = PassAt(k)
                        \/ \E t \in Threads : p = arg[t]

\* What the ring and the holder of the lock remember of the frames: a pass is
\* stamped with the frame in which the lock was taken for it, that is not
\* before it was retired; and the ring is sorted by these frames.
InvTime ==
  /\ ~hasState => frame = 0
  /\ \A p \in Pass : retiredAt[p] <= frame /\ stampedAt[p] <= frame
  /\ \A k \in Ages : /\ FrameAt(k) = stampedAt[PassAt(k)] % FrameModulus
                     /\ retiredAt[PassAt(k)] <= stampedAt[PassAt(k)]
  /\ \A k, l \in Ages : k <= l => stampedAt[PassAt(k)] <= stampedAt[PassAt(l)]
  /\ \A t \in Threads : holder = t =>
       /\ now[t] = stampedAt[arg[t]] % FrameModulus
       /\ retiredAt[arg[t]] <= stampedAt[arg[t]]
       /\ \A k \in Ages : stampedAt[PassAt(k)] <= stampedAt[arg[t]]

IInv == TypeOK /\ InvLock /\ InvRing /\ InvOwned /\ InvTime
-----------------------------------------------------------------------------
(* Each action preserves it.                                               *)

\* A step that leaves the ring alone leaves the parked passes alone.
LEMMA RingSame ==
  ASSUME UNCHANGED ringVars
  PROVE  /\ Ages' = Ages /\ s_count' = s_count
         /\ \A k \in Ages : PassAt(k)' = PassAt(k) /\ FrameAt(k)' = FrameAt(k)
  BY DEF ringVars, Ages, PassAt, FrameAt, SlotOf

\* The frame counter is a counter value, and the number of frames drawn
\* modulo its width: before the first frame both are 0.
LEMMA CurrentFrameIsFrame ==
  ASSUME TypeOK, InvTime
  PROVE  CurrentFrame = frame % FrameModulus /\ CurrentFrame \in Counter
<1>1. FrameModulus \in Nat \ {0} /\ frame \in Nat
  BY QuarantineAssumption DEF TypeOK
<1>2. frame % FrameModulus \in Counter /\ 0 % FrameModulus = 0
  BY <1>1 DEF Counter
<1> QED BY <1>2 DEF CurrentFrame, InvTime

LEMMA InitInv == Init => IInv
<1> SUFFICES ASSUME Init PROVE IInv
  OBVIOUS
<1>1. FrameModulus \in Nat \ {0} /\ MaxQuarantined \in Nat \ {0} /\ NoThread \notin Threads
  BY QuarantineAssumption
<1>2. TypeOK
  BY <1>1 DEF Init, TypeOK, Slots, Counter, PCs
<1>3. Ages = {}
  BY DEF Init, Ages
<1>4. InvLock
  BY <1>1 DEF Init, InvLock
<1>5. InvRing /\ InvOwned
  BY <1>3 DEF Init, InvRing, InvOwned
<1>6. InvTime
  BY <1>1, <1>3 DEF Init, InvTime
<1> QED BY <1>2, <1>4, <1>5, <1>6 DEF IInv

LEMMA EngineInv ==
  ASSUME IInv, StartRenderer \/ NextFrame
  PROVE  IInv'
<1> USE DEF IInv
<1>1. /\ UNCHANGED <<heap, live, retired, ringVars, holder, pc, arg, now, history>>
      /\ frame' \in Nat /\ frame <= frame' /\ hasState' \in BOOLEAN
      /\ ~hasState' => frame' = 0
  <2>1. CASE StartRenderer
    <3>1. frame \in Nat /\ frame' = frame /\ hasState' = TRUE
      BY <2>1 DEF StartRenderer, TypeOK
    <3> QED BY <2>1, <3>1 DEF StartRenderer
  <2>2. CASE NextFrame
    <3>1. frame \in Nat /\ frame' = frame + 1 /\ hasState' = hasState /\ hasState
          /\ hasState \in BOOLEAN
      BY <2>2 DEF NextFrame, TypeOK
    <3> QED BY <2>2, <3>1 DEF NextFrame
  <2> QED BY <2>1, <2>2
<1>2. UNCHANGED ringVars
  BY <1>1
<1>3. TypeOK'
  BY <1>1 DEF TypeOK, ringVars, history
<1>4. InvLock' /\ InvRing' /\ InvOwned'
  BY <1>1, RingSame DEF InvLock, InvRing, InvOwned
<1>5. InvTime'
  BY <1>1, RingSame DEF InvTime, TypeOK, history
<1> QED BY <1>3, <1>4, <1>5

LEMMA AllocateInv ==
  ASSUME IInv, NEW p \in Pass, Allocate(p)
  PROVE  IInv'
<1> USE DEF IInv
<1>1. /\ p \notin heap
      /\ heap' = heap \cup {p} /\ live' = live \cup {p}
      /\ retired' = [retired EXCEPT ![p] = FALSE]
      /\ UNCHANGED <<hasState, frame, ringVars, holder, pc, arg, now, history>>
      /\ UNCHANGED ringVars
  BY DEF Allocate, ClearTag
<1>2. \A q \in Pass : retired'[q] = IF q = p THEN FALSE ELSE retired[q]
  BY <1>1 DEF TypeOK
<1>3. heap' \ live' = heap \ live /\ p \notin heap \ live /\ heap \subseteq Pass
  BY <1>1 DEF TypeOK
<1>4. TypeOK'
  BY <1>1 DEF TypeOK, ringVars, history
<1>5. InvLock'
  BY <1>1, <1>2, <1>3, RingSame DEF InvLock, TypeOK
<1>6. InvRing'
  BY <1>1, <1>2, <1>3, RingSame DEF InvRing
<1>7. InvOwned'
  BY <1>1, <1>3, RingSame DEF InvOwned
<1>8. InvTime'
  BY <1>1, RingSame DEF InvTime, history
<1> QED BY <1>4, <1>5, <1>6, <1>7, <1>8

LEMMA RetireInv ==
  ASSUME IInv, NEW t \in Threads, NEW p \in Pass, Retire(t, p)
  PROVE  IInv'
<1> USE DEF IInv
<1>1. /\ pc[t] = "idle" /\ p \in live
      /\ live' = live \ {p}
      /\ pc' = [pc EXCEPT ![t] = "wait"] /\ arg' = [arg EXCEPT ![t] = p]
      /\ retiredAt' = [retiredAt EXCEPT ![p] = frame]
      /\ UNCHANGED <<hasState, frame, heap, retired, ringVars, holder, now, stampedAt>>
      /\ UNCHANGED ringVars
  BY DEF Retire
<1>2. /\ \A u \in Threads : pc'[u] = IF u = t THEN "wait" ELSE pc[u]
      /\ \A u \in Threads : arg'[u] = IF u = t THEN p ELSE arg[u]
      /\ \A q \in Pass : retiredAt'[q] = IF q = p THEN frame ELSE retiredAt[q]
      /\ p # NoPass
  BY <1>1, QuarantineAssumption DEF TypeOK
<1>3. heap' \ live' = (heap \ live) \cup {p} /\ p \notin heap \ live /\ heap \subseteq Pass
  BY <1>1 DEF TypeOK
<1>4. TypeOK'
  BY <1>1 DEF TypeOK, ringVars, PCs
<1>5. InvLock'
  BY <1>1, <1>2, <1>3, RingSame DEF InvLock
<1>6. InvRing'
  BY <1>1, <1>3, RingSame DEF InvRing
<1>7. InvOwned'
  <2>1. arg[t] = NoPass /\ NoPass \notin heap
    BY <1>1, <1>3, QuarantineAssumption DEF InvLock
  <2>2. ASSUME NEW q \in heap' \ live'
        PROVE  (\E k \in Ages' : q = PassAt(k)') \/ (\E u \in Threads : q = arg'[u])
    <3>1. CASE q = p
      BY <3>1, <1>2
    <3>2. CASE q \in heap \ live
      <4>1. (\E k \in Ages : q = PassAt(k)) \/ (\E u \in Threads : q = arg[u] /\ u # t)
        BY <3>2, <2>1 DEF InvOwned
      <4> QED BY <4>1, <1>1, <1>2, RingSame
    <3> QED BY <3>1, <3>2, <1>3
  <2> QED BY <2>2 DEF InvOwned
<1>8. \A k \in Ages : PassAt(k) \in Pass /\ PassAt(k) # p
  BY <1>1, <1>3 DEF InvRing
<1>9. holder # t /\ \A u \in Threads : holder = u => arg[u] \in Pass /\ arg[u] # p
  BY <1>1, <1>3 DEF InvLock
<1>10. InvTime'
  <2>1. \A q \in Pass : retiredAt'[q] <= frame' /\ stampedAt'[q] <= frame'
    BY <1>1, <1>2 DEF InvTime, TypeOK
  <2>2. \A k \in Ages' : /\ FrameAt(k)' = stampedAt'[PassAt(k)'] % FrameModulus
                         /\ retiredAt'[PassAt(k)'] <= stampedAt'[PassAt(k)']
    BY <1>1, <1>2, <1>8, RingSame DEF InvTime
  <2>3. \A k, l \in Ages' : k <= l => stampedAt'[PassAt(k)'] <= stampedAt'[PassAt(l)']
    BY <1>1, RingSame DEF InvTime
  <2>4. ASSUME NEW u \in Threads, holder' = u
        PROVE  /\ now'[u] = stampedAt'[arg'[u]] % FrameModulus
               /\ retiredAt'[arg'[u]] <= stampedAt'[arg'[u]]
               /\ \A k \in Ages' : stampedAt'[PassAt(k)'] <= stampedAt'[arg'[u]]
    <3>1. holder = u /\ u # t /\ arg'[u] = arg[u] /\ retiredAt'[arg[u]] = retiredAt[arg[u]]
      BY <1>1, <1>2, <1>9, <2>4
    <3> QED BY <1>1, <3>1, RingSame DEF InvTime
  <2>5. ~hasState' => frame' = 0
    BY <1>1 DEF InvTime
  <2> QED BY <2>1, <2>2, <2>3, <2>4, <2>5 DEF InvTime
<1> QED BY <1>4, <1>5, <1>6, <1>7, <1>10

\* A thread that spins has an untagged pass: it gets the lock and goes on.
LEMMA AcquireInv ==
  ASSUME IInv, NEW t \in Threads, Acquire(t)
  PROVE  IInv'
<1> USE DEF IInv
<1> DEFINE p == arg[t]
<1>1. pc[t] = "wait" /\ p \in heap \ live /\ ~retired[p] /\ p \in Pass
  BY DEF Acquire, InvLock, TypeOK
<1>2. /\ holder = NoThread
      /\ pc' = [pc EXCEPT ![t] = "drain"] /\ arg' = [arg EXCEPT ![t] = p]
      /\ holder' = t
      /\ now' = [now EXCEPT ![t] = CurrentFrame]
      /\ stampedAt' = [stampedAt EXCEPT ![p] = frame]
      /\ UNCHANGED <<hasState, frame, heap, live, retired, ringVars, retiredAt>>
      /\ UNCHANGED ringVars
  BY <1>1 DEF Acquire, Begin, AlreadyRetired, SampledFrame
<1>3. /\ arg' = arg
      /\ \A u \in Threads : pc'[u] = IF u = t THEN "drain" ELSE pc[u]
      /\ now'[t] = frame % FrameModulus
      /\ \A q \in Pass : stampedAt'[q] = IF q = p THEN frame ELSE stampedAt[q]
  BY <1>1, <1>2, CurrentFrameIsFrame DEF TypeOK
<1>4. TypeOK'
  BY <1>1, <1>2, CurrentFrameIsFrame DEF TypeOK, ringVars, PCs
<1>5. InvLock'
  BY <1>1, <1>2, <1>3, RingSame, QuarantineAssumption DEF InvLock
<1>6. InvRing'
  BY <1>2, RingSame DEF InvRing
<1>7. InvOwned'
  BY <1>2, <1>3, RingSame DEF InvOwned
<1>8. \A k \in Ages : PassAt(k) \in Pass /\ PassAt(k) # p
  BY <1>1 DEF InvRing, TypeOK
<1>9. \A k \in Ages : stampedAt'[PassAt(k)] = stampedAt[PassAt(k)] /\ stampedAt[PassAt(k)] <= frame
  BY <1>3, <1>8 DEF InvTime
<1>10. InvTime'
  <2>1. \A q \in Pass : retiredAt'[q] <= frame' /\ stampedAt'[q] <= frame'
    BY <1>2, <1>3 DEF InvTime, TypeOK
  <2>2. \A k \in Ages' : /\ FrameAt(k)' = stampedAt'[PassAt(k)'] % FrameModulus
                         /\ retiredAt'[PassAt(k)'] <= stampedAt'[PassAt(k)']
    BY <1>2, <1>9, RingSame DEF InvTime
  <2>3. \A k, l \in Ages' : k <= l => stampedAt'[PassAt(k)'] <= stampedAt'[PassAt(l)']
    BY <1>2, <1>9, RingSame DEF InvTime
  <2>4. ASSUME NEW u \in Threads, holder' = u
        PROVE  /\ now'[u] = stampedAt'[arg'[u]] % FrameModulus
               /\ retiredAt'[arg'[u]] <= stampedAt'[arg'[u]]
               /\ \A k \in Ages' : stampedAt'[PassAt(k)'] <= stampedAt'[arg'[u]]
    <3>1. u = t /\ arg'[u] = p /\ stampedAt'[p] = frame /\ retiredAt'[p] <= frame
      BY <1>1, <1>2, <1>3, <2>4 DEF InvTime
    <3> QED BY <1>2, <1>3, <1>9, <3>1, RingSame
  <2>5. ~hasState' => frame' = 0
    BY <1>2 DEF InvTime
  <2> QED BY <2>1, <2>2, <2>3, <2>4, <2>5 DEF InvTime
<1> QED BY <1>4, <1>5, <1>6, <1>7, <1>10

\* A repeated Deallocate meets a parked, tagged pass and changes nothing.
LEMMA DuplicateIsNoop ==
  ASSUME IInv, NEW t \in Threads, NEW p \in Pass, Duplicate(t, p)
  PROVE  UNCHANGED vars
<1> USE DEF IInv
<1>1. pc[t] = "idle" /\ arg[t] = NoPass /\ p \in heap \ live /\ \A u \in Threads : arg[u] # p
  BY DEF Duplicate, InvLock
<1>2. retired[p]
  BY <1>1 DEF InvOwned, InvRing
<1>3. /\ pc' = [pc EXCEPT ![t] = "idle"] /\ arg' = [arg EXCEPT ![t] = NoPass]
      /\ UNCHANGED <<holder, now, stampedAt>>
      /\ UNCHANGED <<hasState, frame, heap, live, retired, ringVars, retiredAt>>
  BY <1>2 DEF Duplicate, Begin, AlreadyRetired
<1>4. pc' = pc /\ arg' = arg
  BY <1>1, <1>3 DEF TypeOK
<1> QED BY <1>3, <1>4 DEF vars, ringVars

\* FreeOldest, in the drain loop and in the safety valve.
LEMMA FreeInv ==
  ASSUME IInv, s_count > 0, FreeOldest,
         UNCHANGED <<hasState, frame, live, retired, holder, arg, now, history>>,
         pc' \in [Threads -> PCs],
         \A u \in Threads : /\ pc'[u] \in {"drain", "park"} <=> pc[u] \in {"drain", "park"}
                            /\ pc'[u] = "idle" <=> pc[u] = "idle"
  PROVE  IInv'
<1> USE DEF IInv
<1> DEFINE f == PassAt(0)
<1>1. /\ heap' = heap \ {f} /\ UNCHANGED <<s_ring, s_head>>
      /\ s_count' \in 0..(MaxQuarantined - 1) /\ 0 \in Ages
  BY FreeShifts DEF FreeOldest
<1>2. \A k \in Ages' : /\ k + 1 \in Ages
                       /\ PassAt(k)' = PassAt(k + 1)
                       /\ FrameAt(k)' = FrameAt(k + 1)
  BY FreeShifts
<1>3. \A k \in Ages' : k \in Int /\ k >= 0
  BY <1>1 DEF Ages
<1>4. f \notin live /\ retired[f]
  BY <1>1 DEF InvRing
<1>5. TypeOK'
  BY <1>1, <1>4, QuarantineAssumption DEF TypeOK, history
<1>6. InvLock'
  <2>1. \A u \in Threads : arg[u] # NoPass => arg[u] # f
    BY <1>4 DEF InvLock
  <2> QED BY <1>1, <2>1, QuarantineAssumption DEF InvLock
<1>7. InvRing'
  <2>1. ASSUME NEW k \in Ages' PROVE PassAt(k + 1) # f
    <3>1. k + 1 \in Ages /\ k + 1 # 0
      BY <1>2, <1>3
    <3> QED BY <1>1, <3>1 DEF InvRing
  <2>2. \A k \in Ages' : PassAt(k)' \in heap' \ live' /\ retired'[PassAt(k)']
    BY <1>1, <1>2, <2>1 DEF InvRing
  <2>3. ASSUME NEW k \in Ages', NEW l \in Ages', PassAt(k)' = PassAt(l)' PROVE k = l
    <3>1. k + 1 = l + 1
      BY <1>2, <2>3 DEF InvRing
    <3> QED BY <1>3, <3>1
  <2> QED BY <2>2, <2>3 DEF InvRing
<1>8. InvOwned'
  <2>1. ASSUME NEW k \in Ages, k # 0 PROVE k - 1 \in Ages' /\ PassAt(k - 1)' = PassAt(k)
    <3>1. k - 1 \in Ages' /\ (k - 1) + 1 = k
      BY <2>1, RingBounds DEF FreeOldest, Ages
    <3> QED BY <1>2, <3>1
  <2>2. ASSUME NEW q \in heap' \ live'
        PROVE  (\E k \in Ages' : q = PassAt(k)') \/ (\E u \in Threads : q = arg'[u])
    <3>1. q \in heap \ live /\ q # f
      BY <1>1
    <3>2. CASE \E u \in Threads : q = arg[u]
      BY <3>2
    <3>3. ASSUME NEW k \in Ages, q = PassAt(k) PROVE \E l \in Ages' : q = PassAt(l)'
      BY <2>1, <3>1, <3>3
    <3> QED BY <3>1, <3>2, <3>3 DEF InvOwned
  <2> QED BY <2>2 DEF InvOwned
<1>9. InvTime'
  <2>1. \A q \in Pass : retiredAt'[q] <= frame' /\ stampedAt'[q] <= frame'
    BY DEF InvTime, history
  <2>2. \A k \in Ages' : /\ FrameAt(k)' = stampedAt'[PassAt(k)'] % FrameModulus
                         /\ retiredAt'[PassAt(k)'] <= stampedAt'[PassAt(k)']
    BY <1>2 DEF InvTime, history
  <2>3. ASSUME NEW k \in Ages', NEW l \in Ages', k <= l
        PROVE  stampedAt'[PassAt(k)'] <= stampedAt'[PassAt(l)']
    <3>1. k + 1 <= l + 1
      BY <1>3, <2>3
    <3> QED BY <1>2, <3>1 DEF InvTime, history
  <2>4. \A u \in Threads : holder' = u =>
          /\ now'[u] = stampedAt'[arg'[u]] % FrameModulus
          /\ retiredAt'[arg'[u]] <= stampedAt'[arg'[u]]
          /\ \A k \in Ages' : stampedAt'[PassAt(k)'] <= stampedAt'[arg'[u]]
    BY <1>2 DEF InvTime, history
  <2>5. ~hasState' => frame' = 0
    BY DEF InvTime
  <2> QED BY <2>1, <2>2, <2>3, <2>4, <2>5 DEF InvTime
<1> QED BY <1>5, <1>6, <1>7, <1>8, <1>9

LEMMA DrainInv ==
  ASSUME IInv, NEW t \in Threads, Drain(t)
  PROVE  IInv'
<1>1. pc' \in [Threads -> PCs] /\ pc' = pc
  BY DEF IInv, TypeOK, Drain
<1> QED BY <1>1, FreeInv DEF Drain, Draining

LEMMA ForceFreeInv ==
  ASSUME IInv, NEW t \in Threads, ForceFree(t)
  PROVE  IInv'
<1>1. pc[t] = "drain" /\ pc' = [pc EXCEPT ![t] = "park"] /\ pc \in [Threads -> PCs]
  BY DEF IInv, TypeOK, ForceFree
<1>2. /\ pc' \in [Threads -> PCs]
      /\ \A u \in Threads : pc'[u] = IF u = t THEN "park" ELSE pc[u]
  BY <1>1 DEF PCs
<1>3. s_count > 0
  BY QuarantineAssumption DEF ForceFree, RingFull
<1> QED BY <1>1, <1>2, <1>3, FreeInv DEF ForceFree

\* The pass in the holder's hands becomes the youngest parked one.
LEMMA ParkInv ==
  ASSUME IInv, NEW t \in Threads, Park(t)
  PROVE  IInv'
<1> USE DEF IInv
<1> DEFINE p == arg[t]
           e == [pass |-> p, frame |-> now[t]]
           n == s_count
<1>1. /\ pc[t] \in {"drain", "park"} /\ holder = t
      /\ p \in heap \ live /\ ~retired[p] /\ p \in Pass /\ p # NoPass
  BY DEF Park, InvLock, TypeOK
<1>2. s_count < MaxQuarantined /\ n \in Nat
  BY RingBounds DEF Park, RingFull, InvLock
<1>3. /\ retired' = [retired EXCEPT ![p] = TRUE]
      /\ s_ring' = [s_ring EXCEPT ![s_head] = e]
      /\ s_head' = (s_head + 1) % MaxQuarantined
      /\ s_count' = s_count + 1
      /\ holder' = NoThread
      /\ pc' = [pc EXCEPT ![t] = "idle"] /\ arg' = [arg EXCEPT ![t] = NoPass]
      /\ UNCHANGED <<hasState, frame, heap, live, now, history>>
  BY DEF Park
<1>4. /\ s_head' \in Slots /\ s_count' \in 0..MaxQuarantined
      /\ \A k \in Ages' : k \in Ages \/ k = n
      /\ \A k \in Ages : k \in Ages' /\ k < n
      /\ n \in Ages'
      /\ \A k \in Ages : PassAt(k)' = PassAt(k) /\ FrameAt(k)' = FrameAt(k)
  <2>1. /\ s_head' \in Slots /\ s_count' \in 0..MaxQuarantined
        /\ Ages' = Ages \cup {n}
        /\ \A k \in Ages : PassAt(k)' = PassAt(k) /\ FrameAt(k)' = FrameAt(k)
    BY <1>2, <1>3, ParkAppends
  <2>2. \A k \in Ages : k < n
    BY RingBounds DEF Ages
  <2> QED BY <2>1, <2>2
<1>5. ASSUME NEW k \in Ages', k = n PROVE PassAt(k)' = p /\ FrameAt(k)' = now[t]
  <2>1. k \in Nat
    BY <1>2, <1>5
  <2>2. PassAt(k)' = e.pass /\ FrameAt(k)' = e.frame
    BY <1>2, <1>3, <1>5, <2>1, ParkAppends
  <2> QED BY <2>2
<1>6. /\ \A u \in Threads : pc'[u] = IF u = t THEN "idle" ELSE pc[u]
      /\ \A u \in Threads : arg'[u] = IF u = t THEN NoPass ELSE arg[u]
      /\ \A q \in Pass : retired'[q] = IF q = p THEN TRUE ELSE retired[q]
  BY <1>3 DEF TypeOK
<1>7. TypeOK'
  <2>1. e \in [pass : Pass \cup {NoPass}, frame : Counter]
    BY <1>1 DEF TypeOK
  <2> QED BY <1>3, <1>4, <2>1 DEF TypeOK, PCs, history
<1>8. \A k \in Ages : PassAt(k) \in Pass /\ PassAt(k) # p
  BY <1>1 DEF InvRing, TypeOK
<1>9. InvLock'
  <2>1. \A u \in Threads : u # t => pc[u] # "park" /\ arg[u] # p
    BY <1>1 DEF InvLock
  <2>2. \A u \in Threads : arg[u] \in heap => arg[u] \in Pass
    BY DEF TypeOK
  <2>3. \A q \in live : q \in Pass /\ q # p
    BY <1>1 DEF TypeOK
  <2> QED BY <1>1, <1>3, <1>6, <2>1, <2>2, <2>3, QuarantineAssumption DEF InvLock
<1>10. InvRing'
  <2>1. \A k \in Ages : PassAt(k)' = PassAt(k) /\ PassAt(k)' # p
    BY <1>4, <1>8
  <2>2. ASSUME NEW k \in Ages' PROVE PassAt(k)' \in heap' \ live' /\ retired'[PassAt(k)']
    <3>1. CASE k \in Ages
      BY <3>1, <2>1, <1>3, <1>6, <1>8 DEF InvRing
    <3>2. CASE k = n
      BY <3>2, <1>5, <1>1, <1>3, <1>6
    <3> QED BY <3>1, <3>2, <1>4
  <2>3. ASSUME NEW k \in Ages', NEW l \in Ages', PassAt(k)' = PassAt(l)' PROVE k = l
    <3>1. CASE k \in Ages /\ l \in Ages
      BY <3>1, <2>1, <2>3 DEF InvRing
    <3>2. CASE k = n \/ l = n
      BY <3>2, <2>1, <2>3, <1>4, <1>5
    <3> QED BY <3>1, <3>2, <1>4
  <2> QED BY <2>2, <2>3 DEF InvRing
<1>11. InvOwned'
  <2>1. ASSUME NEW q \in heap' \ live'
        PROVE  (\E k \in Ages' : q = PassAt(k)') \/ (\E u \in Threads : q = arg'[u])
    <3>1. q \in heap \ live
      BY <1>3
    <3>2. CASE q = p
      BY <3>2, <1>4, <1>5
    <3>3. ASSUME NEW u \in Threads, q = arg[u], q # p PROVE q = arg'[u]
      BY <3>3, <1>6
    <3>4. ASSUME NEW k \in Ages, q = PassAt(k) PROVE \E l \in Ages' : q = PassAt(l)'
      BY <3>4, <1>4
    <3> QED BY <3>1, <3>2, <3>3, <3>4 DEF InvOwned
  <2> QED BY <2>1 DEF InvOwned
<1>12. InvTime'
  <2>1. ~hasState' => frame' = 0
    BY <1>3 DEF InvTime
  <2>2. \A q \in Pass : retiredAt'[q] <= frame' /\ stampedAt'[q] <= frame'
    BY <1>3 DEF InvTime, history
  <2>3. ASSUME NEW k \in Ages'
        PROVE  /\ FrameAt(k)' = stampedAt'[PassAt(k)'] % FrameModulus
               /\ retiredAt'[PassAt(k)'] <= stampedAt'[PassAt(k)']
    <3>1. CASE k \in Ages
      BY <3>1, <1>3, <1>4 DEF InvTime, history
    <3>2. CASE k = n
      BY <3>2, <1>1, <1>3, <1>5 DEF InvTime, history
    <3> QED BY <3>1, <3>2, <1>4
  <2>4. ASSUME NEW k \in Ages', NEW l \in Ages', k <= l
        PROVE  stampedAt'[PassAt(k)'] <= stampedAt'[PassAt(l)']
    <3>1. CASE k \in Ages /\ l \in Ages
      BY <3>1, <2>4, <1>3, <1>4 DEF InvTime, history
    <3>2. CASE k \in Ages /\ l = n
      BY <3>2, <1>1, <1>3, <1>4, <1>5 DEF InvTime, history
    <3>3. CASE k = n /\ l = n
      <4>1. stampedAt[p] \in Nat
        BY <1>1 DEF TypeOK
      <4> QED BY <3>3, <4>1, <1>3, <1>5 DEF history
    <3>4. ~(k = n /\ l \in Ages)
      <4>1. ASSUME k = n, l \in Ages PROVE FALSE
        <5>1. l < n /\ l \in Int
          BY <4>1, <1>4 DEF Ages
        <5> QED BY <4>1, <5>1, <1>2, <2>4
      <4> QED BY <4>1
    <3> QED BY <3>1, <3>2, <3>3, <3>4, <1>4
  <2>5. \A u \in Threads : holder' # u
    BY <1>3, QuarantineAssumption
  <2> QED BY <2>1, <2>2, <2>3, <2>4, <2>5 DEF InvTime
<1> QED BY <1>7, <1>9, <1>10, <1>11, <1>12

LEMMA StutterInv ==
  ASSUME IInv, UNCHANGED vars
  PROVE  IInv'
<1>1. UNCHANGED ringVars
  BY DEF vars, ringVars
<1> QED
  BY <1>1, RingSame
  DEF vars, ringVars, history, IInv, TypeOK, InvLock, InvRing, InvOwned, InvTime

LEMMA NextInv == IInv /\ [Next]_vars => IInv'
<1> SUFFICES ASSUME IInv, [Next]_vars PROVE IInv'
  OBVIOUS
<1>1. CASE StartRenderer \/ NextFrame
  BY <1>1, EngineInv
<1>2. ASSUME NEW p \in Pass, Allocate(p) PROVE IInv'
  BY <1>2, AllocateInv
<1>3. ASSUME NEW t \in Threads, NEW p \in Pass, Retire(t, p) PROVE IInv'
  BY <1>3, RetireInv
<1>4. ASSUME NEW t \in Threads, NEW p \in Pass, Duplicate(t, p) PROVE IInv'
  BY <1>4, DuplicateIsNoop, StutterInv
<1>5. ASSUME NEW t \in Threads, Acquire(t) PROVE IInv'
  BY <1>5, AcquireInv
<1>6. ASSUME NEW t \in Threads, Drain(t) PROVE IInv'
  BY <1>6, DrainInv
<1>7. ASSUME NEW t \in Threads, ForceFree(t) PROVE IInv'
  BY <1>7, ForceFreeInv
<1>8. ASSUME NEW t \in Threads, Park(t) PROVE IInv'
  BY <1>8, ParkInv
<1>9. CASE UNCHANGED vars
  BY <1>9, StutterInv
<1> QED
  BY <1>1, <1>2, <1>3, <1>4, <1>5, <1>6, <1>7, <1>8, <1>9 DEF Next, Deallocate

\* The inductive invariant holds in every state.
THEOREM Invariance == Spec => []IInv
  BY InitInv, NextInv, PTL DEF Spec
-----------------------------------------------------------------------------
(* What it implies.                                                        *)

\* Deallocate and Allocate keep every variable of the cache in its type: in
\* particular s_count never exceeds the ring or goes below zero.
THEOREM TypeCorrect == Spec => []TypeOK
<1>1. IInv => TypeOK
  BY DEF IInv
<1> QED BY <1>1, Invariance, PTL

\* The parked slots are the slots of the ages.
LEMMA ParkedByAge ==
  /\ ParkedSlots = {SlotOf(k) : k \in Ages}
  /\ Parked = {PassAt(k) : k \in Ages}
  BY DEF ParkedSlots, Parked, Ages, PassAt

\* RingOwnsWhatItFrees: for any number of threads, passes and ring slots, no
\* parked pass is in use, freed or parked twice, so no step frees twice.
THEOREM RingOwned == Spec => []RingOwnsWhatItFrees
<1>1. ASSUME IInv PROVE RingOwnsWhatItFrees
  <2> USE <1>1 DEF IInv
  <2>1. ASSUME NEW i \in ParkedSlots
        PROVE  /\ s_ring[i].pass \in heap \ live /\ retired[s_ring[i].pass]
               /\ \A j \in ParkedSlots : s_ring[i].pass = s_ring[j].pass => i = j
    BY ParkedByAge DEF InvRing, PassAt
  <2>2. Parked \cap InFlight = {}
    BY ParkedByAge DEF InvRing, InvLock, InFlight
  <2> QED BY <2>1, <2>2 DEF RingOwnsWhatItFrees
<1> QED BY <1>1, Invariance, PTL

\* NothingLost: a pass the engine gave up stays in the ring or in the hands of
\* a thread until it is freed.
THEOREM NoLeak == Spec => []NothingLost
<1>1. ASSUME IInv PROVE NothingLost
  <2>1. heap \subseteq Pass
    BY <1>1 DEF IInv, TypeOK
  <2>2. ASSUME NEW q \in heap \ live PROVE q \in Parked \cup InFlight
    BY <1>1, <2>1, <2>2, ParkedByAge, QuarantineAssumption DEF IInv, InvOwned, InFlight
  <2> QED BY <2>2 DEF NothingLost
<1> QED BY <1>1, Invariance, PTL

\* The holder of the lock and the parked passes: the stamps lie between the
\* frame the pass was given up and the holder's own stamp.
LEMMA HolderAges ==
  ASSUME IInv, NEW t \in Threads, holder = t, NEW k \in Ages
  PROVE  /\ PassAt(k) \in Pass /\ arg[t] \in Pass
         /\ retiredAt[PassAt(k)] \in Nat /\ stampedAt[PassAt(k)] \in Nat /\ stampedAt[arg[t]] \in Nat
         /\ retiredAt[PassAt(k)] <= stampedAt[PassAt(k)]
         /\ stampedAt[PassAt(k)] <= stampedAt[arg[t]] /\ stampedAt[arg[t]] <= frame
         /\ Expired(now[t], FrameAt(k)) =>
              stampedAt[arg[t]] - stampedAt[PassAt(k)] >= QuarantineFrames
         /\ stampedAt[arg[t]] - stampedAt[PassAt(k)] < FrameModulus =>
              (Expired(now[t], FrameAt(k)) <=>
                 stampedAt[arg[t]] - stampedAt[PassAt(k)] >= QuarantineFrames)
<1> USE DEF IInv
<1>1. PassAt(k) \in Pass
  BY DEF InvRing, TypeOK
<1>2. arg[t] \in Pass
  <2>1. pc[t] # "idle"
    BY DEF InvLock
  <2> QED BY <2>1 DEF InvLock, TypeOK
<1> DEFINE a == stampedAt[arg[t]]
           b == stampedAt[PassAt(k)]
<1>3. a \in Nat /\ b \in Nat /\ retiredAt[PassAt(k)] \in Nat
  BY <1>1, <1>2 DEF TypeOK
<1>4. b <= a /\ a <= frame /\ retiredAt[PassAt(k)] <= b
  BY <1>1, <1>2 DEF InvTime
<1>5. now[t] = a % FrameModulus /\ FrameAt(k) = b % FrameModulus
  BY DEF InvTime
<1>6. /\ Expired(a % FrameModulus, b % FrameModulus) => a - b >= QuarantineFrames
      /\ a - b < FrameModulus =>
           (Expired(a % FrameModulus, b % FrameModulus) <=> a - b >= QuarantineFrames)
  <2> HIDE DEF a, b
  <2> QED BY <1>3, <1>4, ExpiredMeans
<1> QED BY <1>1, <1>2, <1>3, <1>4, <1>5, <1>6

\* When the oldest pass is younger than the quarantine, all are.
LEMMA AllYoung ==
  ASSUME IInv, NEW t \in Threads, holder = t, 0 \in Ages,
         stampedAt[arg[t]] - stampedAt[PassAt(0)] < QuarantineFrames
  PROVE  \A k \in Ages : ~Expired(now[t], FrameAt(k))
<1>1. QuarantineFrames \in Nat /\ FrameModulus \in Nat /\ QuarantineFrames < FrameModulus
  BY QuarantineAssumption
<1> TAKE k \in Ages
<1>2. stampedAt[PassAt(0)] <= stampedAt[PassAt(k)]
  <2>1. 0 <= k
    BY DEF Ages
  <2> QED BY <2>1 DEF IInv, InvTime
<1>3. /\ stampedAt[PassAt(0)] \in Nat /\ stampedAt[PassAt(k)] \in Nat /\ stampedAt[arg[t]] \in Nat
      /\ stampedAt[arg[t]] - stampedAt[PassAt(k)] < FrameModulus =>
           (Expired(now[t], FrameAt(k)) <=>
              stampedAt[arg[t]] - stampedAt[PassAt(k)] >= QuarantineFrames)
  BY HolderAges
<1>4. stampedAt[arg[t]] - stampedAt[PassAt(k)] < QuarantineFrames
  BY <1>1, <1>2, <1>3
<1> QED BY <1>1, <1>3, <1>4

\* Memory leaves the heap in FreeOldest only, and it is the oldest pass's.
LEMMA OnlyOldestFreed ==
  ASSUME IInv, [Next]_vars, NEW p \in heap \ heap'
  PROVE  \E t \in Threads : /\ Drain(t) \/ ForceFree(t)
                            /\ holder = t /\ 0 \in Ages /\ p = PassAt(0)
                            /\ FrameAt(0) = s_ring[OldestSlot].frame
<1>1. PICK t \in Threads : Drain(t) \/ ForceFree(t)
  <2>1. heap' # heap
    OBVIOUS
  <2>2. ~(StartRenderer \/ NextFrame \/ UNCHANGED vars)
    BY <2>1 DEF StartRenderer, NextFrame, vars
  <2>3. ASSUME NEW q \in Pass PROVE ~Allocate(q)
    BY DEF Allocate
  <2>4. ASSUME NEW u \in Threads, NEW q \in Pass PROVE ~Retire(u, q) /\ ~Duplicate(u, q)
    BY <2>1 DEF Retire, Duplicate, Begin
  <2>5. ASSUME NEW u \in Threads PROVE ~Acquire(u) /\ ~Park(u)
    BY <2>1 DEF Acquire, Begin, Park
  <2> QED BY <2>2, <2>3, <2>4, <2>5 DEF Next, Deallocate
<1>2. holder = t /\ s_count > 0 /\ FreeOldest
  BY <1>1, QuarantineAssumption
  DEF IInv, InvLock, Drain, Draining, ForceFree, RingFull
<1>3. TypeOK
  BY DEF IInv
<1> QED BY <1>1, <1>2, <1>3, FreeShifts DEF FreeOldest

\* NoEarlyFree: for every width of the counter, however it wraps or freezes and
\* however long a thread waited for the lock, a pass is only freed
\* QuarantineFrames frames after the engine gave it up, or because the ring is
\* full of passes that are all younger than that.
THEOREM QuarantineHolds == Spec => NoEarlyFree
<1>1. ASSUME IInv, [Next]_vars, NEW p \in heap \ heap'
      PROVE  \/ frame - retiredAt[p] >= QuarantineFrames
             \/ /\ s_count = MaxQuarantined
                /\ \A i \in Slots : ~Expired(now[holder], s_ring[i].frame)
  <2>1. PICK t \in Threads : /\ Drain(t) \/ ForceFree(t)
                             /\ holder = t /\ 0 \in Ages /\ p = PassAt(0)
                             /\ FrameAt(0) = s_ring[OldestSlot].frame
    BY <1>1, OnlyOldestFreed
  <2>2. TypeOK /\ frame \in Nat /\ QuarantineFrames \in Nat
    BY <1>1, QuarantineAssumption DEF IInv, TypeOK
  <2>3. /\ retiredAt[p] \in Nat /\ stampedAt[p] \in Nat /\ stampedAt[arg[t]] \in Nat
        /\ retiredAt[p] <= stampedAt[p]
        /\ stampedAt[p] <= stampedAt[arg[t]] /\ stampedAt[arg[t]] <= frame
        /\ Expired(now[t], FrameAt(0)) => stampedAt[arg[t]] - stampedAt[p] >= QuarantineFrames
    BY <1>1, <2>1, HolderAges
  <2>4. CASE Drain(t)
    BY <2>1, <2>2, <2>3, <2>4 DEF Drain, Draining
  <2>5. CASE ForceFree(t) /\ frame - retiredAt[p] < QuarantineFrames
    <3>1. s_count = MaxQuarantined
      BY <2>5 DEF ForceFree, RingFull
    <3>2. stampedAt[arg[t]] - stampedAt[PassAt(0)] < QuarantineFrames
      BY <2>1, <2>2, <2>3, <2>5
    <3>3. \A k \in Ages : ~Expired(now[t], FrameAt(k))
      BY <1>1, <2>1, <3>2, AllYoung
    <3>4. ASSUME NEW i \in Slots PROVE ~Expired(now[holder], s_ring[i].frame)
      BY <2>1, <2>2, <3>1, <3>3, FullRing DEF FrameAt
    <3> QED BY <3>1, <3>4
  <2> QED BY <2>1, <2>2, <2>3, <2>4, <2>5
<1>2. IInv /\ [Next]_vars => [\A p \in heap \ heap' :
       \/ frame - retiredAt[p] >= QuarantineFrames
       \/ /\ s_count = MaxQuarantined
          /\ \A i \in Slots : ~Expired(now[holder], s_ring[i].frame)]_vars
  BY <1>1
<1> QED BY <1>2, Invariance, PTL DEF Spec, NoEarlyFree

\* Only the thread itself leaves its drain loop.
LEMMA LeavesDrain ==
  ASSUME IInv, [Next]_vars, NEW t \in Threads, pc[t] = "drain", pc'[t] # "drain"
  PROVE  /\ holder = t /\ ~Draining(t)
         /\ ForceFree(t) \/ (Park(t) /\ ~RingFull)
<1> USE DEF IInv
<1>1. holder = t /\ holder # NoThread /\ pc \in [Threads -> PCs]
  BY QuarantineAssumption DEF InvLock, TypeOK
<1>2. pc' # pc
  OBVIOUS
<1>3. ~(StartRenderer \/ NextFrame \/ UNCHANGED vars)
  BY <1>2 DEF StartRenderer, NextFrame, vars
<1>4. ASSUME NEW q \in Pass PROVE ~Allocate(q)
  BY <1>2 DEF Allocate
<1>5. ASSUME NEW u \in Threads, NEW q \in Pass PROVE ~Retire(u, q) /\ ~Duplicate(u, q)
  BY <1>1 DEF Retire, Duplicate, Begin
<1>6. ASSUME NEW u \in Threads PROVE ~Acquire(u) /\ ~Drain(u)
  BY <1>1, <1>2 DEF Acquire, Begin, Drain
<1>7. PICK u \in Threads : ForceFree(u) \/ Park(u)
  BY <1>3, <1>4, <1>5, <1>6 DEF Next, Deallocate
<1>8. pc[u] \in {"drain", "park"}
  BY <1>7 DEF ForceFree, Park
<1>9. u = t
  BY <1>1, <1>8 DEF InvLock
<1> QED BY <1>1, <1>7, <1>9 DEF ForceFree, Park

\* NothingOverdueLeft: for every width of the counter, when a call has drained
\* the ring, no pass older than the quarantine is left in it, unless the oldest
\* one has been parked for a whole turn of the counter.
THEOREM QuarantineEnds == Spec => NothingOverdueLeft
<1>1. ASSUME IInv, [Next]_vars, NEW t \in Threads, pc[t] = "drain", pc'[t] # "drain"
      PROVE  \/ \A i \in ParkedSlots' : ~Expired(now[t], s_ring'[i].frame)
             \/ \E p \in Parked : stampedAt[arg[t]] - stampedAt[p] >= FrameModulus
  <2>1. holder = t /\ ~Draining(t) /\ (ForceFree(t) \/ (Park(t) /\ ~RingFull))
    BY <1>1, LeavesDrain
  <2>2. TypeOK
    BY <1>1 DEF IInv
  <2>3. FrameModulus \in Nat \ {0} /\ QuarantineFrames \in Nat \ {0}
    BY QuarantineAssumption
  <2>4. SUFFICES ASSUME \A p \in Parked : ~(stampedAt[arg[t]] - stampedAt[p] >= FrameModulus)
                 PROVE  \A k \in Ages' : ~Expired(now[t], FrameAt(k)')
    BY DEF ParkedSlots, Ages, FrameAt
  <2>5. \A k \in Ages : ~Expired(now[t], FrameAt(k))
    <3>1. CASE Ages = {}
      BY <3>1
    <3>2. CASE Ages # {}
      <4>1. 0 \in Ages /\ s_count > 0
        BY <2>2, <3>2, RingBounds DEF Ages
      <4>2. OldestSlot = SlotOf(0)
        BY <2>2, RingBounds DEF OldestSlot, SlotOf
      <4>3. ~Expired(now[t], FrameAt(0))
        BY <1>1, <2>1, <4>1, <4>2 DEF Draining, FrameAt
      <4>4. PassAt(0) \in Parked
        BY <4>1, ParkedByAge
      <4>5. stampedAt[arg[t]] - stampedAt[PassAt(0)] < QuarantineFrames
        BY <1>1, <2>1, <2>3, <2>4, <4>1, <4>3, <4>4, HolderAges
      <4> QED BY <1>1, <2>1, <4>1, <4>5, AllYoung
    <3> QED BY <3>1, <3>2
  <2>6. CASE ForceFree(t)
    <3>1. s_count > 0 /\ FreeOldest
      BY <2>6, QuarantineAssumption DEF ForceFree, RingFull
    <3> QED BY <2>2, <2>5, <3>1, FreeShifts
  <2>7. CASE Park(t) /\ ~RingFull
    <3> DEFINE n == s_count
               e == [pass |-> arg[t], frame |-> now[t]]
    <3>1. n \in Nat /\ s_count < MaxQuarantined
      BY <2>2, <2>7, RingBounds DEF RingFull
    <3>2. /\ Ages' = Ages \cup {n}
          /\ \A k \in Ages : FrameAt(k)' = FrameAt(k)
          /\ \A m \in Nat : m = s_count => FrameAt(m)' = e.frame
      BY <2>2, <2>7, <3>1, ParkAppends DEF Park
    <3>3. now[t] \in Int /\ ~Expired(now[t], now[t])
      <4>1. now[t] \in Int /\ now[t] - now[t] = 0
        BY <2>2, QuarantineAssumption DEF TypeOK, Counter
      <4>2. 0 % FrameModulus = 0
        BY <2>3
      <4> QED BY <4>1, <4>2, <2>3 DEF Expired
    <3>4. ASSUME NEW k \in Ages' PROVE ~Expired(now[t], FrameAt(k)')
      <4>1. CASE k \in Ages
        BY <4>1, <2>5, <3>2
      <4>2. CASE k = s_count
        BY <4>2, <3>1, <3>2, <3>3
      <4> QED BY <3>2, <4>1, <4>2
    <3> QED BY <3>4
  <2> QED BY <2>1, <2>6, <2>7
<1>2. IInv /\ [Next]_vars =>
       [\A t \in Threads : pc[t] = "drain" /\ pc'[t] # "drain" =>
          \/ \A i \in ParkedSlots' : ~Expired(now[t], s_ring'[i].frame)
          \/ \E p \in Parked : stampedAt[arg[t]] - stampedAt[p] >= FrameModulus]_vars
  BY <1>1
<1> QED BY <1>2, Invariance, PTL DEF Spec, NothingOverdueLeft
=============================================================================
