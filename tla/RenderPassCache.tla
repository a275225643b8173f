-------------------------- MODULE RenderPassCache --------------------------
(***************************************************************************)
(* The render pass replacement of src/memory/renderpass_cache.h: passes    *)
(* come from the general allocator, and a freed pass is parked in a FIFO   *)
(* ring until QuarantineFrames engine frames have gone by, because a draw  *)
(* may still walk a stale bucket entry that leads to it.                   *)
(*                                                                         *)
(* A pass is its address.  An address is in the heap while its memory is   *)
(* owned by this cache and in live while the engine references it; an      *)
(* address outside the heap may be handed out again.  The scene lights     *)
(* array of a pass is allocated by Allocate and freed by FreeNow together  *)
(* with the pass and is not a separate state here.                         *)
(*                                                                         *)
(* s_retireLock is taken atomically: SpinLock shows that util::SpinLock    *)
(* implements such a lock.                                                 *)
(***************************************************************************)
EXTENDS Integers

CONSTANTS
  Threads,           \* engine threads that retire passes
  Pass,              \* addresses a pass can have
  QuarantineFrames,  \* kQuarantineFrames
  MaxQuarantined,    \* kMaxQuarantined
  FrameModulus,      \* 2^32: State::frameCount is a uint32_t
  MaxFrame,          \* bound on the frames drawn
  NoThread, NoPass

ASSUME QuarantineAssumption ==
  /\ FrameModulus \in Nat /\ QuarantineFrames \in 1..(FrameModulus - 1)
  /\ MaxQuarantined \in Nat \ {0}
  /\ MaxFrame \in Nat
  /\ NoThread \notin Threads /\ NoPass \notin Pass

VARIABLES
  hasState,   \* BSGraphics::State exists (GetSingleton() is not null)
  frame,      \* frames drawn so far; frameCount is this modulo FrameModulus
  heap,       \* addresses whose memory this cache owns
  live,       \* passes the engine still uses
  retired,    \* pad44 = kRetiredTag, per address (stays in freed memory)
  s_ring, s_head, s_count,
  holder,     \* owner of s_retireLock
  pc, arg,    \* where each thread is in Deallocate, and its a_renderPass
  now,        \* Deallocate's local
  retiredAt,  \* history: the frame in which the engine gave the pass up
  stampedAt   \* history: the frame in which Deallocate got the lock for it

ringVars == <<s_ring, s_head, s_count>>
history == <<retiredAt, stampedAt>>
vars == <<hasState, frame, heap, live, retired, s_ring, s_head, s_count,
          holder, pc, arg, now, retiredAt, stampedAt>>

Slots == 0..(MaxQuarantined - 1)
Counter == 0..(FrameModulus - 1)
\* "wait" spins on the lock; "drain" is the while loop; "park" is past the
\* safety valve.
PCs == {"idle", "wait", "drain", "park"}

TypeOK ==
  /\ hasState \in BOOLEAN /\ frame \in Nat
  /\ heap \subseteq Pass /\ live \subseteq heap
  /\ retired \in [Pass -> BOOLEAN]
  /\ s_ring \in [Slots -> [pass : Pass \cup {NoPass}, frame : Counter]]
  /\ s_head \in Slots /\ s_count \in 0..MaxQuarantined
  /\ holder \in Threads \cup {NoThread}
  /\ pc \in [Threads -> PCs]
  /\ arg \in [Threads -> Pass \cup {NoPass}]
  /\ now \in [Threads -> Counter]
  /\ retiredAt \in [Pass -> Nat] /\ stampedAt \in [Pass -> Nat]

Init ==
  /\ hasState \in BOOLEAN /\ frame = 0
  /\ heap = {} /\ live = {} /\ retired = [p \in Pass |-> FALSE]
  /\ s_ring = [i \in Slots |-> [pass |-> NoPass, frame |-> 0]]
  /\ s_head = 0 /\ s_count = 0
  /\ holder = NoThread
  /\ pc = [t \in Threads |-> "idle"] /\ arg = [t \in Threads |-> NoPass]
  /\ now = [t \in Threads |-> 0]
  /\ retiredAt = [p \in Pass |-> 0] /\ stampedAt = [p \in Pass |-> 0]
-----------------------------------------------------------------------------
(* The engine.                                                             *)

\* The renderer comes up; no frame is counted before.
StartRenderer ==
  /\ ~hasState /\ hasState' = TRUE
  /\ UNCHANGED <<frame, heap, live, retired, ringVars, holder, pc, arg, now, history>>

\* A frame is drawn.  A frozen counter is a behaviour without this step.
NextFrame ==
  /\ hasState /\ frame < MaxFrame /\ frame' = frame + 1
  /\ UNCHANGED <<hasState, heap, live, retired, ringVars, holder, pc, arg, now, history>>
-----------------------------------------------------------------------------
(* Operators of the code.                                                  *)

\* CurrentFrame(): what the code can see of the frame counter.
CurrentFrame == IF hasState THEN frame % FrameModulus ELSE 0

\* Mutant: the frame is sampled before the lock is taken, when p was retired.
BackdatedSample(p) == retiredAt[p] % FrameModulus

\* The frame Deallocate stamps p with, sampled under the lock.
SampledFrame(p) == CurrentFrame

\* Mutant: the age is compared as stamp + 3 <= now, which does not survive
\* the wrap of the counter.
ExpiredByDeadline(n, stamp) == (stamp + QuarantineFrames) % FrameModulus <= n

\* Mutant: off by one, the last protected frame is given away.
ExpiredOneEarly(n, stamp) == (n - stamp) % FrameModulus >= QuarantineFrames - 1

\* now - oldest.frame >= kQuarantineFrames, in uint32_t arithmetic.
Expired(n, stamp) == (n - stamp) % FrameModulus >= QuarantineFrames

\* Mutant: the slot after the oldest one.
SlotAfterOldest == (s_head + MaxQuarantined - s_count + 1) % MaxQuarantined

\* The slot of the oldest parked pass.
OldestSlot == (s_head + MaxQuarantined - s_count) % MaxQuarantined

\* FreeOldest() with FreeNow(): the caller owns s_retireLock.
FreeOldest ==
  /\ heap' = heap \ {s_ring[OldestSlot].pass}
  /\ s_count' = s_count - 1
  /\ UNCHANGED <<s_ring, s_head>>
-----------------------------------------------------------------------------
(* The operations.                                                         *)

\* Mutant: the recycled memory keeps pad44.
ClearTagNever(p) == UNCHANGED retired

\* Allocate's memset and pad44 = 0.
ClearTag(p) == retired' = [retired EXCEPT ![p] = FALSE]

\* Allocate(): the allocator returns some free address.
Allocate(p) ==
  /\ p \notin heap
  /\ heap' = heap \cup {p} /\ live' = live \cup {p}
  /\ ClearTag(p)
  /\ UNCHANGED <<hasState, frame, ringVars, holder, pc, arg, now, history>>

\* The engine drops its last use of p and calls Deallocate(p).
Retire(t, p) ==
  /\ pc[t] = "idle" /\ p \in live
  /\ live' = live \ {p}
  /\ pc' = [pc EXCEPT ![t] = "wait"] /\ arg' = [arg EXCEPT ![t] = p]
  /\ retiredAt' = [retiredAt EXCEPT ![p] = frame]
  /\ UNCHANGED <<hasState, frame, heap, retired, ringVars, holder, now, stampedAt>>

\* Mutant: the double Deallocate is not noticed.
AlreadyRetiredNever(p) == FALSE

\* a_renderPass->pad44 == kRetiredTag
AlreadyRetired(p) == retired[p]

\* Deallocate from the lock to the drain loop, for thread t and pass p.
Begin(t, p) ==
  /\ holder = NoThread
  /\ IF AlreadyRetired(p)
     THEN /\ pc' = [pc EXCEPT ![t] = "idle"] /\ arg' = [arg EXCEPT ![t] = NoPass]
          /\ UNCHANGED <<holder, now, stampedAt>>
     ELSE /\ pc' = [pc EXCEPT ![t] = "drain"] /\ arg' = [arg EXCEPT ![t] = p]
          /\ holder' = t
          /\ now' = [now EXCEPT ![t] = SampledFrame(p)]
          /\ stampedAt' = [stampedAt EXCEPT ![p] = frame]
  /\ UNCHANGED <<hasState, frame, heap, live, retired, ringVars, retiredAt>>

Acquire(t) == pc[t] = "wait" /\ Begin(t, arg[t])

\* The engine calls Deallocate(p) a second time.  The tag it is caught by is
\* in p's own memory, so this is only meaningful while p is still parked: the
\* environment is assumed not to repeat the call later, or to let a repeated
\* call wait for the lock for QuarantineFrames frames.
Duplicate(t, p) ==
  /\ pc[t] = "idle" /\ p \in heap \ live /\ \A u \in Threads : arg[u] # p
  /\ Begin(t, p)

Draining(t) ==
  /\ pc[t] = "drain" /\ s_count > 0
  /\ Expired(now[t], s_ring[OldestSlot].frame)

\* Mutant: the loop is an if, at most one pass is freed per call.
DrainOnce(t) ==
  /\ Draining(t)
  /\ FreeOldest
  /\ pc' = [pc EXCEPT ![t] = "park"]
  /\ UNCHANGED <<hasState, frame, live, retired, holder, arg, now, history>>

\* One turn of the while loop.
Drain(t) ==
  /\ Draining(t)
  /\ FreeOldest
  /\ UNCHANGED <<hasState, frame, live, retired, holder, pc, arg, now, history>>

\* Mutant: the valve is tested one entry too late and the ring overruns.
RingFullLate == s_count > MaxQuarantined

\* s_count == kMaxQuarantined
RingFull == s_count = MaxQuarantined

\* The safety valve: nothing has expired and the ring is full.
ForceFree(t) ==
  /\ pc[t] = "drain" /\ ~Draining(t) /\ RingFull
  /\ FreeOldest
  /\ pc' = [pc EXCEPT ![t] = "park"]
  /\ UNCHANGED <<hasState, frame, live, retired, holder, arg, now, history>>

\* The pass is tagged and enters the ring; the lock is released.
Park(t) ==
  /\ pc[t] = "park" \/ (pc[t] = "drain" /\ ~Draining(t) /\ ~RingFull)
  /\ retired' = [retired EXCEPT ![arg[t]] = TRUE]
  /\ s_ring' = [s_ring EXCEPT ![s_head] = [pass |-> arg[t], frame |-> now[t]]]
  /\ s_head' = (s_head + 1) % MaxQuarantined
  /\ s_count' = s_count + 1
  /\ holder' = NoThread
  /\ pc' = [pc EXCEPT ![t] = "idle"] /\ arg' = [arg EXCEPT ![t] = NoPass]
  /\ UNCHANGED <<hasState, frame, heap, live, now, history>>

Deallocate(t) == Acquire(t) \/ Drain(t) \/ ForceFree(t) \/ Park(t)

Next ==
  \/ StartRenderer \/ NextFrame
  \/ \E p \in Pass : Allocate(p)
  \/ \E t \in Threads, p \in Pass : Retire(t, p) \/ Duplicate(t, p)
  \/ \E t \in Threads : Deallocate(t)

Spec == Init /\ [][Next]_vars
-----------------------------------------------------------------------------
(* Properties.                                                             *)

\* The ring slots that hold a parked pass, oldest first: Parked(0) is oldest.
SlotOf(k) == (s_head + MaxQuarantined - s_count + k) % MaxQuarantined
ParkedSlots == {SlotOf(k) : k \in 0..(s_count - 1)}
Parked == {s_ring[i].pass : i \in ParkedSlots}
InFlight == {arg[t] : t \in Threads} \ {NoPass}

\* Deallocate/FreeOldest: what the ring will free is memory it owns, that the
\* engine no longer uses, that is tagged against a double Deallocate, and that
\* no other slot frees again.  A pass a thread is still retiring is not in it.
RingOwnsWhatItFrees ==
  /\ \A i \in ParkedSlots :
       /\ s_ring[i].pass \in heap \ live
       /\ retired[s_ring[i].pass]
       /\ \A j \in ParkedSlots : s_ring[i].pass = s_ring[j].pass => i = j
  /\ Parked \cap InFlight = {}

\* Allocate/Deallocate: a pass that the engine gave up is parked or about to
\* be; none is leaked, also when its address was parked and freed before.
NothingLost == heap \ live \subseteq Parked \cup InFlight

\* Deallocate: a pass is freed no earlier than QuarantineFrames frames after
\* the engine gave it up, however the counter wraps or freezes and however
\* long a thread waited for the lock; the one exception is a ring full of
\* passes that are all too young, whose oldest is given up.
NoEarlyFree ==
  [][\A p \in heap \ heap' :
       \/ frame - retiredAt[p] >= QuarantineFrames
       \/ /\ s_count = MaxQuarantined
          /\ \A i \in Slots : ~Expired(now[holder], s_ring[i].frame)]_vars

\* Deallocate: when the drain loop is over, everything left in the ring is
\* younger than QuarantineFrames by the clock of this call, so memory is held
\* back for a bounded number of frames only.  (Unless a parked pass sat there
\* for a whole turn of the counter: it looks young and stops the loop.)
NothingOverdueLeft ==
  [][\A t \in Threads : pc[t] = "drain" /\ pc'[t] # "drain" =>
       \/ \A i \in ParkedSlots' : ~Expired(now[t], s_ring'[i].frame)
       \/ \E p \in Parked : stampedAt[arg[t]] - stampedAt[p] >= FrameModulus]_vars
=============================================================================
