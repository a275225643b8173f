-------------------------- MODULE ShadowLightProofs --------------------------
(***************************************************************************)
(* ShadowLightDeferredFree for any number of lights and job threads and    *)
(* every size of the queue.                                                *)
(***************************************************************************)
EXTENDS ShadowLightDeferredFree, Integers, SequenceTheorems, TLAPS

LightTypeOK ==
  /\ renderThreadId \in {NoThread, Render}
  /\ queue \in Seq(Light) /\ hasDeferredFrees \in BOOLEAN
  /\ life \in [Light -> {"live", "released", "destroyed"}]
  /\ pc \in [Threads -> {"idle", "lock", "run"}]
  /\ arg \in [Threads -> Light \cup {NoLight}]
  /\ entry \in Light \cup {NoLight}

\* A thread has an argument while it is in Thunk, the drain an entry while it destroys it.
Occupied ==
  /\ \A t \in Threads : arg[t] # NoLight <=> pc[t] # "idle"
  /\ entry # NoLight <=> phase = "destroy"

\* DestroyedOnce, light by light.
Held(l) == l \in Queued \/ l = entry \/ \E t \in Threads : arg[t] = l

ReleasedIsHeld == \A l \in Light : life[l] = "released" <=> Held(l)

QueueDiffers == \A i, j \in DOMAIN queue : queue[i] = queue[j] => i = j

HeldOnce ==
  /\ \A t \in Threads : arg[t] # NoLight =>
       arg[t] \notin Queued \cup {entry} /\ \A u \in Threads \ {t} : arg[u] # arg[t]
  /\ entry \notin Queued

LightIInv ==
  LightTypeOK /\ Occupied /\ ReleasedIsHeld /\ QueueDiffers /\ HeldOnce
  /\ ListedLightsExist /\ FlagCoversQueue
-----------------------------------------------------------------------------
(* The queue as a sequence of different lights.                            *)

Lights(q) == {q[i] : i \in DOMAIN q}
Differ(q) == \A i, j \in DOMAIN q : q[i] = q[j] => i = j

LEMMA Pushed ==
  ASSUME NEW q \in Seq(Light), NEW l \in Light
  PROVE  /\ Append(q, l) \in Seq(Light)
         /\ Lights(Append(q, l)) = Lights(q) \cup {l}
         /\ Differ(q) /\ l \notin Lights(q) => Differ(Append(q, l))
<1> DEFINE r == Append(q, l)
<1>1. /\ r \in Seq(Light) /\ Len(r) = Len(q) + 1 /\ Len(q) \in Nat
      /\ DOMAIN q = 1..Len(q) /\ DOMAIN r = 1..(Len(q) + 1)
      /\ \A i \in 1..Len(q) : r[i] = q[i]
      /\ r[Len(q) + 1] = l
  OBVIOUS
<1> HIDE DEF r
<1>2. Lights(r) = Lights(q) \cup {l}
  <2>1. \A i \in DOMAIN r : i \in DOMAIN q \/ i = Len(q) + 1
    BY <1>1
  <2>2. \A i \in DOMAIN q : i \in DOMAIN r /\ r[i] = q[i]
    BY <1>1
  <2>3. Len(q) + 1 \in DOMAIN r
    BY <1>1
  <2> QED BY <1>1, <2>1, <2>2, <2>3 DEF Lights
<1>3. ASSUME Differ(q), l \notin Lights(q) PROVE Differ(r)
  BY <1>1, <1>3 DEF Differ, Lights
<1> QED BY <1>1, <1>2, <1>3 DEF r

LEMMA Popped ==
  ASSUME NEW q \in Seq(Light), q # <<>>
  PROVE  /\ Last(q) \in Lights(q) /\ Last(q) \in Light /\ Front(q) \in Seq(Light)
         /\ Differ(q) => Lights(Front(q)) = Lights(q) \ {Last(q)} /\ Differ(Front(q))
<1> DEFINE r == Front(q)
<1> DEFINE n == Len(q)
<1>1. n \in Nat \ {0} /\ DOMAIN q = 1..n /\ Last(q) = q[n]
  BY EmptySeq DEF Last
<1>2. /\ r \in Seq(Light) /\ DOMAIN r = 1..(n - 1)
      /\ \A i \in 1..(n - 1) : r[i] = q[i]
  BY <1>1 DEF Front
<1>3. q[n] \in Light
  BY <1>1
<1> HIDE DEF r, n
<1>4. Last(q) \in Lights(q)
  BY <1>1 DEF Lights
<1>5. ASSUME Differ(q) PROVE Lights(r) = Lights(q) \ {Last(q)} /\ Differ(r)
  <2>1. \A i \in DOMAIN q : i \in DOMAIN r \/ i = n
    BY <1>1, <1>2
  <2>2. \A i \in DOMAIN r : i \in DOMAIN q /\ i # n /\ r[i] = q[i]
    BY <1>1, <1>2
  <2>3. \A i \in DOMAIN r : r[i] # q[n]
    BY <1>1, <1>5, <2>2 DEF Differ
  <2>4. Lights(r) = Lights(q) \ {Last(q)}
    BY <1>1, <2>1, <2>2, <2>3 DEF Lights
  <2> QED BY <1>5, <2>2, <2>4 DEF Differ
<1> QED BY <1>1, <1>2, <1>3, <1>4, <1>5 DEF r

LEMMA Unqueued ==
  ASSUME queue \in Seq(Light), Differ(queue), NEW l \in Queued
  PROVE  /\ Unqueue(l) \in Seq(Light)
         /\ Lights(Unqueue(l)) = Queued \ {l}
         /\ Differ(Unqueue(l))
<1> DEFINE i == CHOOSE m \in DOMAIN queue : queue[m] = l
<1> DEFINE n == Len(queue)
<1> DEFINE q == [queue EXCEPT ![i] = Last(queue)]
<1> DEFINE r == Front(q)
<1>1. n \in Nat /\ DOMAIN queue = 1..n
  OBVIOUS
<1>2. i \in 1..n /\ queue[i] = l
  BY <1>1 DEF Queued
<1>3. Unqueue(l) = r /\ Last(queue) = queue[n]
  BY DEF Unqueue, Last
<1> HIDE DEF i, n
<1>4. n # 0 /\ queue[n] \in Light
  BY <1>1, <1>2 DEF n
<1>5. q \in Seq(Light) /\ Len(q) = n
  BY <1>1, <1>2, <1>3, <1>4 DEF n
<1>6. \A m \in 1..n : q[m] = IF m = i THEN queue[n] ELSE queue[m]
  BY <1>1, <1>2, <1>3
<1> HIDE DEF q
<1>7. /\ r \in Seq(Light) /\ DOMAIN r = 1..(n - 1)
      /\ \A m \in 1..(n - 1) : r[m] = q[m]
  BY <1>1, <1>4, <1>5 DEF Front
<1> HIDE DEF r
<1>8. \A m \in DOMAIN r : m \in DOMAIN queue /\ m # n /\ r[m] = IF m = i THEN queue[n] ELSE queue[m]
  BY <1>1, <1>6, <1>7
<1>9. \A m \in DOMAIN queue : m = n \/ m \in DOMAIN r
  BY <1>1, <1>7
<1>10. Differ(r)
  BY <1>1, <1>4, <1>8 DEF Differ
<1>11. Lights(r) \subseteq Queued \ {l}
  <2> SUFFICES ASSUME NEW m \in DOMAIN r PROVE r[m] \in Queued /\ r[m] # l
    BY DEF Lights
  <2>1. n \in DOMAIN queue /\ i \in DOMAIN queue
    BY <1>1, <1>2, <1>4
  <2> QED BY <1>2, <1>8, <2>1 DEF Queued, Differ
<1>12. Queued \ {l} \subseteq Lights(r)
  <2> SUFFICES ASSUME NEW m \in DOMAIN queue, queue[m] # l PROVE queue[m] \in Lights(r)
    BY DEF Queued
  <2>1. m # i
    BY <1>2
  <2>2. CASE m = n
    BY <1>1, <1>2, <1>8, <1>9, <2>1, <2>2 DEF Lights
  <2>3. CASE m # n
    BY <1>8, <1>9, <2>1, <2>3 DEF Lights
  <2> QED BY <2>2, <2>3
<1> QED BY <1>3, <1>7, <1>10, <1>11, <1>12
-----------------------------------------------------------------------------
(* The steps.                                                              *)

LEMMA LightInitInv == Init => LightIInv
<1> SUFFICES ASSUME Init PROVE LightIInv
  OBVIOUS
<1> USE DEF Init
<1>1. LightTypeOK
  <2>1. queue \in Seq(Light) /\ hasDeferredFrees \in BOOLEAN /\ entry \in Light \cup {NoLight}
    BY EmptySeq
  <2>2. life \in [Light -> {"live", "released", "destroyed"}]
    OBVIOUS
  <2>3. pc \in [Threads -> {"idle", "lock", "run"}] /\ arg \in [Threads -> Light \cup {NoLight}]
    OBVIOUS
  <2> QED BY <2>1, <2>2, <2>3 DEF LightTypeOK
<1>5. Occupied
  BY DEF Occupied
<1>2. Queued = {}
  BY DEF Queued
<1>3. \A l \in Light : life[l] = "live" /\ l # NoLight
  BY ShadowLightAssumption
<1>4. ReleasedIsHeld /\ QueueDiffers /\ HeldOnce
  BY <1>2, <1>3 DEF ReleasedIsHeld, Held, QueueDiffers, HeldOnce
<1> QED BY <1>1, <1>4, <1>5 DEF LightIInv, ListedLightsExist, FlagCoversQueue

\* A step that moves no light between the queue, the entry and the arguments.
LEMMA LightsStay ==
  ASSUME LightIInv, UNCHANGED <<queue, life, pc, arg, entry, escaped>>,
         renderThreadId' \in {NoThread, Render}, hasDeferredFrees' \in BOOLEAN,
         phase' = "destroy" <=> phase = "destroy",
         \A l \in casters' : l \in casters \/ life[l] # "destroyed",
         FlagCoversQueue'
  PROVE  LightIInv'
<1>1. Queued' = Queued
  BY DEF Queued
<1>2. LightTypeOK' /\ Occupied' /\ QueueDiffers'
  BY DEF LightIInv, LightTypeOK, Occupied, QueueDiffers
<1>3. ReleasedIsHeld' /\ HeldOnce'
  BY <1>1 DEF LightIInv, ReleasedIsHeld, Held, HeldOnce
<1>4. ListedLightsExist'
  BY DEF LightIInv, ListedLightsExist
<1> QED BY <1>2, <1>3, <1>4 DEF LightIInv

\* Destroy keeps ListedLightsExist when the render thread takes the light off the lists.
LEMMA DestroyKeepsListed ==
  ASSUME LightIInv, NEW t \in Threads, NEW l \in Light, Destroy(t, l),
         casters' \subseteq casters, t = renderThreadId /\ l \in hooked => l \notin casters'
  PROVE  /\ ListedLightsExist'
         /\ life' \in [Light -> {"live", "released", "destroyed"}]
         /\ life'[l] = "destroyed" /\ \A m \in Light : m # l => life'[m] = life[m]
<1>1. /\ life' \in [Light -> {"live", "released", "destroyed"}]
      /\ life'[l] = "destroyed"
  BY DEF Destroy, LightIInv, LightTypeOK
<1>2. \A m : m # l => life'[m] = life[m]
  BY DEF Destroy, LightIInv, LightTypeOK
<1>3. escaped \subseteq escaped' /\ (~(t = renderThreadId /\ l \in hooked) => l \in escaped')
  BY DEF Destroy
<1>4. ListedLightsExist'
  BY <1>2, <1>3 DEF ListedLightsExist, LightIInv
<1> QED BY <1>1, <1>2, <1>4

LEMMA ReleaseInv ==
  ASSUME LightIInv, NEW t \in Threads, NEW l \in Light, Release(t, l)
  PROVE  LightIInv'
<1>1. /\ UNCHANGED <<renderThreadId, queue, hasDeferredFrees, casters, phase, entry>>
      /\ pc[t] = "idle" /\ life[l] = "live"
  BY DEF Release, renderVars
<1>2. Queued' = Queued /\ QueueDiffers' /\ FlagCoversQueue'
  BY <1>1 DEF Queued, LightIInv, QueueDiffers, FlagCoversQueue
<1>3. ~Held(l) /\ arg[t] = NoLight
  BY <1>1 DEF LightIInv, ReleasedIsHeld, Occupied
<1>4. CASE l \in hooked
  <2>1. PICK step \in {"run", "lock"} :
          /\ life' = [life EXCEPT ![l] = "released"]
          /\ arg' = [arg EXCEPT ![t] = l]
          /\ pc' = [pc EXCEPT ![t] = step] /\ escaped' = escaped
    BY <1>4 DEF Release
  <2>2. /\ arg'[t] = l /\ \A u \in Threads : u # t => arg'[u] = arg[u]
        /\ life'[l] = "released" /\ \A m : m # l => life'[m] = life[m]
    BY <2>1 DEF LightIInv, LightTypeOK
  <2>3. LightTypeOK'
    BY <1>1, <2>1 DEF LightIInv, LightTypeOK
  <2>4. Occupied'
    BY <1>1, <2>1, ShadowLightAssumption DEF LightIInv, LightTypeOK, Occupied
  <2>5. ReleasedIsHeld'
    BY <1>1, <1>2, <1>3, <2>2, ShadowLightAssumption DEF LightIInv, ReleasedIsHeld, Held
  <2>6. HeldOnce'
    BY <1>1, <1>2, <1>3, <2>2 DEF LightIInv, HeldOnce, Held
  <2>7. ListedLightsExist'
    BY <1>1, <2>1, <2>2 DEF LightIInv, ListedLightsExist
  <2> QED BY <1>2, <2>3, <2>4, <2>5, <2>6, <2>7 DEF LightIInv
<1>5. CASE l \notin hooked
  <2>1. Destroy(t, l) /\ UNCHANGED <<pc, arg>>
    BY <1>5 DEF Release, threadVars
  <2>2. /\ ListedLightsExist'
        /\ life' \in [Light -> {"live", "released", "destroyed"}]
        /\ life'[l] = "destroyed" /\ \A m \in Light : m # l => life'[m] = life[m]
    BY <1>1, <1>5, <2>1, DestroyKeepsListed
  <2>3. LightTypeOK' /\ Occupied'
    BY <1>1, <2>1, <2>2 DEF LightIInv, LightTypeOK, Occupied
  <2>4. ReleasedIsHeld' /\ HeldOnce'
    BY <1>1, <1>2, <2>1, <2>2 DEF LightIInv, ReleasedIsHeld, Held, HeldOnce
  <2> QED BY <1>2, <2>2, <2>3, <2>4 DEF LightIInv
<1> QED BY <1>4, <1>5

\* Defer for a light that thread t holds (DeferReleased) or finds queued (ReleaseAgain).
LEMMA DeferInv ==
  ASSUME LightIInv, NEW t \in Threads, NEW l \in Light, Defer(t, l),
         (arg[t] = l /\ pc[t] = "lock") \/ (arg[t] = NoLight /\ l \in Queued)
  PROVE  LightIInv'
<1>1. UNCHANGED <<renderThreadId, casters, life, phase, entry, escaped>>
  BY DEF Defer, renderVars
<1>2. ListedLightsExist'
  BY <1>1 DEF LightIInv, ListedLightsExist
<1>3. \A q : queue' = q => Queued' = Lights(q) /\ (QueueDiffers' <=> Differ(q))
  BY DEF Queued, Lights, QueueDiffers, Differ
<1>4. Queued = Lights(queue) /\ Differ(queue)
  BY DEF LightIInv, Queued, Lights, QueueDiffers, Differ
<1>5. PICK step \in {"idle", "run"} :
        /\ pc' = [pc EXCEPT ![t] = step]
        /\ arg' = [arg EXCEPT ![t] = IF step = "idle" THEN NoLight ELSE l]
        /\ \/ step = "idle" /\ l \in Queued /\ UNCHANGED <<queue, hasDeferredFrees>>
           \/ step = "run" /\ l \in Queued /\ queue' = Unqueue(l) /\ UNCHANGED hasDeferredFrees
           \/ step = "run" /\ l \notin Queued /\ UNCHANGED <<queue, hasDeferredFrees>>
           \/ step = "idle" /\ l \notin Queued /\ Push(l)
  BY DEF Defer
<1>6. /\ arg'[t] = IF step = "idle" THEN NoLight ELSE l
      /\ \A u \in Threads : u # t => arg'[u] = arg[u]
      /\ pc' \in [Threads -> {"idle", "lock", "run"}]
      /\ arg' \in [Threads -> Light \cup {NoLight}]
  BY <1>5 DEF LightIInv, LightTypeOK
<1>7. Occupied'
  BY <1>1, <1>5, <1>6, ShadowLightAssumption DEF LightIInv, LightTypeOK, Occupied
<1>8. l \in Queued <=> arg[t] = NoLight
  BY ShadowLightAssumption DEF LightIInv, HeldOnce
<1>9. CASE step = "idle" /\ l \in Queued /\ UNCHANGED <<queue, hasDeferredFrees>>
  <2>1. Queued' = Queued /\ QueueDiffers' /\ FlagCoversQueue' /\ LightTypeOK'
    BY <1>1, <1>3, <1>4, <1>6, <1>9 DEF LightIInv, LightTypeOK, FlagCoversQueue
  <2>2. \A u \in Threads : arg'[u] = arg[u]
    BY <1>6, <1>8, <1>9
  <2>3. ReleasedIsHeld' /\ HeldOnce'
    BY <1>1, <2>1, <2>2 DEF LightIInv, ReleasedIsHeld, Held, HeldOnce
  <2> QED BY <1>2, <1>7, <2>1, <2>3 DEF LightIInv
<1>10. CASE step = "run" /\ l \in Queued /\ queue' = Unqueue(l) /\ UNCHANGED hasDeferredFrees
  <2>1. queue' \in Seq(Light) /\ Queued' = Queued \ {l} /\ QueueDiffers'
    BY <1>3, <1>4, <1>10, Unqueued DEF LightIInv, LightTypeOK
  <2>2. queue # <<>>
    BY <1>10 DEF Queued
  <2>3. FlagCoversQueue' /\ LightTypeOK'
    BY <1>1, <1>6, <1>10, <2>1, <2>2 DEF LightIInv, LightTypeOK, FlagCoversQueue
  <2>4. arg[t] = NoLight /\ arg'[t] = l /\ l # entry /\ l # NoLight
        /\ \A u \in Threads : arg[u] # l
    BY <1>6, <1>8, <1>10, ShadowLightAssumption DEF LightIInv, HeldOnce
  <2>5. ReleasedIsHeld'
    BY <1>1, <1>6, <2>1, <2>4, ShadowLightAssumption DEF LightIInv, ReleasedIsHeld, Held
  <2>6. HeldOnce'
    BY <1>1, <1>6, <2>1, <2>4 DEF LightIInv, HeldOnce
  <2> QED BY <1>2, <1>7, <2>1, <2>3, <2>5, <2>6 DEF LightIInv
<1>11. CASE step = "run" /\ l \notin Queued /\ UNCHANGED <<queue, hasDeferredFrees>>
  <2>1. Queued' = Queued /\ QueueDiffers' /\ FlagCoversQueue' /\ LightTypeOK'
    BY <1>1, <1>3, <1>4, <1>6, <1>11 DEF LightIInv, LightTypeOK, FlagCoversQueue
  <2>2. \A u \in Threads : arg'[u] = arg[u]
    BY <1>6, <1>11
  <2>3. ReleasedIsHeld' /\ HeldOnce'
    BY <1>1, <2>1, <2>2 DEF LightIInv, ReleasedIsHeld, Held, HeldOnce
  <2> QED BY <1>2, <1>7, <2>1, <2>3 DEF LightIInv
<1>12. CASE step = "idle" /\ l \notin Queued /\ Push(l)
  <2>1. queue' = Append(queue, l) /\ hasDeferredFrees' = TRUE
    BY <1>12 DEF Push
  <2>2. queue' \in Seq(Light) /\ Queued' = Queued \cup {l} /\ QueueDiffers'
    BY <1>3, <1>4, <1>12, <2>1, Pushed DEF LightIInv, LightTypeOK
  <2>3. FlagCoversQueue' /\ LightTypeOK'
    BY <1>1, <1>6, <2>1, <2>2 DEF LightIInv, LightTypeOK, FlagCoversQueue
  <2>4. arg[t] = l /\ arg'[t] = NoLight /\ l # entry /\ l # NoLight
        /\ \A u \in Threads : u # t => arg[u] # l
    BY <1>6, <1>12, ShadowLightAssumption DEF LightIInv, HeldOnce
  <2>5. ReleasedIsHeld'
    BY <1>1, <1>6, <2>2, <2>4, ShadowLightAssumption DEF LightIInv, ReleasedIsHeld, Held
  <2>6. HeldOnce'
    BY <1>1, <1>6, <2>2, <2>4 DEF LightIInv, HeldOnce
  <2> QED BY <1>2, <1>7, <2>2, <2>3, <2>5, <2>6 DEF LightIInv
<1> QED BY <1>5, <1>9, <1>10, <1>11, <1>12

\* A light that was held is destroyed, and held no more.
LEMMA HeldIsDestroyed ==
  ASSUME LightIInv, NEW l \in Light,
         life' \in [Light -> {"live", "released", "destroyed"}],
         life'[l] = "destroyed", \A m \in Light : m # l => life'[m] = life[m],
         \A m \in Light : Held(m)' <=> Held(m) /\ m # l
  PROVE  ReleasedIsHeld'
  BY DEF LightIInv, ReleasedIsHeld

LEMMA RunInv ==
  ASSUME LightIInv, NEW t \in Threads, Run(t)
  PROVE  LightIInv'
<1>1. arg[t] \in Light
  BY DEF LightIInv, LightTypeOK, Occupied, Run
<1> PICK l \in Light : arg[t] = l
  BY <1>1
<1>2. /\ Destroy(t, l) /\ casters' = IF t = renderThreadId THEN casters \ {l} ELSE casters
      /\ pc' = [pc EXCEPT ![t] = "idle"] /\ arg' = [arg EXCEPT ![t] = NoLight]
      /\ UNCHANGED <<renderThreadId, queue, hasDeferredFrees, phase, entry>>
  BY DEF Run, renderVars
<1>3. /\ ListedLightsExist'
      /\ life' \in [Light -> {"live", "released", "destroyed"}]
      /\ life'[l] = "destroyed" /\ \A m \in Light : m # l => life'[m] = life[m]
  BY <1>2, DestroyKeepsListed
<1>4. Queued' = Queued /\ QueueDiffers' /\ FlagCoversQueue'
  BY <1>2 DEF Queued, LightIInv, QueueDiffers, FlagCoversQueue
<1>5. arg'[t] = NoLight /\ \A u \in Threads : u # t => arg'[u] = arg[u]
  BY <1>2 DEF LightIInv, LightTypeOK
<1>6. LightTypeOK'
  BY <1>2, <1>3 DEF LightIInv, LightTypeOK
<1>7. Occupied'
  BY <1>2, <1>5 DEF LightIInv, LightTypeOK, Occupied
<1>8. l # NoLight /\ l \notin Queued /\ l # entry /\ \A u \in Threads : u # t => arg[u] # l
  BY ShadowLightAssumption DEF LightIInv, HeldOnce
<1>9. \A m \in Light : Held(m)' <=> Held(m) /\ m # l
  BY <1>2, <1>4, <1>5, <1>8, ShadowLightAssumption DEF Held
<1>10. ReleasedIsHeld'
  BY <1>3, <1>9, HeldIsDestroyed
<1>11. HeldOnce'
  BY <1>2, <1>4, <1>5 DEF LightIInv, HeldOnce
<1> QED BY <1>3, <1>4, <1>6, <1>7, <1>10, <1>11 DEF LightIInv

LEMMA PopEntryInv == LightIInv /\ PopEntry => LightIInv'
<1> SUFFICES ASSUME LightIInv, PopEntry PROVE LightIInv'
  OBVIOUS
<1>1. /\ queue # <<>> /\ phase = "pop" /\ phase' = "destroy"
      /\ entry' = Last(queue) /\ queue' = Front(queue)
      /\ UNCHANGED <<renderThreadId, hasDeferredFrees, casters, life, escaped, pc, arg>>
  BY DEF PopEntry, RenderStep, threadVars
<1>2. Queued = Lights(queue) /\ Differ(queue) /\ Queued' = Lights(queue') /\ (QueueDiffers' <=> Differ(queue'))
  BY DEF LightIInv, Queued, Lights, QueueDiffers, Differ
<1>3. /\ entry' \in Queued /\ entry' \in Light /\ queue' \in Seq(Light)
      /\ Queued' = Queued \ {entry'} /\ QueueDiffers'
  BY <1>1, <1>2, Popped DEF LightIInv, LightTypeOK
<1>4. entry = NoLight /\ entry' # NoLight
  BY <1>1, <1>3, ShadowLightAssumption DEF LightIInv, Occupied
<1>5. LightTypeOK' /\ Occupied'
  BY <1>1, <1>3, <1>4 DEF LightIInv, LightTypeOK, Occupied
<1>6. ReleasedIsHeld'
  <2>1. \A m \in Light : Held(m)' <=> Held(m)
    BY <1>1, <1>3, <1>4, ShadowLightAssumption DEF Held
  <2> QED BY <1>1, <2>1 DEF LightIInv, ReleasedIsHeld
<1>7. HeldOnce'
  BY <1>1, <1>3, <1>4 DEF LightIInv, HeldOnce
<1>8. ListedLightsExist' /\ FlagCoversQueue'
  BY <1>1 DEF LightIInv, ListedLightsExist, FlagCoversQueue
<1> QED BY <1>3, <1>5, <1>6, <1>7, <1>8 DEF LightIInv

LEMMA DestroyEntryInv == LightIInv /\ DestroyEntry => LightIInv'
<1> SUFFICES ASSUME LightIInv, DestroyEntry PROVE LightIInv'
  OBVIOUS
<1>1. entry \in Light
  BY DEF LightIInv, LightTypeOK, Occupied, DestroyEntry, RenderStep
<1> PICK l \in Light : entry = l
  BY <1>1
<1>2. /\ phase = "destroy" /\ phase' = "pop" /\ casters' = casters \ {l}
      /\ Destroy(Render, l) /\ entry' = NoLight
      /\ UNCHANGED <<renderThreadId, queue, hasDeferredFrees, pc, arg>>
  BY DEF DestroyEntry, RenderStep, threadVars
<1>3. /\ ListedLightsExist'
      /\ life' \in [Light -> {"live", "released", "destroyed"}]
      /\ life'[l] = "destroyed" /\ \A m \in Light : m # l => life'[m] = life[m]
  <2>1. Render \in Threads
    BY DEF Threads
  <2> QED BY <1>2, <2>1, DestroyKeepsListed
<1>4. Queued' = Queued /\ QueueDiffers' /\ FlagCoversQueue'
  BY <1>2 DEF Queued, LightIInv, QueueDiffers, FlagCoversQueue
<1>5. LightTypeOK' /\ Occupied'
  BY <1>2, <1>3 DEF LightIInv, LightTypeOK, Occupied
<1>6. l # NoLight /\ l \notin Queued /\ \A u \in Threads : arg[u] # l
  BY ShadowLightAssumption DEF LightIInv, HeldOnce
<1>7. \A m \in Light : Held(m)' <=> Held(m) /\ m # l
  BY <1>2, <1>4, <1>6, ShadowLightAssumption DEF Held
<1>8. ReleasedIsHeld'
  BY <1>3, <1>7, HeldIsDestroyed
<1>9. HeldOnce'
  <2>1. Queued \subseteq Light
    BY DEF Queued, LightIInv, LightTypeOK
  <2> QED BY <1>2, <1>4, <2>1, ShadowLightAssumption DEF LightIInv, HeldOnce
<1> QED BY <1>3, <1>4, <1>5, <1>8, <1>9 DEF LightIInv

LEMMA CreateInv ==
  ASSUME LightIInv, NEW l \in Light, Create(l)
  PROVE  LightIInv'
<1>1. /\ life[l] = "destroyed" /\ life' = [life EXCEPT ![l] = "live"]
      /\ UNCHANGED <<renderThreadId, queue, hasDeferredFrees, casters, pc, arg, phase, entry, escaped>>
  BY DEF Create, threadVars, renderVars
<1>2. life'[l] = "live" /\ \A m : m # l => life'[m] = life[m]
  BY <1>1 DEF LightIInv, LightTypeOK
<1>3. Queued' = Queued /\ QueueDiffers' /\ FlagCoversQueue'
  BY <1>1 DEF Queued, LightIInv, QueueDiffers, FlagCoversQueue
<1>4. LightTypeOK' /\ Occupied'
  BY <1>1 DEF LightIInv, LightTypeOK, Occupied
<1>5. ReleasedIsHeld' /\ HeldOnce'
  BY <1>1, <1>2, <1>3 DEF LightIInv, ReleasedIsHeld, Held, HeldOnce
<1>6. ListedLightsExist'
  BY <1>1, <1>2 DEF LightIInv, ListedLightsExist
<1> QED BY <1>3, <1>4, <1>5, <1>6 DEF LightIInv

LEMMA LightNextInv == LightIInv /\ [Next]_vars => LightIInv'
<1> SUFFICES ASSUME LightIInv, [Next]_vars PROVE LightIInv'
  OBVIOUS
<1> USE DEF threadVars, renderVars
<1>1. FlagCoversQueue /\ renderThreadId \in {NoThread, Render} /\ hasDeferredFrees \in BOOLEAN
  BY DEF LightIInv, LightTypeOK
<1>2. CASE Install
  BY <1>1, <1>2, LightsStay DEF Install, FlagCoversQueue
<1>3. CASE Frame
  <2>1. CASE ClearCasters
    BY <1>1, <2>1, LightsStay DEF ClearCasters, RenderStep, FlagCoversQueue
  <2>2. CASE Accumulate
    BY <1>1, <2>2, LightsStay DEF Accumulate, RenderStep, FlagCoversQueue
  <2>3. CASE PostRenderCleanup
    BY <1>1, <2>3, LightsStay DEF PostRenderCleanup, RenderStep, FlagCoversQueue
  <2>4. CASE DrainDeferredFrees
    BY <1>1, <2>4, LightsStay DEF DrainDeferredFrees, RenderStep, FlagCoversQueue
  <2>5. CASE PopNothing
    BY <1>1, <2>5, LightsStay DEF PopNothing, RenderStep, FlagCoversQueue
  <2> QED BY <1>3, <2>1, <2>2, <2>3, <2>4, <2>5, PopEntryInv, DestroyEntryInv DEF Frame, Drain
<1>4. ASSUME NEW t \in Threads, NEW l \in Light, ReleaseAgain(t, l) PROVE LightIInv'
  <2>1. arg[t] = NoLight /\ l \in Queued /\ Defer(t, l)
    BY <1>4 DEF ReleaseAgain, LightIInv, Occupied
  <2> QED BY <2>1, DeferInv
<1>5. ASSUME NEW t \in Threads, DeferReleased(t) PROVE LightIInv'
  <2>1. PICK l \in Light : arg[t] = l /\ pc[t] = "lock" /\ Defer(t, l)
    BY <1>5 DEF DeferReleased, LightIInv, LightTypeOK, Occupied
  <2> QED BY <2>1, DeferInv
<1>6. CASE UNCHANGED vars
  BY <1>1, <1>6, LightsStay DEF vars, FlagCoversQueue
<1> QED BY <1>2, <1>3, <1>4, <1>5, <1>6, CreateInv, ReleaseInv, RunInv DEF Next

THEOREM LightsInv == Spec => []LightIInv
  BY LightInitInv, LightNextInv, PTL DEF Spec
-----------------------------------------------------------------------------
\* Thunk and DrainDeferredFrees: however many threads release lights, and again while they
\* are queued, what will still be destroyed are different lights, all released, none lost.
THEOREM LightsDestroyedOnce == Spec => []DestroyedOnce
<1>1. LightIInv => DestroyedOnce
  <2> SUFFICES ASSUME LightIInv PROVE DestroyedOnce
    OBVIOUS
  <2>1. Queued \subseteq Light /\ \A t \in Threads : arg[t] \in Light \cup {NoLight}
    BY DEF Queued, LightIInv, LightTypeOK
  <2>2. Pending \subseteq Light /\ \A l \in Light : l \in Pending <=> Held(l)
    BY <2>1, ShadowLightAssumption DEF Pending, Held, LightIInv, LightTypeOK
  <2>3. Pending = {l \in Light : life[l] = "released"}
    BY <2>2 DEF LightIInv, ReleasedIsHeld
  <2> QED BY <2>3 DEF LightIInv, DestroyedOnce, QueueDiffers, HeldOnce
<1> QED BY LightsInv, <1>1, PTL

\* RemoveFromCasterArrays: for any number of lights, a listed light exists unless it was
\* destroyed where the hooks could not protect it.
THEOREM CastersExist == Spec => []ListedLightsExist
<1>1. LightIInv => ListedLightsExist
  BY DEF LightIInv
<1> QED BY LightsInv, <1>1, PTL

\* DrainDeferredFrees' test without the lock misses no queued light, whatever the size of
\* the queue.
THEOREM FlagIsUp == Spec => []FlagCoversQueue
<1>1. LightIInv => FlagCoversQueue
  BY DEF LightIInv
<1> QED BY LightsInv, <1>1, PTL
=============================================================================
