---------------------- MODULE ShadowLightDeferredFree ----------------------
(***************************************************************************)
(* src/fixes/shadow_light_cross_thread_free.h: a light whose last          *)
(* reference goes on a job thread is not destroyed there, because the      *)
(* render thread may be reading it; it is queued and destroyed by the      *)
(* render thread after the frame's cleanup.                                *)
(*                                                                         *)
(* One light stands for one light class, so the classes whose vtable was   *)
(* hooked are a set of lights.  deferredLock is taken atomically (see      *)
(* SpinLock): every locked region is one step.  shadowLightsAccum, summed  *)
(* over the scene nodes, is the set casters.                               *)
(*                                                                         *)
(* The engine's side: a frame clears the caster arrays by writing through  *)
(* them, fills them from the scene's active lights (which hold no          *)
(* reference, so a queued light is still found there), draws, cleans up.   *)
(* Destructor calls without kDeleteFlag go straight to the original, free  *)
(* no memory and are left out.                                             *)
(***************************************************************************)
EXTENDS Naturals, Sequences, SequencesExt

CONSTANTS
  Light, Job,
  Render,            \* the thread that draws
  MaxDeferredFrees,  \* kMaxDeferredFrees
  MaxCreated,        \* bound on the lights made at a recycled address
  NoThread, NoLight

ASSUME ShadowLightAssumption ==
  /\ Render \notin Job /\ NoThread \notin Job \cup {Render} /\ NoLight \notin Light
  /\ MaxDeferredFrees \in Nat \ {0} /\ MaxCreated \in Nat

VARIABLES
  hooked,            \* lights whose class got DeletingDestructorHook; NoLight: not installed yet
  cleanupHooked,     \* the PostRenderCleanup call site is hooked
  renderThreadId,    \* NoThread is the code's 0
  queue,             \* deferredQueue.entries[0 .. count-1]
  hasDeferredFrees,
  casters,           \* lights listed in a caster array
  life,              \* "live", "released" (destructor called), "destroyed"
  pc, arg,           \* each thread in Thunk: "idle", "lock" or "run", and a_light
  phase, entry,      \* the render thread in its frame, and the light it popped
  escaped,           \* history: lights destroyed where the hooks could not protect them
  created

threadVars == <<pc, arg>>
renderVars == <<phase, entry>>
installVars == <<hooked, cleanupHooked>>
vars == <<hooked, cleanupHooked, renderThreadId, queue, hasDeferredFrees, casters,
          life, pc, arg, phase, entry, escaped, created>>

Threads == Job \cup {Render}
Queued == {queue[i] : i \in DOMAIN queue}

Init ==
  /\ hooked = {NoLight} /\ cleanupHooked = FALSE
  /\ renderThreadId = NoThread
  /\ queue = <<>> /\ hasDeferredFrees = FALSE
  /\ casters = {} /\ life = [l \in Light |-> "live"]
  /\ pc = [t \in Threads |-> "idle"] /\ arg = [t \in Threads |-> NoLight]
  /\ phase = "clear" /\ entry = NoLight
  /\ escaped = {} /\ created = 0

\* Install(): a vtable slot or a call site that does not hold what is expected
\* is left alone.  With no class hooked the call site is not even tried; with
\* the call site refused the destructor hooks stay in place, but the render
\* thread is never known and they pass every call on.
Install ==
  /\ hooked = {NoLight}
  /\ \E matching \in SUBSET Light, callMatches \in BOOLEAN :
       /\ hooked' = matching
       /\ cleanupHooked' = (matching # {} /\ callMatches)
  /\ UNCHANGED <<renderThreadId, queue, hasDeferredFrees, casters, life, threadVars,
                 renderVars, escaped, created>>

Installed == hooked # {NoLight}
-----------------------------------------------------------------------------
(* The destructor hook.                                                    *)

\* original(a_light, a_flags) on thread t.
Destroy(t, l) ==
  /\ life' = [life EXCEPT ![l] = "destroyed"]
  /\ escaped' = IF t = renderThreadId /\ l \in hooked THEN escaped ELSE escaped \cup {l}

\* Where the render thread drops references: while it draws, and in the
\* engine's own cleanup, which the hook calls before it drains.
RenderReleases == phase \in {"draw", "drain"}

\* The engine drops the last reference of l on thread t.  A light of an
\* unhooked class is destroyed at once.
Release(t, l) ==
  /\ Installed /\ pc[t] = "idle" /\ life[l] = "live"
  /\ t = Render => RenderReleases
  /\ IF l \in hooked
     THEN /\ life' = [life EXCEPT ![l] = "released"]
          /\ arg' = [arg EXCEPT ![t] = l]
          \* DeferDestruction reads renderThreadId before it takes the lock.
          /\ pc' = [pc EXCEPT ![t] = IF renderThreadId = NoThread THEN "run" ELSE "lock"]
          /\ UNCHANGED escaped
     ELSE Destroy(t, l) /\ UNCHANGED threadVars
  /\ UNCHANGED <<installVars, renderThreadId, queue, hasDeferredFrees, casters,
                 renderVars, created>>

\* Mutant: the entry is left in the queue although the light is destroyed now.
UnqueueNothing(l) == queue

\* *queued = queue.entries[--queue.count]
Unqueue(l) ==
  LET i == CHOOSE n \in DOMAIN queue : queue[n] = l
  IN  Front([queue EXCEPT ![i] = Last(queue)])

\* Mutant: hasDeferredFrees is only raised for a queue that was not empty.
PushWithoutFlag(l) ==
  /\ queue' = Append(queue, l)
  /\ hasDeferredFrees' = (hasDeferredFrees \/ queue # <<>>)

Push(l) == queue' = Append(queue, l) /\ hasDeferredFrees' = TRUE

\* DeferDestruction under deferredLock.  QueueFull and Run both go on to
\* destroy the light on the calling thread.
Defer(t, l) ==
  LET goto(to) == pc' = [pc EXCEPT ![t] = to]
                  /\ arg' = [arg EXCEPT ![t] = IF to = "idle" THEN NoLight ELSE l]
  IN  /\ \/ /\ l \in Queued /\ t # renderThreadId
            /\ goto("idle") /\ UNCHANGED <<queue, hasDeferredFrees>>
         \/ /\ l \in Queued /\ t = renderThreadId
            /\ queue' = Unqueue(l) /\ goto("run") /\ UNCHANGED hasDeferredFrees
         \/ /\ l \notin Queued
            /\ t = renderThreadId \/ Len(queue) >= MaxDeferredFrees
            /\ goto("run") /\ UNCHANGED <<queue, hasDeferredFrees>>
         \/ /\ l \notin Queued /\ t # renderThreadId /\ Len(queue) < MaxDeferredFrees
            /\ Push(l) /\ goto("idle")
      /\ UNCHANGED <<installVars, renderThreadId, casters, life, renderVars, escaped, created>>

DeferReleased(t) == pc[t] = "lock" /\ Defer(t, arg[t])

\* A queued light is picked up from the active lights, referenced and released
\* again, so its destructor is called again.  Assumed: the call gets the lock
\* while the light is still queued (nothing in the code covers a later one).
ReleaseAgain(t, l) ==
  /\ pc[t] = "idle" /\ l \in Queued
  /\ t = Render => RenderReleases
  /\ Defer(t, l)

\* Mutant: a light the render thread destroys itself stays listed.
RunWithoutUnlisting(t) ==
  /\ pc[t] = "run"
  /\ Destroy(t, arg[t])
  /\ pc' = [pc EXCEPT ![t] = "idle"] /\ arg' = [arg EXCEPT ![t] = NoLight]
  /\ UNCHANGED <<installVars, renderThreadId, queue, hasDeferredFrees, casters,
                 renderVars, created>>

\* The rest of Thunk: RemoveFromCasterArrays on the render thread, then the
\* original destructor.
Run(t) ==
  /\ pc[t] = "run"
  /\ casters' = IF t = renderThreadId THEN casters \ {arg[t]} ELSE casters
  /\ Destroy(t, arg[t])
  /\ pc' = [pc EXCEPT ![t] = "idle"] /\ arg' = [arg EXCEPT ![t] = NoLight]
  /\ UNCHANGED <<installVars, renderThreadId, queue, hasDeferredFrees, renderVars, created>>
-----------------------------------------------------------------------------
(* The render thread's frame.                                              *)

RenderStep(from, to) ==
  /\ phase = from /\ phase' = to
  /\ pc[Render] = "idle" /\ Installed
  /\ UNCHANGED <<installVars, threadVars, created>>

\* ClearShadowCasterArray writes through every listed light and empties the list.
ClearCasters ==
  /\ RenderStep("clear", "accumulate")
  /\ casters' = {}
  /\ UNCHANGED <<renderThreadId, queue, hasDeferredFrees, life, entry, escaped>>

\* Casters are listed from the active lights: anything not yet destroyed.
Accumulate ==
  /\ RenderStep("accumulate", "draw")
  /\ casters' \in SUBSET {l \in Light : life[l] # "destroyed"}
  /\ UNCHANGED <<renderThreadId, queue, hasDeferredFrees, life, entry, escaped>>

\* PostRenderCleanup at the end of the draw, hooked or not.
PostRenderCleanup ==
  /\ IF cleanupHooked
     THEN RenderStep("draw", "drain") /\ renderThreadId' = Render
     ELSE RenderStep("draw", "clear") /\ UNCHANGED renderThreadId
  /\ UNCHANGED <<queue, hasDeferredFrees, casters, life, entry, escaped>>

\* DrainDeferredFrees' test without the lock.
DrainDeferredFrees ==
  /\ RenderStep("drain", IF hasDeferredFrees THEN "pop" ELSE "clear")
  /\ UNCHANGED <<renderThreadId, queue, hasDeferredFrees, casters, life, entry, escaped>>

\* Mutant: the flag is cleared after the lock is released.
PopClearsFlagUnlocked ==
  \/ /\ queue = <<>> /\ RenderStep("pop", "unlocked")
     /\ UNCHANGED <<renderThreadId, queue, hasDeferredFrees, casters, life, entry, escaped>>
  \/ /\ RenderStep("unlocked", "clear") /\ hasDeferredFrees' = FALSE
     /\ UNCHANGED <<renderThreadId, queue, casters, life, entry, escaped>>

\* PopDeferredFree on an empty queue ends the drain.
PopNothing ==
  /\ queue = <<>> /\ RenderStep("pop", "clear") /\ hasDeferredFrees' = FALSE
  /\ UNCHANGED <<renderThreadId, queue, casters, life, entry, escaped>>

\* PopDeferredFree takes the newest entry.
PopEntry ==
  /\ queue # <<>> /\ RenderStep("pop", "destroy")
  /\ entry' = Last(queue) /\ queue' = Front(queue)
  /\ UNCHANGED <<renderThreadId, hasDeferredFrees, casters, life, escaped>>

\* Mutant: the drain destroys what it popped and leaves it listed.
DestroyEntryListed ==
  /\ RenderStep("destroy", "pop")
  /\ Destroy(Render, entry) /\ entry' = NoLight
  /\ UNCHANGED <<renderThreadId, queue, hasDeferredFrees, casters>>

\* The body of the drain loop, outside the lock.
DestroyEntry ==
  /\ RenderStep("destroy", "pop")
  /\ casters' = casters \ {entry}
  /\ Destroy(Render, entry) /\ entry' = NoLight
  /\ UNCHANGED <<renderThreadId, queue, hasDeferredFrees>>

\* A new light at a freed address (addresses freed under a list are not reused).
Create(l) ==
  /\ life[l] = "destroyed" /\ l \notin escaped /\ created < MaxCreated
  /\ life' = [life EXCEPT ![l] = "live"] /\ created' = created + 1
  /\ UNCHANGED <<installVars, renderThreadId, queue, hasDeferredFrees, casters,
                 threadVars, renderVars, escaped>>

Drain == DrainDeferredFrees \/ PopNothing \/ PopEntry \/ DestroyEntry

Frame == ClearCasters \/ Accumulate \/ PostRenderCleanup \/ Drain

Next ==
  \/ Install \/ Frame
  \/ \E l \in Light : Create(l)
  \/ \E t \in Threads, l \in Light : Release(t, l) \/ ReleaseAgain(t, l)
  \/ \E t \in Threads : DeferReleased(t) \/ Run(t)

\* The game keeps drawing frames, and a thread inside a destructor goes on.
Fairness ==
  /\ WF_vars(Frame)
  /\ \A t \in Threads : WF_vars(DeferReleased(t)) /\ WF_vars(Run(t))

Spec == Init /\ [][Next]_vars /\ Fairness
-----------------------------------------------------------------------------
(* Properties.                                                             *)

\* What a light's destructor will still be run on: queue entries, the popped
\* entry, and the arguments of threads inside Thunk.
Pending == Queued \cup ({entry} \ {NoLight}) \cup ({arg[t] : t \in Threads} \ {NoLight})

\* Thunk/DrainDeferredFrees: a light is destroyed once.  Each queue entry, the
\* popped entry and the arguments of threads inside Thunk are different
\* lights, none of them destroyed; and no released light is forgotten.
DestroyedOnce ==
  /\ Pending = {l \in Light : life[l] = "released"}
  /\ \A i, j \in DOMAIN queue : queue[i] = queue[j] => i = j
  /\ \A t \in Threads : arg[t] # NoLight =>
       arg[t] \notin Queued \cup {entry} /\ \A u \in Threads \ {t} : arg[u] # arg[t]
  /\ entry \notin Queued

\* RemoveFromCasterArrays: the next frame writes through every listed caster,
\* so a listed light exists, unless it was destroyed before the first cleanup
\* hook made the render thread known, or its class is not hooked, or a job
\* thread found the queue full.
ListedLightsExist == \A l \in casters : life[l] = "destroyed" => l \in escaped

\* DrainDeferredFrees tests the flag without the lock; a queue it skips would
\* wait for another push.
FlagCoversQueue == queue # <<>> => hasDeferredFrees

\* A deferred light is destroyed in the end although the queue is emptied
\* newest first and job threads keep adding to it: frames go on, and only so
\* many lights are made.
DeferredIsDestroyed ==
  \A l \in Light : l \in Queued ~> life[l] = "destroyed"
=============================================================================
