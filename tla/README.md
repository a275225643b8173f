# Engine Fixes: TLA+ models

TLA+ models and machine-checked proofs of the parts of Engine Fixes (an SKSE
plugin that patches the Skyrim engine in memory) that keep state of their own,
are entered by several threads or in an order the plugin does not choose, or guard
memory that another thread may free under them.
Paths below are relative to the repository, which is mounted as `src/`.

    tlc -config MCRenderPassCache.cfg MCRenderPassCache     model-check one run
    tlc -config MCEngineFixes.cfg MCEngineFixes             the eleven small components
    tlapm RenderPassCacheProofs.tla                         check the proofs

## 1. The system

The plugin replaces or wraps engine functions, or writes branches to hand-made
thunks into them. Many fixes are stateless (a null check, a corrected constant).
The components that keep state, race with the engine, or depend on one another are these.

| Component | State | Operations | Entered by | What must hold |
|---|---|---|---|---|
| Spin lock (`src/util.h`) | `flag_` | `lock`, `unlock` | every client below | exclusion; a waiter gets in |
| Render pass cache (`memory/renderpass_cache.h`) | ring of parked passes, `s_head`, `s_count`, tag in each pass | `Allocate`, `Deallocate`, `FreeOldest`, `SetLights` | render and job threads | a freed pass outlives the draws that may reach it; freed once; never leaked |
| Shadow light cross-thread free (`fixes/shadow_light_cross_thread_free.h`) | `renderThreadId`, `deferredQueue`, `hasDeferredFrees`, the engine's caster arrays | destructor hook, cleanup hook, drain | job threads, render thread | destroyed once, in the end, and never while listed |
| Form cache (`patches/form_caching.h`) | `g_formCache` beside the engine's form table | lookup, `SetAt`, `RemoveAt`, two clears | all threads | agrees with the table |
| Tree LOD reference cache (`patches/tree_lod_reference_caching.cpp`) | `g_treeReferenceCache`, bit 1 of `instance.hidden` | scan over the mods, invalidation from the form cache | render side, form writers | is the first tree in load order |
| Plugin startup (`main.cpp`, `patches.cpp`, `fixes.cpp`, `memory.cpp`) | `g_isPreloaded` | `Initialize`, `Preload`, `Query`, `Load`, `MessageHandler` | preloader DLL, SKSE, game | everything installed once, or the game closed |
| Registry of installed fixes, install guards (`installed_fixes.h`, the `Install` functions, `util.h`) | registered names; bytes at the patch sites | check a window, patch it, register | one thread, on any game version | no guard keeps another out or resumes inside its branch; a registered fix is in place |
| Console save (`fixes/console_save_deadlock.h`) | pending save, VM mutex, task queue | hook, save task | main, console thread | no deadlock; each save happens, with its name |
| Main menu message box, VR (`fixes/messagebox_mainmenu.h`, `fixes/detail/projected_menu_order.h`) | the draw loop's slot; `armed_`, `pending_`, `queued_` | `SelectSlot` in the draw loop; menu events, tasks | UI and main threads | every menu drawn once, the message box before the mist menu; popup shown once |
| Ability condition timer, VR (`fixes/ability_condition_bug.h`) | a timer per effect address | update | job threads | evaluated at first sight and once per interval |
| Actor value clearing (`actorvaluestorage_clear_race_crash.h`) | keys and entries of an actor's values | two thunks | job threads | no write through freed entries |
| Job list lock (`joblist_race.h`) | a recursive mutex around job list 7 | two wrapped functions | job threads | a batch is alone in the list |
| Alpha geometry groups (`batchrenderer_alphageometrygroup_overflow.h`) | the engine's slot counter | claim, sort | culling threads | slots claimed once, inside the array |
| Culling process pool guard (`culling_process_append_virtual_pool_guard.h`) | head and tail of the free queue | guarded append | culling threads | no pop from an empty pool, within the margin |
| Shadow map scratch blocks (`bslightingshaderproperty_shadowmap.h`) | a block per shader property, a thread-local index | get or create, accumulate, destructors | job threads | no leak, one owner, the right array |
| Save screenshots (`save_screenshots.h`) | the request, a saved register | two request hooks, three hooks of a frame | main thread | the register is put back just where it was replaced |
| Settings (`settings.cpp`) | the TOML file | parse, render, compare, truncate, write, load | start; the user between starts | the user's values survive; no rewriting of a settled file |
| Havok material lookup, VR (`havok_material_lookup_guard.h`) | a shape another thread may free | resolve, test, read | physics threads | only whole entries are read |
| Freed object guards (`scene_graph_detach_freed_crash.h`, `culling_freed_object_crash.h`, `batchrenderer_*_uaf.h`, ...) | a word loaded from an object that may be freed | load, test, use | any thread | only words that were vouched for are used; live objects are never turned away |

Interactions. The render pass cache and the shadow light fix take the spin lock
around their state. The form cache's hooks run under the engine's table lock and
call into the tree LOD cache to invalidate it (`RemoveCachedForm`,
`ClearCache`). Startup decides when each of them is installed, and on which
runtime; a fix records itself in the registry. The guards' patch sites overlap inside
the game's code, so their order of installation is an interaction too. The other
components share no state with each other.

What is hard here, and hard to test: the steps of two engine threads in an order
nobody saw in a crash log; a value read from the engine and used after a lock was
released; a frame counter that wraps, or freezes while a loading screen is up; a
queue, ring or pool that is full; a file that is truncated when the game dies; memory
that is reused between a test and the use of what was tested; a patch site that does not hold the expected bytes,
so that half of a fix is in place. `PROJECT.json` lists these hazards, line by line,
and the properties that cover them.

## 2. Modules

| Module | Models | Source |
|---|---|---|
| `Mutex` | abstract: what a lock promises | - |
| `SpinLock` | `SpinLock::lock/unlock`, exchange and spinning load apart | `src/util.h` |
| `SpinLockProofs` | exclusion and refinement, for any set of threads | |
| `RenderPassCache`, `MCRenderPassCache` | allocation, retirement, quarantine ring, frame counter | `src/memory/renderpass_cache.h` |
| `RenderPassCacheProofs` | inductive invariant and what follows | |
| `ShadowLightDeferredFree` | hook installation, destructor hook, queue, frame, drain | `src/fixes/shadow_light_cross_thread_free.h` |
| `FormCache` | both caches, the form table, readers and writers | `src/patches/form_caching.h`, `tree_lod_reference_caching.*` |
| `MenuRenderOrder` | the rotation of the menus' drawing order, as a function | `src/fixes/detail/projected_menu_order.h` |
| `MainMenuMessageBox` | draw loop over the menu stack, test popup | `src/fixes/messagebox_mainmenu.h` |
| `MainMenuMessageBoxProofs` | the rotation is a permutation, and what it moves; inductive invariants of the draw loop and the popup | |
| `AbilityConditionTimer`, `MCAbilityTimer` | the hook's timers, the tick count, calls on several threads | `src/fixes/ability_condition_bug.h` |
| `AbilityConditionTimerProofs` | its arithmetic and inductive invariants, for every word size and interval | |
| `PluginStartup`, `MCPluginStartup` | entry points, what each installs | `src/main.cpp`, `patches.cpp`, `fixes.cpp`, `memory.cpp` |
| `FormCacheProofs`, `ShadowLightProofs` | inductive invariants of these modules | |
| `PluginStartupProofs` | inductive invariants of `PluginStartup`, `SettingsFile` and `PatchSites` | |
| `PatchSites`, `MCPatchSites` | the installation of every fix with several sites, and the registry | `src/installed_fixes.h`, `src/util.h`, `src/fixes/*` |
| `InstallTables` | what the install tables have to fulfil, pair by pair | the same |
| `FreedObjectGuards` | the thunks of those fixes, and of three single-site guards | the same, `src/util.h` |
| `AlphaGeometryGroups` | the bounded claim of slots | `src/fixes/batchrenderer_alphageometrygroup_overflow.h` |
| `CullingProcessPool` | the two reads of the guard and the pop | `src/fixes/culling_process_append_virtual_pool_guard.h` |
| `HavokMaterialGuard` | the guarded lookup, in machine arithmetic | `src/fixes/havok_material_lookup_guard.h` |
| `ActorValueClear` | clearing and setting of values, each patch in place or not | `src/fixes/actorvaluestorage_clear_race_crash.h` |
| `JobListLock` | both functions and the recursive lock | `src/fixes/joblist_race.h` |
| `ConsoleSave` | hook, tasks, main loop, VM mutex | `src/fixes/console_save_deadlock.h` |
| `ShadowMapScratch` | blocks, thread-local index, destructors | `src/fixes/bslightingshaderproperty_shadowmap.h` |
| `SaveScreenshots` | requests and the hooks of a frame | `src/fixes/save_screenshots.h` |
| `SettingsFile` | a launch over a file the user and crashes have been at | `src/settings.cpp`, `settings.h`, `settings_schema.h` |
| `MCEngineFixes` | the last eleven components, checked in one run | |
| `RuntimeGuardProofs` | eight of them for every value of their constants | |

Composition. `SpinLock` is shown to implement `Mutex`, and the two clients
(`RenderPassCache`, `ShadowLightDeferredFree`) use the lock at `Mutex`'s grain:
`RenderPassCache` keeps the owner (`holder`) because its critical section has
several steps, `ShadowLightDeferredFree` makes each locked region one step.
`FormCache` holds the form cache and the tree LOD cache in one module because the
writers' hooks update both, one after the other. `MainMenuMessageBox` extends
`MenuRenderOrder`: its draw loop calls `SelectRenderSlot` with the roles of the stack.
`PatchSites` composes the installations of all fixes that share the game's code, in the
order of `fixes.cpp`.

`MCEngineFixes` is no composition of interacting parts: its eleven components share no
state, neither in the code nor in the model. `MCInit` picks the one that is `active` and
lets it start in any of its initial states, with the others in a fixed one; `MCNext` steps
the active component and leaves the others alone. The reachable states are then the sum of
those of the components and not their product, and each component is checked just as in a
run of its own. `MCSpec` has the fairness of `ConsoleSave`, for the behaviours in which
that component is active. `MCPluginStartup` puts the entry points and the installation of
the guards into one run in the same way.

Operators named as a mutant in a comment are not part of any specification: each
is a plausible error in the definition below it, and the property named with it
in `PROJECT.json` fails when it is put in its place.

### State and actions against the code

**SpinLock.** `flag` is `flag_`. A thread goes `idle`, `exchange`
(`Exchange`: `flag_.exchange(true)`), `load` (`Load`: the inner loop has read
FALSE), `critical`, and back with `Unlock`. The back-off (`pause`, yield, `Sleep`)
decides nothing. The refinement maps `owners` to the threads in `critical`.

**RenderPassCache.** A pass is its address. `heap` is the memory this cache owns,
`live` the passes the engine uses, `retired` the tag in `pad44`, which stays in
freed memory until `Allocate` resets it. `frame` counts frames without wrapping,
`CurrentFrame` is the 32-bit counter that the code sees (0 without a renderer).
`Retire` is the call, `Acquire` the lock, the double-free test and the sampling
of the frame; `Drain` is one turn of the `while`, `ForceFree` the safety valve,
`Park` the tag, the ring entry and the unlock. `Duplicate` is the engine's second
`Deallocate` of a pass. `retiredAt` and `stampedAt` are history.

**ShadowLightDeferredFree.** `Install` chooses which vtables hold what is expected
and whether the call site does. `Release` is the destructor call: it reads
`renderThreadId` before it takes the lock, as the code does; `DeferReleased` is the
locked part with its outcomes (queued, already queued, taken back by the render
thread, queue full), `Run` the rest of `Thunk`, `ReleaseAgain` a repeated
destructor call of a queued light. The render thread itself releases lights while
it draws and in the engine's own cleanup (`RenderReleases`). Its frame goes
`ClearCasters`, `Accumulate`, (draw,) `PostRenderCleanup`, and, with the hook,
`DrainDeferredFrees`, `PopNothing` / `PopEntry`, `DestroyEntry`. `Create` lets the
allocator hand out a freed address again.

**FormCache.** `native` is the engine's table, `formCache` and `treeCache` the two
maps. A reader goes `Find` (cache), `LookupByID` (table, under its lock),
`Emplace`; a scan does this for one mod after the other (`Found`) and ends with
`Store`. A writer's steps are `SetAt`, `SetTree`, `SetNative` (the hook runs before the
engine's own `SetAt`), `RemoveAt`, `RemoveCache`, `RemoveTree` (the hook runs after
the engine's removal), `Clear`, `ClearTree`, `ClearNative`. `raced` and `tainted`
are history: the fills that a write has overtaken, and the base ids they went to.

**MainMenuMessageBox.** `menuStack` is `UI::menuStack`; `topmost` and `unsafe` say what
`Classify` reads of each menu and do not change. `BeginDraw` is the engine's choice of
the first slot (`FirstSlot`: the last topmost menu, or the bottom), `DrawSlot` one turn
of its loop with `SelectPatch` and `NextPatch` in it, `EndDraw` the end. `Arm`,
`ProcessEvent` and `RunTask` are `TestPopup`'s entry points; `Open` and `Close` are the
engine's, and put an event on its way to the sink.

**AbilityConditionTimer.** `timers` is `g_timers`, `clock` the true tick count of which
the code sees `Wrap`. `EvaluateConditions` is the thunk and the reading of the tick
(`now`), before the map entry is locked; `Hook` is everything under that lock, with
its three outcomes: same tick, same bucket, next bucket. `Create` and `Delete` are the
engine's, and tell the timers nothing. `log` is history.

**PluginStartup.** `setup` is the installation the process starts from, chosen in
`Init`; the actions are the entry points. `installs` counts how often each
group of fixes was written into the game.

`Load` and `Query` close the game when the flag is down.

**PatchSites.** `InstallOrder[release]` is the sequence of install steps on one game, from
`Fixes::Install` and the `Install` functions: windows whose bytes are tested, branches
written, exits of the thunks, sites it depends on, and when it registers. `stale` is the set
of steps that find other bytes than they expect, none, one or all of them;
`InstallStep` tests a step's windows against what earlier steps have written
(`Overwritten`), patches and registers. Addresses are offsets from the base the code uses.
`InstallTables` has no state: it states of the tables, one pair of steps at a time, what
keeps guards out of each other's way.

**FreedObjectGuards.** A thunk is a record (`guard`) of what it tests and how it goes on;
one definition per patch struct of the code. `EnterThunk`, `LoadWord`, `CheckWord`,
`LoadSlot`, `CheckSlot`, `Dispatch` are its instructions, `FreeObject` another thread's
free and reuse of the memory, possible between any two of them. Words are small numbers;
only their order relative to image, heap and the range of system DLLs counts.

**AlphaGeometryGroups.** `counter` is the engine's, `limit` what `Install` passes to the
patch. `LoadCounter` and `CompareExchange` are the loop, `FillGroup` and the exit without a
group what follows; `SortAlphaGeometryGroups` runs when no claim is on its way.

**CullingProcessPool.** `ReadHead`, `ReadTail` and `AppendVirtual` are the guard's two reads
and the pop; `head` and `tail` count on and the code sees them modulo `Width`. `popsSince`
is history.

**HavokMaterialGuard.** The actions are the lines of `GuardedMaterialLookup`, `Recover` is
its `__except`; `DisturbShape` frees or changes the shape between any two.
`IsEntryInBounds` is computed on words of `WordSize` values.

**ActorValueClear, JobListLock.** `sites` and `hooks` are the patches that `Install`
could place, any subset. The engine's functions are modelled as the comments of the fixes
describe them. In `JobListLock`, `jobCalls` is a thread's calls of the two functions inside
one another, and the lock counts.

**ConsoleSave.** `drainer` is the thread that drains the console's queue. `Hook` is the
plugin's function, `RunTask` the deferred call; `Update`, `Freeze` and `FinishSave` are the
engine's, as the comment of the fix describes the deadlock.

**ShadowMapScratch.** `GetRenderPasses`, `ReadScratch`, `AllocateScratch`,
`PublishScratch` (the compare-and-exchange) and `FillArray` are the detour;
`AccumulateShadowMap` and `AccumulateReturns` the two halves of the other hook;
`Destructor` frees a block, `Construct` reuses an address. `lights` is history.

**SaveScreenshots.** A frame goes `ScreenshotJnz`, `RenderTargetHook_1`,
`RenderTargetHook_2`, with the engine's own decisions between them; requests come
between frames. `engineTarget` and `requestAtStart` are history.

**SettingsFile.** A launch is `Generate` (parse, render, compare), `OpenTruncated`,
`WriteAll` or `WriteCutShort`, `LoadSettings`; `QuitGame` ends or crashes it at any point,
`UserEdit` and `ConvertLineEndings` happen between launches. A line is a record of its
kind, name and value; `wanted`, `torn` and `settled` are history.

## 3. Runs

| Run | Instance | States | What it shows |
|---|---|---|---|
| `spinlock` | 4 threads | 188 | exclusion, refinement of `Mutex`, no lost wake-up |
| `renderpass` | 2 threads, 3 passes, ring of 2, quarantine 2, counter modulo 4, 5 frames | 112 k | ring ownership, no leak, no early free, nothing overdue left |
| `shadow_light` | 3 lights, 2 job threads, queue of 2, 1 reuse | 78 k | destroyed once, not while listed, flag covers queue, destroyed in the end |
| `form_cache` | 2 readers, 2 mods, 1 base id, 3 forms (2 trees) | 1.4 M | cache never hides a registered form; coherent unless a fill was overtaken |
| `form_cache_stale` | 1 reader, 1 mod, no clear | small | **violation**: a removed form is found again |
| `startup` | all 128 installations, DLL first; six games with two sites stale, or all of a fix | 291 k | installed once; no game without fixes; tree LOD cache in the right place; the registry has what is in the game, and the tables fulfil `TablesAssumption` |
| `startup_any_order` | the same, any order | small | **violation**: installed twice |
| `main_menu` | 5 menus, any order, at most 1 topmost, 2 events on their way | 776 k | each menu drawn once, producers before the mist menu; one popup, no chance missed |
| `ability_timer` | 2 threads, 1 address used twice, words of 18 values, 3 intervals, delay of 2 ticks | 2.1 M | evaluated at first sight, never skipped for longer than a bucket, throttled |
| `engine_fixes` | eleven components, see below | 390 k | the fourteen invariants of the small components; every console save happens |
| `registry_claims` | six games; no site stale, one, all | small | **violation**: a fix is registered with no site patched |
| `ability_interval` | 1 thread, interval of 2 s | small | **violation**: evaluated oftener than once per interval |

Why these bounds are enough for what they are used for:

- `renderpass`: the ring fills with one pass still to come, so the drain, the
  safety valve and an ordinary park all occur; the counter wraps with frames to
  spare, and a pass can lie parked for a whole turn of it; two threads make one
  wait for the lock while frames go by. What the bounds leave open is settled by
  the proofs, which have none.
- `shadow_light`: three lights over a queue of two reach the full queue; two
  job threads and the render thread meet in the destructor and at the flag; one
  address is used a second time. Classes hooked and not hooked are all subsets
  of the lights.
- `form_cache`: two readers are needed for a fill to keep another's entry, two
  mods for a scan that goes on, two trees for "first in load order" to matter,
  and a form that is no tree for the scan to pass over.
- `main_menu`: the four menus the code names and one more, in every order and with
  every choice of menus that must not move, put a menu on each side of each
  boundary of the rotation; two events let one overtake a task. Longer stacks and
  more events are left to the proofs.
- `ability_timer`: the tick count wraps and the timer overflows on the way, far enough
  for the buckets below zero to fall out of step with those above (words of 10
  values are too small for that and hide what it costs, see section 4); buckets
  are longer than, as long as and shorter than the delay of a thread; one address
  is used by a second effect. The clock stops a bucket short of a whole turn (49
  days): beyond it a call can hit the tick of the one before.
- `startup`: the entry points are exhaustive, there is nothing to bound; the stale sites are
  left to the proofs beyond pairs and whole fixes.
- `engine_fixes`, component by component: three claimers race for the last of three
  slots, and the limit is asked for as the default, below, at and above the capacity;
  three appenders with a margin of two can drain a pool of three behind a guard, and the
  counters (modulo 8) hold more than the pool; words of 8 values make the multiplication
  of the bounds test wrap, with strides that do not divide the offset; three threads set and
  clear, and three threads nest two calls; three saves with two names on either drainer;
  two threads, properties and blocks race for one property with a destructor in between;
  five user files with duplicate, misplaced, unknown and empty keys, torn at any line, under
  a custom file that is empty, sets most keys, or sets one and leaves the others to the
  base file. The
  installation is exhaustive: all six games the tables distinguish, with no site stale,
  each site alone, and all of them; `startup` adds every pair of stale sites and
  every fix that is stale as a whole, and the proofs every set of sites. The guards run over two layouts of the image
  (below and inside the range of system DLLs) with a vtable at each boundary of every
  margin.

Symmetry is used only in `renderpass`, on threads and passes, and in `ability_timer`,
on threads, with safety and action properties. Deadlock is not checked where a bounded history (frames,
reused addresses) or a finished startup ends the behaviour; `spinlock` and `main_menu` check it.
In `engine_fixes` and `startup` a finished lookup, installation or thunk stops; a deadlock of the
console save would break `EverySaveHappens`.

Fairness. `SpinLock`: a thread in `lock()` is scheduled, and a thread inside leaves,
because the guarded code waits for nothing else. No fairness between waiters is
assumed, and none is promised (the lock has no queue). `ShadowLightDeferredFree`:
the game keeps drawing frames, and a thread inside a destructor goes on; with it,
`DeferredIsDestroyed` holds although the queue is emptied newest first,
because only a bounded number of lights is ever made. `ConsoleSave`: the main loop runs on
and so does a thread inside the handler or the save, one weak fairness for all of it; nobody
is obliged to type a command. The other modules state safety only and need none.

### Four disagreements between code and comments

- `form_cache_stale`: a lookup that has read the form table (`form_caching.h:51`) fills
  the cache (`:54`) after `RemoveAt` and the hook's erase (`:67`): the removed form
  stays in `g_formCache`. The comment at `form_caching.h:16` says removals are
  handled by that hook. `NeverShadowsRegisteredForm` bounds the damage: such an
  entry goes as soon as the id is registered again.
- `startup_any_order`: `main.cpp:182` says whichever of the preloader DLL and SKSE's
  `Preload` comes first wins. Only `Preload` tests `g_isPreloaded`; `Initialize`
  does not, so `Preload` before the DLL installs everything twice. The DLL is
  an import of the game and normally comes first; run `startup` shows the
  claim under that order.
- `ability_interval`: `ability_condition_bug.h:18` promises one evaluation per
  interval, with buckets sized by the interval; `:81` makes a bucket 1000 / interval
  milliseconds long. They agree at the default of one second. A related point that
  the models bound and do not refute: timers are never removed, so a new effect
  at an old address may be skipped at first sight, for less than a bucket
  (`FirstEffectRunsAtSight`, `NoLongSkip`).
- `registry_claims`: `installed_fixes.h:33` says the registry can never claim a fix that
  silently skipped. `actorvaluestorage_clear_race_crash.h:159` registers after any number
  of skipped sites, and so does `InstallRestoreSites`
  (`batchrenderer_shader_technique_uaf.h:291`). `RegisteredIffPatched` holds for the fixes
  that count their sites.

Three limits that the properties state and do not hide: a thunk that resumes
code which reads the word a second time leaves that read to luck (`UsesVouchedWord`
excepts it), a light that a full queue has a job thread destroy may still be listed
(`ListedLightsExist` excepts it, `shadow_light_cross_thread_free.h:94`), and a write of the
settings file that is cut short loses values (`UserValuesSurvive` excepts it,
`settings.cpp:226` truncates in place).

## 4. Proofs

`SpinLockProofs` (any set of threads): `LockInv` is inductive as it stands;
`SpinLockImplementsMutex` maps the successful exchange to `Acquire`, the
store to `Release`, everything else to stuttering, and needs `LockInv` to know that
the abstract lock was free.

`RenderPassCacheProofs` (any threads, passes, ring size, quarantine, counter width
and number of frames, from `QuarantineAssumption` alone; the code has quarantine 3,
a ring of `kMaxQuarantined` entries and modulus 2^32):

- `TypeCorrect`, `RingOwned`, `NoLeak`: the invariants of the run;
- `QuarantineHolds`: a pass is freed no earlier than `QuarantineFrames` frames after
  the engine gave it up, unless the ring is full of younger passes;
- `QuarantineEnds`: after its drain loop a call leaves nothing overdue.

None of these is inductive. The strengthening `IInv` is a conjunction of

- `InvLock`: who holds the lock, and that a thread in `Deallocate` has a pass of its
  own, untagged, that nobody else has. Without it a park could put a pass in the
  ring that is there already;
- `InvRing`, `InvOwned`: every parked pass is owned, unused, tagged and parked
  once, and every unused pass is parked or in a thread's hands;
- `InvTime`: the ring is sorted by the frame of its stamps, each stamp is that frame
  modulo the counter, and no stamp is before the pass was given up. Without
  the order nothing is known of the younger entries when the loop stops at
  the oldest.

The argument is in terms of ages. `SlotOf(k)` is the slot of the k-th oldest pass;
`SlotInjective` and `FullRing` say that ages and occupied slots correspond,
`FreeShifts` and `ParkAppends` what `FreeOldest` and `Park` do to the sequence of ages.
`WrappedDifference` and `ExpiredMeans` settle the counter: a difference of wrapped
counters never overstates an age, and is exact within a turn. That is why
`QuarantineHolds` needs no bound and `QuarantineEnds` excepts a pass that was parked
for a whole turn of the counter.

`MainMenuMessageBoxProofs`, the order of drawing (any stack, any `MaxMenuCount`):
`EverySlotOnce`, it is a permutation of the slots; `StartKept`, a draw that begins at a
topmost menu draws exactly the slots from there on; `MistDrawnLast`, where a window is
rotated the mist menu comes after the rest of it and those keep their order.
`WindowBounds` and `SelectCases` reduce each to arithmetic on one window.

The state machine around it (any menus, flags and number of events): `DrawnOnce` and
`MistShowsProducers` from `DrawInv` and those theorems; `PopupOnce` and `ChanceTaken`
from `PopupInv`.
`DrawInv` says that what has been drawn is the function's value at each turn so far,
and that the loop did not begin inside a window. `MistShowsProducers` speaks of menus
where the function speaks of slots, and so needs that a menu is in the stack once
(`EachMenuOnce`, which `Open` and `Close` keep). `PopupInv` says that `pending_` counts
the task in the queue, `queued_` the popups, and that the sink is registered from
`Arm` until the popup is created. `ChanceTaken` is part of it: it holds after a task
only because `pending_` is reset first of all.

`AbilityConditionTimerProofs` (every word size, interval, start and delay):

- `FirstSight`: the first effect at an address is evaluated at first sight, in any session.
- The other theorems assume `ShortSession`: the game ends a bucket before the 32-bit tick
  count has come round once (49.7 days), and a bucket fits into the timer. Both are what
  the code has for sessions anybody plays; beyond, a call can hit the tick of the one before.
  From it `TimerIInv`: the timer telescopes, so that the entry holds the log cut to
  the word (`Synced`), although threads reach it out of order. `WrapAdds`, `WrapZero` and
  `WrapInSession` are the arithmetic of that, `QuotientIs` and `QuotientNear` that
  of a division which rounds towards zero, where bucket 0 is twice as long as the others.
- `SkipsBounded`: on any number of threads, delayed for any time, no chain of skipped
  evaluations lasts two buckets. It is this bucket 0 that allows for more than one.
- `NoLongSkip`, that none lasts one bucket, is proved under either of two conditions, and
  they are needed: with three threads and a delay longer than a bucket it is false. One
  thread reads a tick before the first one of the entry and waits, one reads a tick after
  it and waits, a third one leaves bucket 0; then the first comes back to it and is
  evaluated, and the second is skipped. `PromptCallsWaitNoBucket` takes
  any number of threads that reach the entry less than a bucket (by default a second) after
  they read the tick: then no evaluation is from before the first tick (`PromptIInv`).
  `NoEffectWaitsABucket` takes two threads and any delay: when the entry is left to a
  higher bucket and then entered from before the first tick, nobody else is on the
  way with a tick in between (`OneOld`, `LeftBehind`).
- `EvaluationsThrottled`: `Throttled` on any number of threads, delayed for any time, from
  a count of the buckets entered (`RunsCounted` in `CountIInv`). A call is overtaken if a
  later tick has been used before it. The count follows the highest tick used: a call
  that is not overtaken enters a bucket that was new, or comes back from where an
  overtaken one left the timer (`Astray`). So an overtaken call costs at most its
  own evaluation and the one on the way back.
  An earlier version allowed one evaluation, not two, for the overflow of the timer. The
  proof did not go through, and the reason was a counterexample with a longer word: the
  overflow enters the lowest bucket, and because the word is no multiple of a bucket, the
  buckets below zero end earlier than those above would have.

`FormCacheProofs` (any readers, mods, base ids and forms):

- `FormCacheNeverShadows` from `FormCacheIInv`. The property itself is not inductive:
  it has to be known that a reader about to `emplace` a form which is no longer the
  registered one will find an entry (`StaleFillIsKeptOut`), and which of cache and
  table a writer in progress has changed already (`WriterAhead`);
- `FormCachesCoherent` needs more: what the fill of a reader would be worth if the writer
  in progress were done, which scans have been overtaken by it, and that a scan
  that has not is still looking at the first mod with a tree. A scan is compared with the
  table as the writer will leave it, because the tree cache is invalidated on the one
  side of the table's change in `SetAt` and on the other in `RemoveAt`.

`ShadowLightProofs` (any lights, job threads and queue size): `LightIInv` says that the
released lights are just those that are held, and each of them once: by the queue, by the
drain, or by one thread inside the destructor (`ReleasedIsHeld`, `HeldOnce`,
`QueueDiffers`). From it `LightsDestroyedOnce`, `CastersExist` and `FlagIsUp`.
`DestroyedOnce` needs all three: that a light is not destroyed twice rests on nobody else
holding it when somebody destroys it.

`PluginStartupProofs` (any installation): `PartsInPlace` states which parts are in the
game as a function of the flag, the listener and how far the game is; `StartupIsComplete`
and `TreeLodOnTime` follow in any order of the entry points. `InstalledOnce` needs
`DllFirst`: then a raised flag means that the DLL has been (`OnceIInv`).

The same module on the settings (every schema, every set of files a user may leave, any
number of launches, crashes and edits):

- `RenderTwice`: rendering a rendered file changes nothing. A rendered file has each
  setting on one line, under its own section header (`RenderedSections`,
  `RenderedKey`), so parsing it gives back what was rendered;
- `UserValuesKept`, `CanonicalFileRests` from `SettingsIInv`: a settled file is its own
  rendering, what a launch is about to write is too, and the values a launch makes of
  either are those the user's last edit allows (`Holds`). The plugin runs with the custom
  file's value where that file sets the key, and with the edit's everywhere else
  (`WantedInGame`, `RunsAsWanted`). The one exception is a file that needed rewriting and
  could not be opened: it may be no TOML (a key set twice), and of such a file the library
  may keep the defaults for this launch. The properties alone are not
  inductive: they do not speak of `desired`, which replaces the file.

`SettingsAssumption` says of the schema that its settings differ in key or section, which
the table in `settings_schema.h` does, and of custom files that they have no empty values:
a value left empty is no TOML, and the library that loads the file refuses it. Files are
sequences of lines.

And on the installation (`PatchSites`, whichever set of sites is stale: `AnyStaleSpec`, of
which `PatchSpec` is an instance by `PatchSpecIsOne`):

- `NoGuardKeepsAnotherOut`, `ThunksResumeWhole`, `RegistryTellsTheTruth` from
  `PatchIInv`, which says by position what is in place: a guard that is has what it depends on;
  one that is not is stale or lacks something that can no longer come; a fix in
  the registry has a site in place, and a site in place has registered its fix or a line
  ahead will. That a relocated guard is in a place of its own is `SamePlace`.

The theorems are about any tables that fulfil `TablesAssumption` (`InstallTables`): names
differ and dependences point backwards (`NamesFit`), a guard writes into no window of a
later one (`WindowsKept`), no exit lies inside a branch (`ExitsFit`), and a fix
registers behind its sites (`RegistrationFits`). These are conditions on single steps and on
pairs of steps, without stale sites. TLC evaluates them in run `startup` on the
tables of the six supported games; that they are enough for all 2^n sets of stale sites
is what is proved. They are in a module of their own because errors in the tables
that `engine_fixes` has to notice would make them false.

`RuntimeGuardProofs` (eight small modules, every value of their constants):

- `AlphaSlotsClaimedOnce`: what has passed the comparison is below the limit, what has
  been exchanged for is below the counter;
- `PoolMargin`: `popsSince` bounds how far the head has moved since a thread read it. The
  difference of wrapped counters can look larger than the margin only when it is
  (`EnoughFreeMeans`), for any `Width` above the pool's size;
- `ActorValuesSafe`: whoever is inside a map holds the lock (`LockHeld`); a map whose
  clearing is patched is torn only while a thread is about to reset it
  (`TornWhileClearing`); behind the patched test of `SetBaseValue` the base values are
  whole (`Checked`); a wild write needs a site left unpatched (`WildOnlyUnpatched`);
- `JobListSafe`: with both hooks, the lock's depth is the number of calls its owner is
  in, and nobody else is in any (`OwnerAlone`); the batches are the owner's;
- `RenderTargetRestored`: the number the hooks test is the request the frame began
  with, but for what the first hook took back;
- `InnermostLightFilled`, `BlocksOwnedOnce`: the indices put aside are those of the
  lights around the innermost (`IndicesOf`); each allocated block has one owner, an
  unpublished one is empty, and a dead property has neither block nor detour;
- `VouchedWordUsed`, `LiveNotTurnedAway`: what the tests accept is fit for the use
  (`AcceptedIsSound`) and they accept every word of a live object (`LiveIsAccepted`); both
  rest on `GuardShape`, that only image tests have a margin and it is slot + 7 bytes;
- `WholeEntryRead`: the bounds test, in wrapping arithmetic, accepts the address of an
  entry only if the whole of it lies in the table (`EntryIsWhole`): the test
  divides the word before it multiplies, so no product has wrapped. `HavokIInv` adds that the
  lookup goes on with the table it has tested, whatever becomes of the shape.

Assumptions about the environment, in the models and so in the theorems:

- a second `Deallocate` of a pass comes while the pass is still parked
  (`Duplicate`). The tag that catches it is in the pass, so a later call reads freed
  memory, whatever the code does;
- a repeated destructor call of a queued light gets the lock while the light is
  still queued (`ReleaseAgain`); nothing in the code covers a later one;
- the engine's table lock serialises `SetAt` and `RemoveAt`, a form is
  registered under one id at a time, and data is cleared when nothing is
  being registered;
- the menu stack does not change while it is drawn, and a menu's event is sent
  after the stack has changed (`Open`, `Close`);
- a thread enters the hook's lock within `MaxDelay` ticks of reading the tick
  count, and the additions on `long` wrap, as the instructions do that the
  build emits for them;
- `DllFirst` in run `startup` and theorem `InstalledOnce`;
- the engine's functions around `ActorValueClear`, `JobListLock` and `ConsoleSave` do what
  the comments of the fixes say of them;
- the engine keeps a shader property alive while a thread renders it, and gives the jobs
  that work on one property at a time different descriptors (`ShadowMapScratch`);
- alpha geometry is sorted when no thread is claiming;
- no request for a screenshot comes in the middle of a frame;
- the vtable of a live object lies in the game's image and has the slot that is called;
- SKSE has handed over its task interface before the first console save
  (`console_save_deadlock.h:29` passes the call through where it has not).

Only model-checked: liveness (`SomeoneEnters`, `DeferredIsDestroyed`,
`EverySaveHappens`). Liveness under fairness and ENABLED are out of the prover's reach. So is
induction over data; where a proof needs the last of several lines, it takes a maximum from
a well-founded order (`SmallestOf`, `MaxIn`). The strengthened invariants
`PatchIInv`, `SettingsIInv` and `TwoThreadsIInv` were model-checked on the instances of the runs
before they were proved, `CountIInv` also with three threads.

## 5. Not modelled

- Fixes that are single null checks, corrected values or byte patches at one
  address: they have no state and nothing to interleave. The same goes for the teardown
  guard (one jump over a second release).
- Deferred tasks (`double_perk_apply.h`, `stuck_mouse_buttons.h`) and the lockpicking
  menu's initialisation: no state of their own; what a second task or a retry does is
  decided by engine code that is not in the repository.
- The memory managers: stateless forwarding to one allocator.
- Small patches: single overwritten values or call sites; only their installation
  matters, and `PluginStartup` has it by group.
- Warnings, co-save cleaning, file formats: I/O.
- In modelled components: the back-off of the lock, the contents of a pass
  (`Set`, `SetLights`), lights' references and scene graph, the visibility and fade computed
  from a tree's reference and the flag bit that shares its field
  (`tree_lod_reference_caching.cpp:100`: which branch an instance should take is decided by
  the engine's LOD loader), the signature checks before the menu draw loop is
  patched, the installation of the combat group, buffer release and task pool guards,
  registers and flags inside the thunks, the message texts.

## 6. What could follow

- `SetLights` of the render pass cache and the tree LOD visibility as functions against
  reference definitions.
- The single-site guards' installation in `PatchSites`, one step each.
- The safety part of `EverySaveHappens`: that each pending save is in one place, with its name.
