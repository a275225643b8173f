----------------------- MODULE AbilityConditionTimer -----------------------
(***************************************************************************)
(* src/fixes/ability_condition_bug.h (VR): when the conditions of an       *)
(* active effect are evaluated again.  The hook keeps a timer per effect,  *)
(* by the effect's address, and lets an evaluation through when the timer  *)
(* enters another bucket.                                                  *)
(*                                                                         *)
(* Time is a tick count.  A call reads it before it locks the map entry,   *)
(* so calls on two threads may reach the entry in the other order.  The    *)
(* code computes in a signed long of 32 bits, here of 2 * Half values.     *)
(***************************************************************************)
EXTENDS Integers

CONSTANTS
  Thread, Address,
  Half,        \* 2^31
  Second,      \* ticks in a second (1000 in the code)
  Intervals,   \* values of fActiveEffectConditionUpdateInterval, in ticks
  Starts,      \* tick counts at which the game may start
  MaxTicks,    \* bound on the ticks after the start
  MaxDelay,    \* ticks that a thread may take from reading the tick to the entry
  MaxEffects   \* bound on the effects created at an address

ASSUME ThrottleAssumption ==
  /\ Half \in Nat \ {0} /\ Second \in Nat \ {0}
  /\ Intervals \subseteq Nat /\ Starts \subseteq Nat
  /\ MaxTicks \in Nat /\ MaxDelay \in Nat /\ MaxEffects \in Nat
  /\ "none" \notin Address

NoTimer == [lastCounter |-> -1, updateDiff |-> -1, updateTimer |-> 0, lastTick |-> 0]
NoCall == [at |-> "none", tick |-> 0]

VARIABLES
  interval,    \* the game setting
  start, clock,\* GetTickCount64, at the start and now
  timers,      \* g_timers; NoTimer where the map has no entry
  call,        \* the call each thread is in: the effect's address and the tick it read
  effects,     \* effects created at each address so far, the last one is alive
  alive,       \* addresses of an effect that exists
  log          \* history of each address, see NoLog

NoLog == [
  runs |-> 0,          \* evaluations let through
  lastRun |-> 0,       \* the tick of the last one
  skipped |-> -1,      \* the tick of the last call if it was skipped, else -1
  first |-> 0,         \* the first, the last and the highest tick used
  last |-> 0,
  highest |-> 0,
  late |-> 0,          \* overtaken calls: a call with a higher tick came before
  sight |-> "none"]    \* what the first call for the effect alive got

vars == <<interval, start, clock, timers, call, effects, alive, log>>

\* static_cast<long>, and what the build's additions do on overflow.
Wrap(n) == ((n + Half) % (2 * Half)) - Half

\* Division of a long: towards zero.
Quotient(n, d) == IF n >= 0 THEN n \div d ELSE -((-n) \div d)

\* updateDiff: 1000 divided by the interval in seconds, at least 1; the
\* interval is at least a thousandth of a second.
UpdateDiff ==
  LET ticks == IF interval = 0 THEN 1 ELSE interval
      diff == (Second * Second) \div ticks
  IN  IF diff = 0 THEN 1 ELSE diff

Init ==
  /\ interval \in Intervals /\ start \in Starts /\ clock = start
  /\ timers = [a \in Address |-> NoTimer]
  /\ call = [t \in Thread |-> NoCall]
  /\ effects = [a \in Address |-> 0] /\ alive = {}
  /\ log = [a \in Address |-> NoLog]
-----------------------------------------------------------------------------
(* The game: time goes on, effects are created and deleted, each thread    *)
(* evaluates the conditions of effects.  The timers are never told.        *)

Tick ==
  /\ clock < start + MaxTicks /\ clock' = clock + 1
  /\ \A t \in Thread : call[t] # NoCall => clock < call[t].tick + MaxDelay
  /\ UNCHANGED <<interval, start, timers, call, effects, alive, log>>

Create(a) ==
  /\ a \notin alive /\ effects[a] < MaxEffects
  /\ alive' = alive \cup {a} /\ effects' = [effects EXCEPT ![a] = @ + 1]
  /\ log' = [log EXCEPT ![a].sight = "none"]
  /\ UNCHANGED <<interval, start, clock, timers, call>>

Delete(a) ==
  /\ a \in alive /\ \A t \in Thread : call[t].at # a
  /\ alive' = alive \ {a}
  /\ UNCHANGED <<interval, start, clock, timers, call, effects, log>>

EvaluateConditions(t, a) ==
  /\ call[t] = NoCall /\ a \in alive
  /\ call' = [call EXCEPT ![t] = [at |-> a, tick |-> clock]]
  /\ UNCHANGED <<interval, start, clock, timers, effects, alive, log>>
-----------------------------------------------------------------------------
(* The hook, once it has locked the entry.                                 *)

Known(a) == timers[a] # NoTimer

\* The part of the log that does not depend on the outcome.
Logged(a, tick) ==
  LET old == log[a]
  IN  IF Known(a)
      THEN [old EXCEPT !.last = tick,
                       !.highest = IF tick > @ THEN tick ELSE @,
                       !.late = IF tick < old.highest THEN @ + 1 ELSE @]
      ELSE [old EXCEPT !.first = tick, !.last = tick, !.highest = tick]

Sight(old, outcome) == IF old = "none" THEN outcome ELSE old

Skip(t, timer) ==
  LET a == call[t].at
  IN  /\ timers' = [timers EXCEPT ![a] = timer]
      /\ log' = [log EXCEPT ![a] =
                   [Logged(a, call[t].tick) EXCEPT
                      !.skipped = call[t].tick, !.sight = Sight(@, "skip")]]

Run(t, timer) ==
  LET a == call[t].at
  IN  /\ timers' = [timers EXCEPT ![a] = timer]
      /\ log' = [log EXCEPT ![a] =
                   [Logged(a, call[t].tick) EXCEPT
                      !.runs = @ + 1, !.lastRun = call[t].tick,
                      !.skipped = -1, !.sight = Sight(@, "run")]]

Elapsed(timer, tick) == Wrap(Wrap(tick) - timer.lastTick)

\* Mutant: the timer holds the time since the last call.
AccumulateLast(timer, tick) ==
  [timer EXCEPT !.lastTick = Wrap(tick), !.updateTimer = Elapsed(timer, tick)]

Accumulate(timer, tick) ==
  [timer EXCEPT !.lastTick = Wrap(tick), !.updateTimer = Wrap(@ + Elapsed(timer, tick))]

\* Mutant: a new entry counts as evaluated.
EvaluatedTimer(tick) ==
  [lastCounter |-> 0, updateDiff |-> UpdateDiff, updateTimer |-> 0, lastTick |-> Wrap(tick)]

NewTimer(tick) ==
  [lastCounter |-> -1, updateDiff |-> UpdateDiff, updateTimer |-> 0, lastTick |-> Wrap(tick)]

SameTick(t) == Known(call[t].at) /\ Elapsed(timers[call[t].at], call[t].tick) = 0

Advanced(t) ==
  LET a == call[t].at
  IN  IF Known(a) THEN Accumulate(timers[a], call[t].tick) ELSE NewTimer(call[t].tick)

Bucket(timer) == Quotient(timer.updateTimer, timer.updateDiff)

\* Mutant: the bucket that was evaluated is not remembered.
Unmarked(timer) == timer

Marked(timer) == [timer EXCEPT !.lastCounter = Bucket(timer)]

Hook(t) ==
  /\ call[t] # NoCall
  /\ \/ SameTick(t) /\ Skip(t, timers[call[t].at])
     \/ /\ ~SameTick(t) /\ Bucket(Advanced(t)) = Advanced(t).lastCounter
        /\ Skip(t, Advanced(t))
     \/ /\ ~SameTick(t) /\ Bucket(Advanced(t)) # Advanced(t).lastCounter
        /\ Run(t, Marked(Advanced(t)))
  /\ call' = [call EXCEPT ![t] = NoCall]
  /\ UNCHANGED <<interval, start, clock, effects, alive>>

Next ==
  \/ Tick
  \/ \E a \in Address : Create(a) \/ Delete(a)
  \/ \E t \in Thread : Hook(t) \/ \E a \in Address : EvaluateConditions(t, a)

Spec == Init /\ [][Next]_vars
-----------------------------------------------------------------------------
(* Properties.                                                             *)

\* Hook: a call is skipped only if an evaluation was let through within one
\* bucket before it, across a wrap of the tick count, an overflow of the timer
\* and calls in the wrong order.  So an effect that is updated is evaluated again.
\* (Bounds: the clock stays a bucket short of a whole turn of the tick count; and
\* two threads: with three, two calls that read an older tick than the first one
\* can make use of bucket 0 on both sides of zero.)
NoLongSkip ==
  \A a \in Address : log[a].skipped >= 0 =>
    log[a].runs > 0 /\ log[a].skipped - log[a].lastRun < UpdateDiff

\* Hook, on any number of threads: evaluations are throttled to one per bucket; each
\* call that has been overtaken costs at most two more (into its bucket, and out of
\* it again), and so does an overflow of the timer (into the lowest bucket, and a
\* second time because the buckets below zero do not end where those above would go on).
Throttled ==
  \A a \in Address :
    LET ticks == log[a].highest - log[a].first
    IN  log[a].runs <= 1 + ticks \div UpdateDiff + 2 * log[a].late
                         + (IF ticks >= Half THEN 2 ELSE 0)

\* "First sight of an effect runs immediately": true of the first effect at an
\* address.  (A later one finds the old timer; NoLongSkip bounds what it waits.)
FirstEffectRunsAtSight ==
  \A a \in Address : effects[a] = 1 => log[a].sight # "skip"

\* "Runs on first sight of an effect and once per interval after": no more
\* evaluations than intervals begun since.
OncePerInterval ==
  \A a \in Address :
    log[a].runs <= 1 + (log[a].highest - log[a].first) \div interval
=============================================================================
