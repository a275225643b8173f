\* Two threads on one address, used twice; a word of 18 values, so that both the
\* tick count and the timer wrap, and the timer far enough for the buckets below
\* zero to be out of step; an interval at its floor, of a second, and so long that
\* the bucket is at its own floor.
SPECIFICATION Spec
CONSTANTS
  Thread = {t1, t2}
  Address = {a}
  Half = 9
  Second = 2
  Intervals = {0, 2, 5}
  Starts = {2}
  MaxTicks = 11
  MaxDelay = 2
  MaxEffects = 2
SYMMETRY Symmetric
INVARIANT FirstEffectRunsAtSight NoLongSkip Throttled
CHECK_DEADLOCK FALSE
