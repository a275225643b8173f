\* One thread, one effect, an interval of two seconds, no wrap.
SPECIFICATION Spec
CONSTANTS
  Thread = {t1}
  Address = {a}
  Half = 64
  Second = 3
  Intervals = {6}
  Starts = {0}
  MaxTicks = 12
  MaxDelay = 0
  MaxEffects = 1
INVARIANT OncePerInterval
CHECK_DEADLOCK FALSE
