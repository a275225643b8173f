\* Three lights over a queue of two: the queue fills.
SPECIFICATION Spec
CONSTANTS
  Light = {l1, l2, l3}
  Job = {j1, j2}
  Render = render
  MaxDeferredFrees = 2
  MaxCreated = 1
  NoThread = NoThread
  NoLight = NoLight
INVARIANT DestroyedOnce ListedLightsExist FlagCoversQueue
PROPERTY DeferredIsDestroyed
CHECK_DEADLOCK FALSE
