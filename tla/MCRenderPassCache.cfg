\* The counter wraps after 4 frames and 5 frames are drawn; the ring is full
\* with 2 of the 3 passes in it, so the drain, the valve and the wrap all occur.
SPECIFICATION Spec
CONSTANTS
  Threads = {t1, t2}
  Pass = {p1, p2, p3}
  QuarantineFrames = 2
  MaxQuarantined = 2
  FrameModulus = 4
  MaxFrame = 5
  NoThread = NoThread
  NoPass = NoPass
SYMMETRY Symmetric
INVARIANT TypeOK RingOwnsWhatItFrees NothingLost
PROPERTY NoEarlyFree NothingOverdueLeft
CHECK_DEADLOCK FALSE
