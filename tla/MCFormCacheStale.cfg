\* One lookup and one removal are enough.
SPECIFICATION SpecWithoutClear
CONSTANTS
  Reader = {r1}
  NumMods = 1
  Base = {b1}
  Form = {tree1, tree2, other}
  Tree = {tree1, tree2}
  None = None
  Absent = Absent
INVARIANT RemovedFormIsForgotten
CHECK_DEADLOCK FALSE
