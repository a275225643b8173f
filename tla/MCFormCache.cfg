\* Two mods, one base id, two readers: a fill and a scan can be overtaken by
\* each write, and the second mod's tree becomes the first.
SPECIFICATION Spec
CONSTANTS
  Reader = {r1, r2}
  NumMods = 2
  Base = {b1}
  Form = {tree1, tree2, other}
  Tree = {tree1, tree2}
  None = None
  Absent = Absent
INVARIANT NeverShadowsRegisteredForm CoherentUnlessOvertaken
CHECK_DEADLOCK FALSE
