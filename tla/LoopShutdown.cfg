CONSTANTS
  Users = {u1, u2}
  Starters = {s1}
  Stoppers = {p1}
  Tasks = {k1, k2}
  NoTask = NoTask
  MaxRuns = 2
SPECIFICATION Spec
PROPERTY ShutdownKeepsState
