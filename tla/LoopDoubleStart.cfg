CONSTANTS
  Users = {u1}
  Starters = {s1, s2}
  Stoppers = {p1}
  Tasks = {k1, k2}
  NoTask = NoTask
  MaxRuns = 2
SPECIFICATION Spec
INVARIANT EveryLoopIsTracked
