CONSTANTS
  Ips = {i1}
  Maps = {m1, m2}
  Ops = {o1, o2}
  NoMap = NoMap
  Kinds = {"single", "delete"}
SPECIFICATION Spec
INVARIANT BareIsServed
