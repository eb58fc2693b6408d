CONSTANTS
  Ips = {i1, i2}
  Maps = {m1, m2}
  Ops = {o1}
  NoMap = NoMap
  Kinds = {"single", "range", "stream", "delete", "update", "fields", "list"}
SPECIFICATION Spec
INVARIANTS StoresAgree BareIsServed
