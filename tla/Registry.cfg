SPECIFICATION MCSpec
CONSTANTS
  i1 = i1
  i2 = i2
  m1 = m1
  m2 = m2
  Ips <- MCIps
  Maps <- MCMaps
  Ops = {o1, o2}
  NoMap = NoMap
  Kinds = {"single", "range", "delete", "update", "fields"}
INVARIANT StoresAgree
PROPERTIES
  NewRowHasDevice
  ImplementsAtomicSimulators
