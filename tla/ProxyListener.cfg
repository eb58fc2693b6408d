CONSTANTS
  Ips = {i1, i2}
  Ports = {p1, p2}
  NoIp = NoIp
  NoSock = NoSock
SPECIFICATION FairSpec
INVARIANTS NoOrphanSocket ActiveListensOnAllPorts
PROPERTY ListenersFollow
