SPECIFICATION MCSpec
CONSTANTS
  ip1 = ip1
  ip2 = ip2
  ip3 = ip3
  Lists <- MCLists
  MaxEvents = 3
  Simulators = {ip1, ip2}
  Messages = 2
  MaxBatches = 2
  MaxTargets = 2
  MaxItems = 3
  SubBatch = 2
  Names = {x, y}
  Users = {u, v}
  Configs <- MCConfigs
  Window = 15
  Capacity = 19
  MaxStarts = 4
  Devices = {d, e}
  Formats <- MCFormats
  Templates <- MCTemplates
  Enumerations <- MCEnumerations
  Long = {"protocols-inbound-rates", "units-outbound-rates"}
  ArrayNames = {"ports"}
  Numbers = {1, 7, 300}
  MaxEdits = 4
  MaxTests = 3
INVARIANTS
  ReporterTypeOK
  NothingIsLost
  SentIsCounted
  NoErrorMeansSent
  StopsWithinOneMessage
  ReplyIsTrue
  CapacityHolds
  OfferIsLargest
  AllMeansLoaded
  MessagesAreRead
  TestsItsMessage
PROPERTIES
  EveryStreamEnds
CHECK_DEADLOCK FALSE
