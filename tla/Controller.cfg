SPECIFICATION ControllerSpec
CONSTANTS
  Users = {u, v}
  Creds = {c}
  NoSession = none
  Total = 2
  Polls = 2
  MaxSessions = 2
  Asked <- MCAsked
  OnHost <- MCOnHost
  Customs = {x}
  NoFile = none
INVARIANTS
  ControllerTypeOK
  SchemaIsTheOneAsked
PROPERTIES
  SessionsApart
  StreamCompletes
CHECK_DEADLOCK FALSE
