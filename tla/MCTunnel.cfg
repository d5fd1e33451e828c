SPECIFICATION TunnelSpec
CONSTANTS
  c1 = c1
  c2 = c2
  Connection <- MCConnection
  Login = {"alice", "bob"}
  Place = {"staging"}
  Requests <- MCRequests
  IdleLimit = 2
  MaxSession = 3
CHECK_DEADLOCK FALSE
INVARIANTS
  ShutdownAccountsForAll
  EndedHoldsNothing
  CancelsStayWithTheirDeveloper
PROPERTIES
  ReasonsAreTrue
  ImplementsAudit
  SessionsEnd
  ShutdownReturns
