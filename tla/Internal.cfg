SPECIFICATION InternalSpec
CONSTANTS
  t1 = t1
  s1 = s1
  s2 = s2
  c1 = c1
  c2 = c2
  q1 = q1
  Tickets <- MCTickets
  Servers <- MCServers
  Conns <- MCConns
  Requests <- MCRequests
  MaxTyped = 1
  MaxPrinted = 2
  MaxUses = 2
  ActionUses = 2
  MaxStops = 1
INVARIANT TerminalsAreSound
INVARIANT OkIsTrue
PROPERTY BothEndsGo
CHECK_DEADLOCK FALSE
