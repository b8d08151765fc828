CONSTANTS
  Publishers = {p1}
  MaxSessions = 2
  MaxConns = 3
  MaxBoot = 2
SPECIFICATION Spec
INVARIANTS TypeOK  
PROPERTIES StopEnds GoneSessionsEnd
CHECK_DEADLOCK FALSE
