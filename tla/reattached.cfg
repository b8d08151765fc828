CONSTANTS
  Publishers = {p1}
  MaxSessions = 2
  MaxConns = 3
  MaxBoot = 2
SPECIFICATION Spec
PROPERTIES FencesItsOwn
CHECK_DEADLOCK FALSE
