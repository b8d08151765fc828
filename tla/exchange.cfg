CONSTANTS
  Users = {u1, u2}
  Connector = u1
  Nobody = Nobody
  u1 = u1
  u2 = u2
  Pieces = 2
  MaxSkipped = 1
  MaxRequests = 4
  MaxErrors = 2
SPECIFICATION Spec
INVARIANTS TypeOK AnswerTellsTruth StaleAnswersFailed
PROPERTIES RequestEnds AuthorityEnds ImplementsCalls
CHECK_DEADLOCK FALSE
