CONSTANTS
  e1 = e1  e2 = e2  p1 = p1  p2 = p2  a1 = a1  a2 = a2
  NoId = NoId  NoPublisher = NoPublisher
  Ids = {e1, e2}
  Publishers = {p1, p2}
  Aliases = {a1}
  UniqueAliases = {a1}
  Facts <- MCFacts
  FactSets <- MCFactSets
  AliasSets <- NoAliasSets
  StrongSlots <- MCStrongSlots
  ClassOf <- OneClass
  EvidenceClasses = {FALSE}
  Expectations = {0, 1, 2}
  CreateLocal = FALSE
  CounterMax = 6
  EpochMax = 2
  BootMax = 3
  MaxEntities = 2
  MaxPublishers = 2
  MaxFacts = 2
  MaxAliases = 2
  MaxAliasEntries = 2
  MaxEnumeration = 1
  MaxFencedBoots = 3
  Attempts = {1, 2, 3}
  MaxLog = 2
  Requests <- EveryRequest
SPECIFICATION AttemptSpec
SYMMETRY Symmetry
CHECK_DEADLOCK FALSE
INVARIANTS
  LogTypeOK
  LatestCommitRemembered
  ReplayAnswersOwnCommit
  OneCommitPerExpectation
