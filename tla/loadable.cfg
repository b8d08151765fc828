CONSTANTS
  e1 = e1  e2 = e2  e3 = e3
  p1 = p1  p2 = p2  p3 = p3
  a1 = a1  a2 = a2  note = note
  NoId = NoId  NoPublisher = NoPublisher
  Ids = {e1}
  Publishers = {p1, p2, p3}
  Aliases = {}
  UniqueAliases = {}
  Facts <- AuthorityFacts
  FactSets <- AuthorityFactSets
  AliasSets <- NoAliasSets
  StrongSlots <- MCStrongSlots
  ClassOf <- OneClass
  EvidenceClasses = {TRUE, FALSE}
  Expectations = {0, 1}
  CreateLocal = TRUE
  CounterMax = 8
  EpochMax = 3
  BootMax = 4
  MaxEntities = 2
  MaxPublishers = 2
  MaxFacts = 2
  MaxAliases = 1
  MaxAliasEntries = 1
  MaxEnumeration = 2
  MaxFencedBoots = 1
SPECIFICATION Spec
SYMMETRY RecordAndPublisherSymmetry
CHECK_DEADLOCK FALSE
INVARIANTS
  SavedStateLoads
