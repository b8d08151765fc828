CONSTANTS
  e1 = e1  e2 = e2  e3 = e3
  p1 = p1  p2 = p2  p3 = p3
  a1 = a1  a2 = a2  note = note
  NoId = NoId  NoPublisher = NoPublisher
  Ids = {e1, e2, e3}
  Publishers = {p1}
  Aliases = {a1, note}
  UniqueAliases = {a1}
  Facts <- IdentityFacts
  FactSets <- IdentityFactSets
  AliasSets <- IdentityAliasSets
  StrongSlots <- MCStrongSlots
  ClassOf <- OneClass
  EvidenceClasses = {TRUE}
  Expectations = {0}
  CreateLocal = TRUE
  CounterMax = 7
  EpochMax = 1
  BootMax = 1
  MaxEntities = 3
  MaxPublishers = 1
  MaxFacts = 2
  MaxAliases = 2
  MaxAliasEntries = 1
  MaxEnumeration = 2
  MaxFencedBoots = 1
SPECIFICATION Spec
SYMMETRY RecordAndPublisherSymmetry
CHECK_DEADLOCK FALSE
INVARIANTS
  AliasIndexAgrees
  ObservationsMatchSoundly
PROPERTIES
  LifecycleStepsLegal
  ClosedStaysClosed
  AliasChangesHands
