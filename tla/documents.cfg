CONSTANTS
  MaxFacts = 2
  MaxAliases = 2
  MaxMetadata = 2
  MaxMetadataBytes = 4100
  MaxRecordTokens = 120
  MaxFencedBoots = 2
  MaxHistory = 2
  MaxRecords = 2
  MaxPublishers = 2
  MaxIdempotency = 2
  WireFacts = 2
  WireAliases = 2
  WireMetadata = 2
  WireSteps = 2
  WireRelated = 2
  WireRecordTokens = 120
  WireBlobTokens = 60
  MaxPayload = 90
SPECIFICATION Spec
INVARIANTS
  
  AcceptedIsLegal
  OneEncoding
  WrongLengthRefused
  DamageNoticed
CHECK_DEADLOCK FALSE
