----------------------------- MODULE SavedState -----------------------------
(***************************************************************************)
(* What the registry saves: a record (record_codec.cpp), and a publisher,  *)
(* a lineage block and an idempotency entry (registry.cpp), inside the     *)
(* payload of the state file (persistence.cpp).                            *)
(***************************************************************************)
EXTENDS Shapes

CONSTANTS
  MaxFacts, MaxAliases, MaxMetadata, MaxMetadataBytes,   \* per record
  MaxRecordTokens,
  MaxFencedBoots, MaxHistory, MaxRecords, MaxPublishers, MaxIdempotency

\* max_string_bytes and max_metadata_value_bytes.
Str == Text(1024)
MetadataValue == Text(4096)

AnyFact == Group(<<Enum(255), Str, Str>>, <<Enum(255), Str, Str>>)
RecordFact == Ruled("fact", AnyFact, 1 :> 2)
RecordAlias == Ruled("alias", Group(<<Enum(255), Str, Str>>, <<Enum(255), Str, Str>>), 1 :> 1)
RecordMetadata == Group(<<Leaf("text", 1, 1024), MetadataValue>>, <<Leaf("text", 1, 1024), MetadataValue>>)

Provenance == Group(<<Enum(8), Enum(3), Str, Str>>, <<Enum(8), Enum(3), Str, Str>>)

Evidence ==
  Group(<<U64, Enum(2), Bool, U64, TypedId, TypedId, U64, Provenance>>,
        <<U64, Enum(2), Bool, U64, TypedId, TypedId, U64, Provenance>>)

RecordFields ==
  <<SomeClass, SomeId, Enum(8), U64, U64, U64, Digest, Digest, Str, Str,
    Optional(CanonicalId), Optional(SomeId), Optional(SomeId), Optional(SomeId),
    Many(RecordFact, MaxFacts), Many(RecordAlias, MaxAliases), Many(RecordMetadata, MaxMetadata),
    Evidence, Optional(CanonicalId), Optional(CanonicalId), Str, U64, TypedId, TypedId, U64>>

\* A current record of generation 9.
Record == Ruled("record", Group(RecordFields, RecordFields), 3 :> 2 @@ 4 :> 9 @@ 5 :> 1)

PublisherFields ==
  <<Enum(3), U64, U64, TypedId, SomeId, U64, Str, Str, Optional(CanonicalId),
    Many(SomeId, MaxFencedBoots)>>
Publisher == Ruled("publisher", Group(PublisherFields, PublisherFields), 1 :> 1)

Lineage ==
  Group(<<Enum(13), U64, Optional(U64), U64, TypedId, TypedId, Str>>,
        <<Enum(13), U64, Optional(U64), U64, TypedId, TypedId, Str>>)

LineageBlock ==
  Group(<<SomeClass, SomeId, Bool, Many(Lineage, MaxHistory)>>,
        <<SomeClass, SomeId, Bool, Many(Lineage, MaxHistory)>>)

Idempotency ==
  Group(<<SomeId, TypedId, SomeId, Digest, Enum(31), U64, U64, Str, Optional(CanonicalId)>>,
        <<SomeId, TypedId, SomeId, Digest, Enum(31), U64, U64, Str, Optional(CanonicalId)>>)

\* The payload of the state file, but for the state digest that ends it.
Version == Leaf("u32", 1, 1)
StateFields ==
  <<Version, U64, U64, Many(Blob(Record, MaxRecordTokens), MaxRecords),
    Many(Blob(Publisher, Unlimited), MaxPublishers), Many(LineageBlock, MaxRecords),
    Many(Blob(Idempotency, Unlimited), MaxIdempotency)>>
State == Ruled("state", Group(StateFields, StateFields), 1 :> 1)
-----------------------------------------------------------------------------
(* Rules over several fields *)

Distinct(s) == \A j, k \in DOMAIN s : s[j] = s[k] => j = k
NoNeighbours(s, fields) == \A k \in 2 .. Len(s) : \E n \in fields : s[k - 1][n] # s[k][n]

\* SerialNumber and DeviceInstanceId mean something only within a scope.
SoundFact(f) == f[1] \in 1 .. 24 /\ f[3] > 0 /\ (f[1] \in {1, 12} => f[2] > 0)

GlobalNamespaces == {3, 4, 8, 9, 11, 12}
ScopedNamespaces == {1, 2, 5, 7, 10, 13}
InfoScope == 4

\* validate_alias_key; a namespace nobody knows counts as informational.
SoundAlias(a) ==
  /\ a[1] # 0 /\ a[3] > 0
  /\ IF a[1] \in GlobalNamespaces THEN a[2] = 0
     ELSE IF a[1] \in ScopedNamespaces THEN a[2] > 0
     ELSE a[2] = InfoScope

RECURSIVE TotalBytes(_)
TotalBytes(entries) ==
  IF entries = <<>> THEN 0 ELSE entries[1][1] + entries[1][2] + TotalBytes(Tail(entries))

RequiresParent == {10, 12}
Current == 2

SoundRecord(r) ==
  /\ r[4] > 0 /\ r[5] > 0 /\ r[5] <= r[4]
  /\ NoNeighbours(r[15], {1, 2})
  /\ NoNeighbours(r[16], 1 .. 3)
  /\ NoNeighbours(r[17], {1})
  /\ TotalBytes(r[17]) <= MaxMetadataBytes
  /\ r[1] \in RequiresParent => r[11] # <<>>
  /\ r[3] = Current => r[18][3] = 1

Active == 1

SoundState(s) ==
  /\ Distinct([k \in DOMAIN s[4] |-> <<s[4][k][1], s[4][k][2]>>])
  /\ Distinct([k \in DOMAIN s[5] |-> s[5][k][5]])

Sound(rule, v) ==
  CASE rule = "fact" -> SoundFact(v)
    [] rule = "alias" -> SoundAlias(v)
    [] rule = "record" -> SoundRecord(v)
    [] rule = "publisher" -> v[1] = Active => v[4] # 0
    [] rule = "state" -> SoundState(v)
=============================================================================
