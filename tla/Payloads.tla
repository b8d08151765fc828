------------------------------ MODULE Payloads ------------------------------
(***************************************************************************)
(* What the two ends of a connection say to each other: for every message, *)
(* the fields that its encoder writes and the fields that its decoder      *)
(* takes, each list read off its own function of frame.cpp.                *)
(***************************************************************************)
EXTENDS SavedState

CONSTANTS WireFacts, WireAliases, WireMetadata, WireSteps, WireRelated, WireRecordTokens, WireBlobTokens

\* kTextBound holds for every text of a payload, whatever it carries.
WireText == Text(1024)

EntityClass == Enum(15)
Match == Enum(6)

Fact == Group(<<Enum(24), WireText, WireText>>, <<Enum(24), WireText, WireText>>)
AliasInput == Group(<<Enum(13), WireText>>, <<Enum(13), WireText>>)
AliasKey == Group(<<Enum(13), WireText, WireText>>, <<Enum(13), WireText, WireText>>)
MetadataEntry == Group(<<WireText, WireText>>, <<WireText, WireText>>)

ScopeRef ==
  Group(<<Optional(SomeId), Optional(SomeId), Optional(SomeId), Optional(CanonicalId)>>,
        <<Optional(SomeId), Optional(SomeId), Optional(SomeId), Optional(CanonicalId)>>)

WireProvenance ==
  Group(<<Enum(8), Enum(3), WireText, WireText>>, <<Enum(8), Enum(3), WireText, WireText>>)

Authority == Group(<<TypedId, TypedId, U64>>, <<TypedId, TypedId, U64>>)

ExplanationStep ==
  Group(<<WireText, WireText, WireText, WireText>>, <<WireText, WireText, WireText, WireText>>)

\* Mutant: the reader expects the digest before the match.
OutcomeMisread ==
  Group(<<Enum(31), WireText, Optional(CanonicalId), Optional(U64), Optional(U64), Optional(U64),
          Optional(Match), Optional(Digest), Optional(U64),
          Many(ExplanationStep, WireSteps), Many(CanonicalId, WireRelated)>>,
        <<Enum(31), WireText, Optional(CanonicalId), Optional(U64), Optional(U64), Optional(U64),
          Optional(Digest), Optional(Match), Optional(U64),
          Many(ExplanationStep, WireSteps), Many(CanonicalId, WireRelated)>>)

Outcome ==
  Group(<<Enum(31), WireText, Optional(CanonicalId), Optional(U64), Optional(U64), Optional(U64),
          Optional(Match), Optional(Digest), Optional(U64),
          Many(ExplanationStep, WireSteps), Many(CanonicalId, WireRelated)>>,
        <<Enum(31), WireText, Optional(CanonicalId), Optional(U64), Optional(U64), Optional(U64),
          Optional(Match), Optional(Digest), Optional(U64),
          Many(ExplanationStep, WireSteps), Many(CanonicalId, WireRelated)>>)
-----------------------------------------------------------------------------
(* Sessions *)

HelloRequest == Group(<<U16, WireText>>, <<U16, WireText>>)
HelloResponse ==
  Group(<<Bool, U16, U64, U64, WireText, WireText>>, <<Bool, U16, U64, U64, WireText, WireText>>)
AttachRequest == Group(<<TypedId, WireText, U16>>, <<TypedId, WireText, U16>>)
AttachResponse ==
  Group(<<Outcome, TypedId, TypedId, U64, Bool>>, <<Outcome, TypedId, TypedId, U64, Bool>>)
DetachRequest == Group(<<Authority, Enum(4)>>, <<Authority, Enum(4)>>)
ErrorPayload == Group(<<Enum(31), WireText>>, <<Enum(31), WireText>>)
-----------------------------------------------------------------------------
(* Mutations *)

RegisterRequest ==
  Group(<<TypedId, Authority, EntityClass, Optional(CanonicalId), WireText, WireText,
          Many(Fact, WireFacts), Many(AliasInput, WireAliases), Many(MetadataEntry, WireMetadata),
          ScopeRef, WireProvenance, Enum(2), Enum(2), Optional(U64), Enum(2), Optional(CanonicalId), Bool>>,
        <<TypedId, Authority, EntityClass, Optional(CanonicalId), WireText, WireText,
          Many(Fact, WireFacts), Many(AliasInput, WireAliases), Many(MetadataEntry, WireMetadata),
          ScopeRef, WireProvenance, Enum(2), Enum(2), Optional(U64), Enum(2), Optional(CanonicalId), Bool>>)

UpdateEvidenceRequest ==
  Group(<<TypedId, Authority, CanonicalId, Optional(U64), Many(Fact, WireFacts), WireProvenance, Enum(2), Bool>>,
        <<TypedId, Authority, CanonicalId, Optional(U64), Many(Fact, WireFacts), WireProvenance, Enum(2), Bool>>)

RevalidateRequest ==
  Group(<<TypedId, Authority, CanonicalId, Optional(U64), Many(Fact, WireFacts), WireProvenance, Enum(2), Bool>>,
        <<TypedId, Authority, CanonicalId, Optional(U64), Many(Fact, WireFacts), WireProvenance, Enum(2), Bool>>)

AliasRequest ==
  Group(<<TypedId, Authority, CanonicalId, Optional(U64), AliasInput>>,
        <<TypedId, Authority, CanonicalId, Optional(U64), AliasInput>>)

SupersedeRequest ==
  Group(<<TypedId, Authority, CanonicalId, Optional(U64), Optional(CanonicalId), WireText>>,
        <<TypedId, Authority, CanonicalId, Optional(U64), Optional(CanonicalId), WireText>>)

RetireRequest ==
  Group(<<TypedId, Authority, CanonicalId, Optional(U64), WireText>>,
        <<TypedId, Authority, CanonicalId, Optional(U64), WireText>>)

TombstoneRequest ==
  Group(<<TypedId, Authority, CanonicalId, Optional(U64), WireText>>,
        <<TypedId, Authority, CanonicalId, Optional(U64), WireText>>)

ResolveConflictRequest ==
  Group(<<TypedId, Authority, CanonicalId, Optional(U64), Enum(2), WireText>>,
        <<TypedId, Authority, CanonicalId, Optional(U64), Enum(2), WireText>>)
-----------------------------------------------------------------------------
(* Queries *)

ReconcileRequest ==
  Group(<<TypedId, Authority, EntityClass, Many(Fact, WireFacts), Many(AliasInput, WireAliases),
          ScopeRef, WireProvenance, Enum(2), Optional(CanonicalId)>>,
        <<TypedId, Authority, EntityClass, Many(Fact, WireFacts), Many(AliasInput, WireAliases),
          ScopeRef, WireProvenance, Enum(2), Optional(CanonicalId)>>)

ReconcileDetail ==
  Group(<<Match, Optional(CanonicalId), Many(CanonicalId, WireRelated), Many(Fact, WireFacts),
          Many(AliasKey, WireAliases), Digest>>,
        <<Match, Optional(CanonicalId), Many(CanonicalId, WireRelated), Many(Fact, WireFacts),
          Many(AliasKey, WireAliases), Digest>>)

LookupRequest == CanonicalId
LookupResponse ==
  Group(<<Outcome, Optional(Blob(Record, WireRecordTokens))>>,
        <<Outcome, Optional(Blob(Record, WireRecordTokens))>>)
\* The outcome and the detail, each in an envelope of its own.
ReconcileResponse ==
  Group(<<Blob(Outcome, WireBlobTokens), Blob(ReconcileDetail, WireBlobTokens)>>,
        <<Blob(Outcome, WireBlobTokens), Blob(ReconcileDetail, WireBlobTokens)>>)
HeartbeatResponse == U64
SnapshotSummary == Group(<<U64, U64, U64, Digest, U64, U64>>, <<U64, U64, U64, Digest, U64, U64>>)

\* Sixteen counts, the generation and the epoch.
Stats == Group([k \in 1 .. 18 |-> U64], [k \in 1 .. 18 |-> U64])
=============================================================================
