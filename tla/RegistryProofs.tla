--------------------------- MODULE RegistryProofs ---------------------------
(***************************************************************************)
(* Theorems about Registry for every value of its constants.               *)
(*                                                                         *)
(* Every record mutation but one installs a single record.  The predicate  *)
(* Commit says what such an install can be; lemma MutationShape shows that *)
(* a mutation is a Commit or a SupersedeBy, and every theorem below argues *)
(* over these two and the five authority actions.                          *)
(***************************************************************************)
EXTENDS Registry, FiniteSetTheorems, SequenceTheorems, TLAPS

\* The inductive invariant: what the checked invariants need besides each
\* other.  An absent record holds nothing; evidence is never from the future;
\* exactly the active publishers are bound to an incarnation.
AbsentIsBlank ==
  \A i \in Ids : ~Known(i) => records[i].aliases = {} /\ ~records[i].evidence.valid

EvidenceInPast == \A i \in Ids : records[i].evidence.epoch <= epoch

ValidEvidenceIsSigned ==
  \A i \in Ids : records[i].evidence.valid => records[i].evidence.publisher \in Publishers

ActiveIffBound ==
  \A p \in Publishers : publishers[p].state = "Active" <=> publishers[p].boot # NoBoot

IInv ==
  /\ TypeOK
  /\ AliasIndexAgrees
  /\ RecordBehindRegistry
  /\ AbsentIsBlank
  /\ EvidenceInPast
  /\ ValidEvidenceIsSigned
  /\ ActiveIffBound
  /\ ValidEvidenceIsBound
-----------------------------------------------------------------------------
(* What a single-record mutation can install *)

\* A legal lifecycle step, staying put included.
LegalStep(from, to) ==
  \/ to = from
  \/ from = "Absent" /\ to \in {"Current", "Candidate", "Discovered"}
  \/ from # "Absent" /\ to \in Lifecycles /\ TransitionAllowed(from, to)

\* The evidence of the next revision is signed by the claim, kept or revoked,
\* and authority is gained only on a signature or from a conflict.
Signed(p, boot, r, next) ==
  /\ \E d \in BOOLEAN : next.evidence = FillEvidence(p, boot, d)
  /\ r.lifecycle \notin Closed

Kept(r, next) ==
  /\ next.evidence = r.evidence /\ next.facts = r.facts
  /\ next.lifecycle = "Current" => r.lifecycle \in {"Current", "Conflicted"}

Revoked(r, next) ==
  /\ next.evidence = [r.evidence EXCEPT !.valid = FALSE] /\ next.facts = r.facts
  /\ next.lifecycle # "Current"

Commit(p, boot, i, next) ==
  /\ next \in Record
  /\ next.lifecycle # "Absent"
  /\ LegalStep(records[i].lifecycle, next.lifecycle)
  /\ records[i].lifecycle \in {"Tombstoned", "Rejected"}
       => records[i].aliases \subseteq next.aliases
  /\ ~AliasesBoundElsewhere(next.aliases, i)
  /\ \/ Signed(p, boot, records[i], next)
     \/ Kept(records[i], next)
     \/ Revoked(records[i], next)
  /\ InstallRecord(i, next)
  /\ UNCHANGED <<epoch, minted, local, publishers>>
-----------------------------------------------------------------------------
(* Lemmas about the operators *)

\* CHOOSE from a nonempty set yields one of its members.
LEMMA TheOneIsMember == ASSUME NEW S, S # {} PROVE TheOne(S) \in S
  BY DEF TheOne

\* A resolution names only identities, and a match that merges names a record
\* that exists.
LEMMA ResolveTyped ==
  ASSUME TypeOK, AliasIndexAgrees, AbsentIsBlank,
         NEW i \in Ids, NEW facts, NEW aliases
  PROVE  LET found == ResolveIdentity(i, facts, aliases) IN
         /\ found.candidates \subseteq Ids
         /\ found.match \in AutomaticMatch => found.target \in Ids /\ Known(found.target)
  <1> DEFINE sharing(f) == {j \in KnownIds : f \in records[j].facts}
             touched == UNION {sharing(f) : f \in facts}
             contradicting == {j \in touched : Contradicted(j, facts)}
             hardware == {j \in touched \ contradicting :
                            StrongComparable(facts, records[j].facts)}
             holders == {alias_index[a] : a \in aliases \cap UniqueAliases} \ {NoId}
  <1>1. touched \subseteq KnownIds /\ hardware \subseteq KnownIds /\ contradicting \subseteq Ids
    BY DEF KnownIds
  <1>2. holders \subseteq KnownIds
    BY DEF TypeOK, AliasIndexAgrees, AbsentIsBlank, KnownIds
  <1>3. KnownIds \subseteq Ids /\ \A j \in KnownIds : Known(j)
    BY DEF KnownIds
  <1>4. hardware # {} => TheOne(hardware) \in KnownIds
    BY <1>1, TheOneIsMember
  <1>5. holders # {} => TheOne(holders) \in KnownIds
    BY <1>2, TheOneIsMember
  <1> HIDE DEF touched, contradicting, hardware, holders
  <1>6. ResolveIdentity(i, facts, aliases).candidates \in
          {{i}, {}, hardware, contradicting, holders, touched}
    BY DEF ResolveIdentity, touched, contradicting, hardware, holders
  <1>7. ResolveIdentity(i, facts, aliases).match \in AutomaticMatch =>
          \/ Known(i) /\ ResolveIdentity(i, facts, aliases).target = i
          \/ hardware # {} /\ ResolveIdentity(i, facts, aliases).target = TheOne(hardware)
          \/ holders # {} /\ ResolveIdentity(i, facts, aliases).target = TheOne(holders)
    BY DEF ResolveIdentity, AutomaticMatch, touched, contradicting, hardware, holders
  <1> QED
    BY <1>1, <1>2, <1>3, <1>4, <1>5, <1>6, <1>7

\* The candidates of a conflict exist.
LEMMA ResolveCandidatesKnown ==
  ASSUME TypeOK, AliasIndexAgrees, AbsentIsBlank,
         NEW i \in Ids, NEW facts, NEW aliases,
         ResolveIdentity(i, facts, aliases).match = "Conflicting"
  PROVE  ResolveIdentity(i, facts, aliases).candidates \subseteq KnownIds
  <1> DEFINE sharing(f) == {j \in KnownIds : f \in records[j].facts}
             touched == UNION {sharing(f) : f \in facts}
             contradicting == {j \in touched : Contradicted(j, facts)}
             holders == {alias_index[a] : a \in aliases \cap UniqueAliases} \ {NoId}
  <1>1. contradicting \subseteq KnownIds
    BY DEF KnownIds
  <1>2. holders \subseteq KnownIds
    BY DEF TypeOK, AliasIndexAgrees, AbsentIsBlank, KnownIds
  <1> HIDE DEF contradicting, holders
  <1>3. \/ Known(i) /\ ResolveIdentity(i, facts, aliases).candidates = {i}
        \/ ResolveIdentity(i, facts, aliases).candidates \in {contradicting, holders}
    BY DEF ResolveIdentity, contradicting, holders
  <1> QED
    BY <1>1, <1>2, <1>3 DEF KnownIds

\* The evidence a claim writes is well typed.
LEMMA FillEvidenceTyped ==
  ASSUME TypeOK, NEW p \in Publishers, NEW boot \in Nat, NEW d \in BOOLEAN
  PROVE  FillEvidence(p, boot, d) \in Evidence
  BY DEF TypeOK, FillEvidence, Evidence

\* The aliases a record holds are bound to it.
LEMMA OwnAliasesBoundHere ==
  ASSUME AliasIndexAgrees, NEW i \in Ids, NEW aliases, NEW more,
         aliases \subseteq records[i].aliases \cup more,
         ~AliasesBoundElsewhere(more, i)
  PROVE  ~AliasesBoundElsewhere(aliases, i)
  BY DEF AliasIndexAgrees, AliasesBoundElsewhere
-----------------------------------------------------------------------------
(* Each mutation commits one record, or supersedes one by another *)

\* The update path of register_entity commits one revision of one record.
LEMMA UpdateShape ==
  ASSUME TypeOK, AliasIndexAgrees,
         NEW p \in Publishers, NEW boot \in Nat, NEW j \in Ids, Known(j),
         NEW facts \in FactSets, NEW aliases \in AliasSets,
         NEW admission \in Admissions, NEW durable \in EvidenceClasses, NEW expected,
         UpdateMatched(p, boot, j, facts, aliases, admission, durable, expected)
  PROVE  \E next : Commit(p, boot, j, next)
  <1> DEFINE r == records[j]
             observed == [r EXCEPT !.aliases = @ \cup aliases]
             admitted == [observed EXCEPT
                            !.lifecycle = AdmittedLifecycle(r.lifecycle, admission),
                            !.facts = @ \cup facts,
                            !.evidence = FillEvidence(p, boot, durable)]
  <1>1. facts \subseteq Facts /\ aliases \subseteq Aliases /\ durable \in BOOLEAN
    BY RegistryAssumption
  <1>2. r \in Record /\ r.lifecycle # "Absent" /\ r.lifecycle \in Lifecycles
    BY DEF TypeOK, Record, Known
  <1>3. FillEvidence(p, boot, durable) \in Evidence
    BY <1>1, FillEvidenceTyped
  <1>4. observed \in Record
    BY <1>1, <1>2 DEF Record
  <1>5. r.lifecycle \notin Closed \cup {"Conflicted"}
    BY DEF UpdateMatched, AcceptsMutation
  <1>6. ~AliasesBoundElsewhere(observed.aliases, j)
    BY <1>2, OwnAliasesBoundHere DEF UpdateMatched, Record
  <1>7. CASE admission = "AllowObservation"
    <2>1. InstallRecord(j, observed) /\ UNCHANGED <<epoch, minted, local, publishers>>
      BY <1>7 DEF UpdateMatched
    <2>2. Kept(r, observed)
      BY <1>2, <1>5 DEF Kept, Record
    <2>3. LegalStep(r.lifecycle, observed.lifecycle)
      BY <1>2 DEF LegalStep, Record
    <2> QED
      BY <1>2, <1>4, <1>5, <1>6, <2>1, <2>2, <2>3 DEF Commit, Closed, Record
  <1>8. CASE admission # "AllowObservation"
    <2>1. InstallRecord(j, admitted) /\ UNCHANGED <<epoch, minted, local, publishers>>
      BY <1>8 DEF UpdateMatched
    <2>2. admission = "RequireCurrent" \/ admission = "AllowCandidate"
      BY <1>8 DEF Admissions
    <2>3. /\ AdmittedLifecycle(r.lifecycle, admission) \in Lifecycles
          /\ LegalStep(r.lifecycle, AdmittedLifecycle(r.lifecycle, admission))
      <3>1. CASE admission = "RequireCurrent"
        <4>1. r.lifecycle # "Current" => TransitionAllowed(r.lifecycle, "Current")
          BY <3>1 DEF UpdateMatched
        <4> QED
          BY <1>2, <3>1, <4>1 DEF AdmittedLifecycle, LegalStep, Lifecycles
      <3>2. CASE admission = "AllowCandidate"
        BY <1>2, <3>2 DEF AdmittedLifecycle, LegalStep, Lifecycles, TransitionAllowed, Successors
      <3> QED
        BY <2>2, <3>1, <3>2
    <2>4. /\ admitted \in Record
          /\ admitted.lifecycle = AdmittedLifecycle(r.lifecycle, admission)
          /\ admitted.aliases = observed.aliases
          /\ admitted.evidence = FillEvidence(p, boot, durable)
      BY <1>1, <1>2, <1>3, <1>4, <2>3 DEF Record
    <2>5. Signed(p, boot, r, admitted)
      BY <1>1, <1>5, <2>4 DEF Signed
    <2>6. "Absent" \notin Lifecycles
      BY DEF Lifecycles
    <2> QED
      BY <1>5, <1>6, <2>1, <2>3, <2>4, <2>5, <2>6 DEF Commit, Closed
  <1> QED
    BY <1>7, <1>8

\* The conflict path of register_entity commits one record, frozen as conflicted.
LEMMA ConflictShape ==
  ASSUME TypeOK, AliasIndexAgrees, AbsentIsBlank,
         NEW p, NEW boot, NEW i \in Ids, NEW facts, NEW aliases,
         RegisterConflict(i, facts, aliases)
  PROVE  \E j \in Ids : \E next : Commit(p, boot, j, next)
  <1>1. PICK j \in ResolveIdentity(i, facts, aliases).candidates :
          /\ AcceptsMutation(records[j].lifecycle)
          /\ TransitionAllowed(records[j].lifecycle, "Conflicted")
          /\ InstallRecord(j, [records[j] EXCEPT !.lifecycle = "Conflicted"])
    BY DEF RegisterConflict
  <1>2. j \in Ids
    BY ResolveTyped
  <1> DEFINE r == records[j]
             next == [r EXCEPT !.lifecycle = "Conflicted"]
  <1>3. r \in Record
    BY <1>2 DEF TypeOK
  <1>4. next \in Record /\ next.lifecycle = "Conflicted" /\ next.aliases = r.aliases
    BY <1>3 DEF Record, Lifecycles
  <1>5. Kept(r, next)
    BY <1>3, <1>4 DEF Kept, Record
  <1>6. LegalStep(r.lifecycle, next.lifecycle)
    <2>1. r.lifecycle \in {"Discovered", "Candidate", "Current", "RevalidationRequired",
                           "Superseded", "Retired", "Tombstoned", "Rejected", "Absent",
                           "Conflicted"}
      BY <1>3 DEF Record, Lifecycles
    <2>2. CASE r.lifecycle # "Absent"
      BY <1>1, <1>4, <2>2 DEF LegalStep, Lifecycles
    <2>3. CASE r.lifecycle = "Absent"
      <3>1. ResolveIdentity(i, facts, aliases).candidates \subseteq KnownIds
        BY <1>1, ResolveCandidatesKnown DEF RegisterConflict
      <3> QED
        BY <1>1, <2>3, <3>1 DEF KnownIds, Known
    <2> QED
      BY <2>2, <2>3
  <1>7. ~AliasesBoundElsewhere(next.aliases, j)
    BY <1>2, <1>4 DEF AliasIndexAgrees, AliasesBoundElsewhere
  <1>8. r.lifecycle \notin Closed
    BY <1>1 DEF AcceptsMutation
  <1>9. UNCHANGED <<epoch, minted, local, publishers>>
    BY DEF RegisterConflict
  <1> QED
    BY <1>1, <1>2, <1>4, <1>5, <1>6, <1>7, <1>8, <1>9 DEF Commit, Closed

\* The creation path of register_entity commits one record that was absent.
LEMMA CreateShape ==
  ASSUME TypeOK, AliasIndexAgrees,
         NEW p \in Publishers, NEW boot \in Nat, NEW i \in Ids,
         NEW facts \in FactSets, NEW aliases \in AliasSets,
         NEW admission \in Admissions, NEW durable \in EvidenceClasses, NEW force_new,
         RegisterCreate(p, boot, i, facts, aliases, admission, durable, force_new)
  PROVE  \E next : Commit(p, boot, i, next)
  <1> DEFINE next == [NoRecord EXCEPT !.lifecycle = TargetLifecycle(admission),
                                      !.facts = facts, !.aliases = aliases,
                                      !.evidence = FillEvidence(p, boot, durable)]
  <1>1. facts \subseteq Facts /\ aliases \subseteq Aliases /\ durable \in BOOLEAN
    BY RegistryAssumption
  <1>2. FillEvidence(p, boot, durable) \in Evidence
    BY <1>1, FillEvidenceTyped
  <1>3. /\ TargetLifecycle(admission) \in {"Current", "Candidate", "Discovered"}
        /\ TargetLifecycle(admission) \in Lifecycles
    BY DEF TargetLifecycle, Admissions, Lifecycles
  <1>4. /\ next \in Record
        /\ next.lifecycle = TargetLifecycle(admission)
        /\ next.aliases = aliases
        /\ next.evidence = FillEvidence(p, boot, durable)
    BY <1>1, <1>2, <1>3 DEF NoRecord, NoEvidence, Record
  <1>5. records[i].lifecycle = "Absent"
    BY DEF RegisterCreate, Known
  <1>6. Signed(p, boot, records[i], next)
    BY <1>1, <1>4, <1>5 DEF Signed, Closed
  <1>7. LegalStep(records[i].lifecycle, next.lifecycle)
    BY <1>3, <1>4, <1>5 DEF LegalStep
  <1> QED
    BY <1>3, <1>4, <1>5, <1>6, <1>7 DEF Commit, RegisterCreate

\* update_evidence and revalidate_entity commit one record that keeps its aliases.
LEMMA EvidenceShape ==
  ASSUME TypeOK, AliasIndexAgrees,
         NEW p \in Publishers, NEW boot \in Nat, NEW i \in Ids, NEW facts \in FactSets,
         NEW merge \in BOOLEAN, NEW durable \in EvidenceClasses, NEW expected,
         \/ UpdateEvidence(p, boot, i, facts, merge, durable, expected)
         \/ Revalidate(p, boot, i, facts, merge, durable, expected)
  PROVE  \E next : Commit(p, boot, i, next)
  <1> DEFINE r == records[i]
             result == ResultingFacts(i, facts, merge)
             updated == [r EXCEPT !.facts = result, !.evidence = FillEvidence(p, boot, durable)]
             revalidated == [r EXCEPT !.facts = result, !.lifecycle = "Current",
                                      !.evidence = FillEvidence(p, boot, durable)]
  <1>1. facts \subseteq Facts /\ durable \in BOOLEAN
    BY RegistryAssumption
  <1>2. r \in Record
    BY DEF TypeOK
  <1>3. FillEvidence(p, boot, durable) \in Evidence
    BY <1>1, FillEvidenceTyped
  <1>4. result \subseteq Facts
    BY <1>1, <1>2 DEF ResultingFacts, Record
  <1>5. ~AliasesBoundElsewhere(r.aliases, i)
    BY DEF AliasIndexAgrees, AliasesBoundElsewhere
  <1>6. CASE UpdateEvidence(p, boot, i, facts, merge, durable, expected)
    <2>1. /\ updated \in Record /\ updated.lifecycle = r.lifecycle
          /\ updated.aliases = r.aliases
          /\ updated.evidence = FillEvidence(p, boot, durable)
      BY <1>2, <1>3, <1>4 DEF Record
    <2>2. r.lifecycle \notin Closed /\ r.lifecycle # "Absent"
      BY <1>6 DEF UpdateEvidence, AcceptsMutation, Known
    <2>3. Signed(p, boot, r, updated)
      BY <1>1, <2>1, <2>2 DEF Signed
    <2>4. LegalStep(r.lifecycle, updated.lifecycle)
      BY <2>1 DEF LegalStep
    <2>5. InstallRecord(i, updated) /\ UNCHANGED <<epoch, minted, local, publishers>>
      BY <1>6 DEF UpdateEvidence
    <2> QED
      BY <1>5, <2>1, <2>2, <2>3, <2>4, <2>5 DEF Commit
  <1>7. CASE Revalidate(p, boot, i, facts, merge, durable, expected)
    <2>1. /\ revalidated \in Record /\ revalidated.lifecycle = "Current"
          /\ revalidated.aliases = r.aliases
          /\ revalidated.evidence = FillEvidence(p, boot, durable)
      BY <1>2, <1>3, <1>4 DEF Record, Lifecycles
    <2>2. r.lifecycle \in {"Current", "RevalidationRequired"}
      BY <1>7 DEF Revalidate
    <2>3. Signed(p, boot, r, revalidated)
      BY <1>1, <2>1, <2>2 DEF Signed, Closed
    <2>4. LegalStep(r.lifecycle, revalidated.lifecycle)
      BY <2>1, <2>2 DEF LegalStep, TransitionAllowed, Successors, Lifecycles
    <2>5. InstallRecord(i, revalidated) /\ UNCHANGED <<epoch, minted, local, publishers>>
      BY <1>7 DEF Revalidate
    <2> QED
      BY <1>5, <2>1, <2>2, <2>3, <2>4, <2>5 DEF Commit
  <1> QED
    BY <1>6, <1>7

\* attach_alias and detach_alias commit one record that keeps its evidence.
LEMMA AliasShape ==
  ASSUME TypeOK, AliasIndexAgrees, NEW p, NEW boot, NEW i \in Ids, NEW a \in Aliases,
         NEW expected, AttachAlias(i, a, expected) \/ DetachAlias(i, a, expected)
  PROVE  \E next : Commit(p, boot, i, next)
  <1> DEFINE r == records[i]
             longer == [r EXCEPT !.aliases = @ \cup {a}]
             shorter == [r EXCEPT !.aliases = @ \ {a}]
  <1>1. r \in Record
    BY DEF TypeOK
  <1>2. CASE AttachAlias(i, a, expected)
    <2>1. longer \in Record /\ longer.lifecycle = r.lifecycle
          /\ longer.aliases = r.aliases \cup {a} /\ Kept(r, longer)
      BY <1>1 DEF Record, Kept
    <2>2. ~AliasesBoundElsewhere(longer.aliases, i)
      BY <1>2, <2>1, OwnAliasesBoundHere DEF AttachAlias
    <2>3. r.lifecycle # "Absent" /\ LegalStep(r.lifecycle, longer.lifecycle)
      BY <1>2, <2>1 DEF AttachAlias, Known, LegalStep
    <2>4. InstallRecord(i, longer) /\ UNCHANGED <<epoch, minted, local, publishers>>
      BY <1>2 DEF AttachAlias
    <2> QED
      BY <2>1, <2>2, <2>3, <2>4 DEF Commit
  <1>3. CASE DetachAlias(i, a, expected)
    <2>1. shorter \in Record /\ shorter.lifecycle = r.lifecycle
          /\ shorter.aliases = r.aliases \ {a} /\ Kept(r, shorter)
      BY <1>1 DEF Record, Kept
    <2>2. ~AliasesBoundElsewhere(shorter.aliases, i)
      BY <2>1 DEF AliasIndexAgrees, AliasesBoundElsewhere
    <2>3. r.lifecycle \notin {"Absent", "Tombstoned", "Rejected"}
          /\ LegalStep(r.lifecycle, shorter.lifecycle)
      BY <1>3, <2>1 DEF DetachAlias, Known, LegalStep, AcceptsAliasRelease
    <2>4. InstallRecord(i, shorter) /\ UNCHANGED <<epoch, minted, local, publishers>>
      BY <1>3 DEF DetachAlias
    <2> QED
      BY <2>1, <2>2, <2>3, <2>4 DEF Commit
  <1> QED
    BY <1>2, <1>3

\* supersede_entity without a successor, and retire_entity, commit one record
\* that keeps its facts, aliases and evidence.
LEMMA ClosingShape ==
  ASSUME TypeOK, AliasIndexAgrees, NEW p, NEW boot, NEW i \in Ids, NEW expected,
         SupersedeAlone(i, expected) \/ Retire(i, expected)
  PROVE  \E next : Commit(p, boot, i, next)
  <1> DEFINE r == records[i]
             superseded == [r EXCEPT !.lifecycle = "Superseded", !.superseded_by = NoId]
             retired == [r EXCEPT !.lifecycle = "Retired"]
  <1>1. r \in Record
    BY DEF TypeOK
  <1>2. ~AliasesBoundElsewhere(r.aliases, i)
    BY DEF AliasIndexAgrees, AliasesBoundElsewhere
  <1>3. CASE SupersedeAlone(i, expected)
    <2>1. superseded \in Record /\ superseded.lifecycle = "Superseded"
          /\ superseded.aliases = r.aliases /\ Kept(r, superseded)
      BY <1>1 DEF Record, Kept, Lifecycles
    <2>2. LegalStep(r.lifecycle, superseded.lifecycle)
      BY <1>3, <2>1 DEF SupersedeAlone, Supersedable, LegalStep, Lifecycles,
                        TransitionAllowed, Successors
    <2>3. InstallRecord(i, superseded) /\ UNCHANGED <<epoch, minted, local, publishers>>
      BY <1>3 DEF SupersedeAlone
    <2> QED
      BY <1>2, <2>1, <2>2, <2>3 DEF Commit
  <1>4. CASE Retire(i, expected)
    <2>1. retired \in Record /\ retired.lifecycle = "Retired"
          /\ retired.aliases = r.aliases /\ Kept(r, retired)
      BY <1>1 DEF Record, Kept, Lifecycles
    <2>2. LegalStep(r.lifecycle, retired.lifecycle)
      BY <1>4, <2>1 DEF Retire, Known, LegalStep, Lifecycles
    <2>3. InstallRecord(i, retired) /\ UNCHANGED <<epoch, minted, local, publishers>>
      BY <1>4 DEF Retire
    <2> QED
      BY <1>2, <2>1, <2>2, <2>3 DEF Commit
  <1> QED
    BY <1>3, <1>4

\* tombstone_entity commits one record whose evidence it invalidates.
LEMMA TombstoneShape ==
  ASSUME TypeOK, AliasIndexAgrees, NEW p, NEW boot, NEW i \in Ids, NEW expected,
         Tombstone(i, expected)
  PROVE  \E next : Commit(p, boot, i, next)
  <1> DEFINE r == records[i]
             next == [r EXCEPT !.lifecycle = "Tombstoned", !.evidence.valid = FALSE]
  <1>1. r \in Record
    BY DEF TypeOK
  <1>2. [r.evidence EXCEPT !.valid = FALSE] \in Evidence
    BY <1>1 DEF Record, Evidence
  <1>3. next \in Record /\ next.lifecycle = "Tombstoned" /\ next.aliases = r.aliases
        /\ next.facts = r.facts /\ next.evidence = [r.evidence EXCEPT !.valid = FALSE]
    BY <1>1, <1>2 DEF Record, Lifecycles
  <1>4. Revoked(r, next)
    BY <1>3 DEF Revoked
  <1>5. LegalStep(r.lifecycle, next.lifecycle)
    BY <1>3 DEF Tombstone, Known, LegalStep, Lifecycles
  <1>6. ~AliasesBoundElsewhere(next.aliases, i)
    BY <1>3 DEF AliasIndexAgrees, AliasesBoundElsewhere
  <1>7. InstallRecord(i, next) /\ UNCHANGED <<epoch, minted, local, publishers>>
    BY DEF Tombstone
  <1> QED
    BY <1>3, <1>4, <1>5, <1>6, <1>7 DEF Commit

\* resolve_conflict commits one conflicted record.
LEMMA ResolutionShape ==
  ASSUME TypeOK, AliasIndexAgrees, NEW p, NEW boot, NEW i \in Ids, NEW expected,
         NEW destination \in {"Current", "Retired", "Rejected"},
         ResolveConflict(i, destination, expected)
  PROVE  \E next : Commit(p, boot, i, next)
  <1> DEFINE r == records[i]
             kept == r.evidence.valid /\ destination = "Current"
             next == [r EXCEPT !.lifecycle = destination,
                               !.evidence.valid = @ /\ destination = "Current"]
  <1>1. r \in Record /\ r.lifecycle = "Conflicted"
    BY DEF TypeOK, ResolveConflict
  <1>2. r.evidence \in Evidence /\ r.evidence.valid \in BOOLEAN
    BY <1>1 DEF Record, Evidence
  <1>3. [r.evidence EXCEPT !.valid = kept] \in Evidence
    BY <1>2 DEF Evidence
  <1>4. next \in Record /\ next.lifecycle = destination /\ next.aliases = r.aliases
        /\ next.facts = r.facts /\ next.evidence = [r.evidence EXCEPT !.valid = kept]
    BY <1>1, <1>3 DEF Record, Lifecycles
  <1>5. Kept(r, next) \/ Revoked(r, next)
    <2>1. CASE destination = "Current"
      <3>1. kept = r.evidence.valid
        BY <1>2, <2>1
      <3>2. [r.evidence EXCEPT !.valid = r.evidence.valid] = r.evidence
        BY <1>2 DEF Evidence
      <3> QED
        BY <1>1, <1>4, <3>1, <3>2 DEF Kept
    <2>2. CASE destination # "Current"
      <3>1. kept = FALSE
        BY <2>2
      <3> QED
        BY <1>4, <2>2, <3>1 DEF Revoked
    <2> QED
      BY <2>1, <2>2
  <1>6. LegalStep(r.lifecycle, next.lifecycle)
    BY <1>1, <1>4 DEF LegalStep, Lifecycles, TransitionAllowed, Successors
  <1>7. ~AliasesBoundElsewhere(next.aliases, i)
    BY <1>4 DEF AliasIndexAgrees, AliasesBoundElsewhere
  <1>8. InstallRecord(i, next) /\ UNCHANGED <<epoch, minted, local, publishers>>
    BY DEF ResolveConflict
  <1> QED
    BY <1>1, <1>4, <1>5, <1>6, <1>7, <1>8 DEF Commit

\* A record mutation commits one record under the claim, or supersedes a
\* record by another.
LEMMA MutationShape ==
  ASSUME TypeOK, AliasIndexAgrees, AbsentIsBlank,
         NEW p \in Publishers, NEW boot \in Nat, NEW e, Mutation(p, boot, e)
  PROVE  \/ \E i \in Ids : \E next : Commit(p, boot, i, next)
         \/ \E i, successor \in Ids, expected \in Expectations :
              SupersedeBy(i, successor, expected)
  <1>1. CASE RegisterEntity(p, boot)
    <2>1. PICK i \in Ids, facts \in FactSets, aliases \in AliasSets :
            \/ RegisterConflict(i, facts, aliases)
            \/ \E admission \in Admissions, durable \in EvidenceClasses :
                 \/ \E expected \in Expectations :
                      \/ RegisterUpdate(p, boot, i, facts, aliases, admission, durable, expected)
                      \/ RegisterExisting(p, boot, i, facts, aliases, admission, durable, expected)
                 \/ \E force_new \in BOOLEAN :
                      RegisterCreate(p, boot, i, facts, aliases, admission, durable, force_new)
      BY <1>1 DEF RegisterEntity
    <2>2. CASE RegisterConflict(i, facts, aliases)
      BY <2>2, ConflictShape
    <2>3. ASSUME NEW admission \in Admissions, NEW durable \in EvidenceClasses,
                 NEW expected \in Expectations,
                 \/ RegisterUpdate(p, boot, i, facts, aliases, admission, durable, expected)
                 \/ RegisterExisting(p, boot, i, facts, aliases, admission, durable, expected)
          PROVE  \E j \in Ids : \E next : Commit(p, boot, j, next)
      <3>1. PICK j \in Ids : Known(j) /\ UpdateMatched(p, boot, j, facts, aliases, admission,
                                                        durable, expected)
        BY <2>3, ResolveTyped DEF RegisterUpdate, RegisterExisting
      <3> QED
        BY <3>1, UpdateShape
    <2>4. ASSUME NEW admission \in Admissions, NEW durable \in EvidenceClasses,
                 NEW force_new \in BOOLEAN,
                 RegisterCreate(p, boot, i, facts, aliases, admission, durable, force_new)
          PROVE  \E j \in Ids : \E next : Commit(p, boot, j, next)
      BY <2>4, CreateShape
    <2> QED
      BY <2>1, <2>2, <2>3, <2>4
  <1>2. CASE RenewEvidence(p, boot)
    BY <1>2, EvidenceShape DEF RenewEvidence
  <1>3. CASE ChangeRecord
    <2>1. PICK i \in Ids, expected \in Expectations :
            \/ \E a \in Aliases : AttachAlias(i, a, expected) \/ DetachAlias(i, a, expected)
            \/ SupersedeAlone(i, expected)
            \/ \E successor \in Ids : SupersedeBy(i, successor, expected)
            \/ Retire(i, expected)
            \/ Tombstone(i, expected)
            \/ \E destination \in {"Current", "Retired", "Rejected"} :
                 ResolveConflict(i, destination, expected)
      BY <1>3 DEF ChangeRecord
    <2> QED
      BY <2>1, AliasShape, ClosingShape, TombstoneShape, ResolutionShape
  <1> QED
    BY <1>1, <1>2, <1>3 DEF Mutation
-----------------------------------------------------------------------------
(* The invariant is inductive: one lemma per kind of step *)

\* A commit installs one revision and moves both generations by one.
LEMMA CommitInstalls ==
  ASSUME TypeOK, NEW p, NEW boot, NEW i \in Ids, NEW next, Commit(p, boot, i, next)
  PROVE  /\ records'[i] \in Record
         /\ records'[i].gen = records[i].gen + 1
         /\ records'[i].lifecycle = next.lifecycle
         /\ records'[i].facts = next.facts
         /\ records'[i].aliases = next.aliases
         /\ records'[i].evidence = next.evidence
         /\ \A j \in Ids : j # i => records'[j] = records[j]
         /\ records' \in [Ids -> Record]
         /\ generation' = generation + 1
  <1>1. records[i].gen \in Nat
    BY DEF TypeOK, Record
  <1>2. [next EXCEPT !.gen = records[i].gen + 1] \in Record
    BY <1>1 DEF Commit, Record
  <1>3. records' = [records EXCEPT ![i] = [next EXCEPT !.gen = records[i].gen + 1]]
        /\ generation' = generation + 1
    BY DEF Commit, InstallRecord
  <1> QED
    BY <1>2, <1>3 DEF TypeOK, Record, Commit

\* A commit of one record keeps the invariant: the index follows the aliases of
\* the one record it installs, and fresh evidence comes from a live claim.
LEMMA CommitPreservesIInv ==
  ASSUME IInv, NEW p \in Publishers, NEW boot \in Nat, NEW i \in Ids, NEW next,
         publishers[p].state = "Active", publishers[p].boot = boot,
         Commit(p, boot, i, next)
  PROVE  IInv'
  <1> USE DEF IInv
  <1>0. /\ UNCHANGED <<epoch, minted, local, publishers>>
        /\ alias_index' = IndexApply(alias_index, i, records[i], next)
        /\ generation + 1 <= CounterMax
    BY DEF Commit, InstallRecord, Room
  <1>c. /\ records'[i] \in Record
        /\ records'[i].gen = records[i].gen + 1
        /\ records'[i].lifecycle = next.lifecycle
        /\ records'[i].aliases = next.aliases
        /\ records'[i].evidence = next.evidence
        /\ \A j \in Ids : j # i => records'[j] = records[j]
        /\ records' \in [Ids -> Record]
        /\ generation' = generation + 1
    BY CommitInstalls
  <1>t. epoch \in 1..EpochMax /\ generation \in 0..CounterMax /\ CounterMax \in Nat
    BY RegistryAssumption DEF TypeOK
  <1>1. TypeOK'
    <2>1. alias_index' \in [UniqueAliases -> Ids \cup {NoId}]
      BY <1>0 DEF IndexApply, TypeOK
    <2> QED
      BY <1>0, <1>c, <1>t, <2>1 DEF TypeOK
  <1>2. AliasIndexAgrees'
    <2> SUFFICES ASSUME NEW a \in UniqueAliases, NEW j \in Ids
                 PROVE  alias_index'[a] = j <=> a \in records'[j].aliases
      BY DEF AliasIndexAgrees
    <2>1. alias_index[a] = i <=> a \in records[i].aliases
      BY DEF AliasIndexAgrees
    <2>2. alias_index[a] = j <=> a \in records[j].aliases
      BY DEF AliasIndexAgrees
    <2>3. a \in next.aliases => alias_index[a] \in {NoId, i}
      BY DEF Commit, AliasesBoundElsewhere
    <2>4. alias_index'[a] = IF a \in next.aliases THEN i
                            ELSE IF a \in records[i].aliases /\ alias_index[a] = i THEN NoId
                            ELSE alias_index[a]
      BY <1>0 DEF IndexApply
    <2>5. NoId # j
      BY RegistryAssumption
    <2>6. CASE j = i
      BY <2>1, <2>4, <2>5, <2>6, <1>c
    <2>7. CASE j # i
      <3>1. records'[j].aliases = records[j].aliases
        BY <2>7, <1>c
      <3> QED
        BY <2>1, <2>2, <2>3, <2>4, <2>5, <2>7, <3>1
    <2> QED
      BY <2>6, <2>7
  <1>3. RecordBehindRegistry'
    <2> SUFFICES ASSUME NEW j \in Ids PROVE records'[j].gen <= generation'
      BY DEF RecordBehindRegistry
    <2>1. records[j].gen \in Nat /\ records[i].gen \in Nat /\ generation \in Nat
      BY DEF TypeOK, Record
    <2>2. records[j].gen <= generation /\ records[i].gen <= generation
      BY DEF RecordBehindRegistry
    <2> QED
      BY <2>1, <2>2, <1>c
  <1>4. AbsentIsBlank'
    BY <1>c DEF AbsentIsBlank, Known, Commit
  <1>5. /\ next.evidence.epoch <= epoch
        /\ next.evidence.valid => next.evidence.publisher \in Publishers
        /\ next.evidence.valid /\ ~next.evidence.durable /\ next.evidence.epoch = epoch
             => /\ publishers[next.evidence.publisher].state = "Active"
                /\ publishers[next.evidence.publisher].boot = next.evidence.boot
    <2>1. CASE Signed(p, boot, records[i], next)
      BY <2>1 DEF Signed, FillEvidence, TypeOK
    <2>2. CASE Kept(records[i], next)
      BY <2>2 DEF Kept, EvidenceInPast, ValidEvidenceIsSigned, ValidEvidenceIsBound
    <2>3. CASE Revoked(records[i], next)
      <3>1. next.evidence.epoch = records[i].evidence.epoch /\ next.evidence.valid = FALSE
        BY <2>3 DEF Revoked, TypeOK, Record, Evidence
      <3> QED
        BY <3>1 DEF EvidenceInPast
    <2> QED
      BY <2>1, <2>2, <2>3 DEF Commit
  <1>6. EvidenceInPast'
    BY <1>0, <1>5, <1>c DEF EvidenceInPast
  <1>7. ValidEvidenceIsSigned'
    BY <1>0, <1>5, <1>c DEF ValidEvidenceIsSigned
  <1>8. ActiveIffBound'
    BY <1>0 DEF ActiveIffBound
  <1>9. ValidEvidenceIsBound'
    <2> SUFFICES ASSUME NEW j \in Ids,
                        records'[j].evidence.valid, ~records'[j].evidence.durable,
                        records'[j].evidence.epoch = epoch
                 PROVE  /\ publishers[records'[j].evidence.publisher].state = "Active"
                        /\ publishers[records'[j].evidence.publisher].boot
                             = records'[j].evidence.boot
      BY <1>0 DEF ValidEvidenceIsBound
    <2>1. CASE j = i
      BY <1>5, <2>1, <1>c
    <2>2. CASE j # i
      <3>1. records'[j] = records[j]
        BY <2>2, <1>c
      <3> QED
        BY <3>1 DEF ValidEvidenceIsBound
    <2> QED
      BY <2>1, <2>2
  <1> QED
    BY <1>1, <1>2, <1>3, <1>4, <1>6, <1>7, <1>8, <1>9

\* What the two installs of a supersession leave behind.
LEMMA SupersedeInstalls ==
  ASSUME TypeOK, NEW i \in Ids, NEW successor \in Ids, NEW expected,
         SupersedeBy(i, successor, expected)
  PROVE  LET heir == records[successor].aliases \cup MovedAliases(i, successor) IN
         /\ i # successor
         /\ records' \in [Ids -> Record]
         /\ records'[successor].gen = records[successor].gen + 1
         /\ records'[successor].lifecycle = records[successor].lifecycle
         /\ records'[successor].facts = records[successor].facts
         /\ records'[successor].aliases = heir
         /\ records'[successor].evidence = records[successor].evidence
         /\ records'[i].gen = records[i].gen + 1
         /\ records'[i].lifecycle = "Superseded"
         /\ records'[i].facts = records[i].facts
         /\ records'[i].aliases = records[i].aliases \ heir
         /\ records'[i].evidence = records[i].evidence
         /\ records'[i].superseded_by = successor
         /\ records'[successor].supersedes = i
         /\ \A j \in Ids \ {i, successor} : records'[j] = records[j]
         /\ generation' = generation + 2
         /\ UNCHANGED <<epoch, minted, local, publishers>>
  <1> DEFINE r == records[i]
             s == records[successor]
             moved == MovedAliases(i, successor)
  <1>1. /\ r \in Record /\ s \in Record
        /\ r.gen + 1 \in Nat /\ s.gen + 1 \in Nat
    BY DEF TypeOK, Record
  <1>2. (s.aliases \cup moved) \in SUBSET Aliases
    BY <1>1 DEF MovedAliases, Record
  <1>3. PICK heir, closed :
          /\ heir = [s EXCEPT !.gen = s.gen + 1, !.aliases = s.aliases \cup moved,
                              !.supersedes = i]
          /\ closed = [r EXCEPT !.gen = r.gen + 1, !.lifecycle = "Superseded",
                                !.superseded_by = successor,
                                !.aliases = r.aliases \ heir.aliases]
          /\ i # successor
          /\ records' = [records EXCEPT ![successor] = heir, ![i] = closed]
          /\ generation' = generation + 2
          /\ UNCHANGED <<epoch, minted, local, publishers>>
    BY Zenon DEF SupersedeBy
  <1> HIDE DEF moved
  <1>4. /\ heir \in Record
        /\ heir.gen = s.gen + 1 /\ heir.lifecycle = s.lifecycle /\ heir.facts = s.facts
        /\ heir.aliases = s.aliases \cup moved /\ heir.evidence = s.evidence
        /\ heir.supersedes = i
    <2>1. PICK g \in Nat : g = s.gen + 1
      BY <1>1
    <2>2. PICK A \in SUBSET Aliases : A = s.aliases \cup moved
      BY <1>2
    <2>3. heir = [s EXCEPT !.gen = g, !.aliases = A, !.supersedes = i]
      BY <1>3, <2>1, <2>2
    <2> HIDE DEF s
    <2>4. heir \in Record /\ heir.gen = g /\ heir.lifecycle = s.lifecycle
          /\ heir.facts = s.facts /\ heir.aliases = A /\ heir.evidence = s.evidence
          /\ heir.supersedes = i
      BY <1>1, <2>3 DEF Record
    <2> QED
      BY <2>1, <2>2, <2>4
  <1>5. /\ closed \in Record
        /\ closed.gen = r.gen + 1 /\ closed.lifecycle = "Superseded" /\ closed.facts = r.facts
        /\ closed.aliases = r.aliases \ heir.aliases /\ closed.evidence = r.evidence
        /\ closed.superseded_by = successor
    <2>1. (r.aliases \ heir.aliases) \in SUBSET Aliases
      BY <1>1 DEF Record
    <2>2. PICK g \in Nat : g = r.gen + 1
      BY <1>1
    <2>3. PICK A \in SUBSET Aliases : A = r.aliases \ heir.aliases
      BY <2>1
    <2>4. closed = [r EXCEPT !.gen = g, !.lifecycle = "Superseded",
                             !.superseded_by = successor, !.aliases = A]
      BY <1>3, <2>2, <2>3
    <2> HIDE DEF r
    <2>5. closed \in Record /\ closed.gen = g /\ closed.lifecycle = "Superseded"
          /\ closed.facts = r.facts /\ closed.aliases = A
          /\ closed.evidence = r.evidence /\ closed.superseded_by = successor
      BY <1>1, <2>4 DEF Record, Lifecycles
    <2> QED
      BY <2>2, <2>3, <2>5
  <1>6. records \in [Ids -> Record]
    BY DEF TypeOK
  <1>7. /\ records'[successor] = heir /\ records'[i] = closed
        /\ \A j \in Ids \ {i, successor} : records'[j] = records[j]
        /\ records' \in [Ids -> Record]
    BY <1>3, <1>4, <1>5, <1>6
  <1> QED
    BY <1>3, <1>4, <1>5, <1>7 DEF moved

\* A supersession keeps the invariant: each alias that leaves the old record is
\* bound to the successor or to nobody.
LEMMA SupersedePreservesIInv ==
  ASSUME IInv, NEW i \in Ids, NEW successor \in Ids, NEW expected,
         SupersedeBy(i, successor, expected)
  PROVE  IInv'
  <1> USE DEF IInv
  <1> DEFINE s == successor
             heir == records[s].aliases \cup MovedAliases(i, s)
             left == records[i].aliases \ heir
  <1>c. /\ i # s
        /\ records' \in [Ids -> Record]
        /\ records'[s].gen = records[s].gen + 1
        /\ records'[s].lifecycle = records[s].lifecycle
        /\ records'[s].aliases = heir
        /\ records'[s].evidence = records[s].evidence
        /\ records'[i].gen = records[i].gen + 1
        /\ records'[i].lifecycle = "Superseded"
        /\ records'[i].aliases = left
        /\ records'[i].evidence = records[i].evidence
        /\ \A j \in Ids \ {i, s} : records'[j] = records[j]
        /\ generation' = generation + 2
        /\ UNCHANGED <<epoch, minted, local, publishers>>
    BY SupersedeInstalls
  <1>0. /\ generation + 2 <= CounterMax
        /\ Known(s)
        /\ \A a \in UniqueAliases :
             LET handed_over == IF a \in heir THEN s
                                ELSE IF a \in records[s].aliases /\ alias_index[a] = s
                                     THEN NoId ELSE alias_index[a]
             IN  alias_index'[a] = IF a \in left THEN i
                                   ELSE IF a \in records[i].aliases /\ handed_over = i THEN NoId
                                   ELSE handed_over
    <2>1. records[s] \in Record /\ records[i] \in Record
      BY DEF TypeOK
    <2> DEFINE heir_record == [records[s] EXCEPT !.gen = @ + 1,
                                 !.aliases = @ \cup MovedAliases(i, s), !.supersedes = i]
               closed_record == [records[i] EXCEPT !.gen = @ + 1, !.lifecycle = "Superseded",
                                   !.superseded_by = s, !.aliases = @ \ heir_record.aliases]
    <2>2. heir_record.aliases = heir
      BY <2>1 DEF Record
    <2>3. closed_record.aliases = left
      BY <2>1, <2>2 DEF Record
    <2>4. alias_index' = IndexApply(IndexApply(alias_index, s, records[s], heir_record),
                                    i, records[i], closed_record)
      BY DEF SupersedeBy
    <2>5. generation + 2 <= CounterMax /\ Known(s)
      BY DEF SupersedeBy, Room
    <2> HIDE DEF heir_record, closed_record, heir, left
    <2> QED
      BY <2>2, <2>3, <2>4, <2>5 DEF IndexApply
  <1>t. /\ epoch \in 1..EpochMax /\ generation \in 0..CounterMax /\ CounterMax \in Nat
        /\ \A j \in Ids : records[j].gen \in Nat
    BY RegistryAssumption DEF TypeOK, Record
  <1>a. heir \subseteq records[s].aliases \cup records[i].aliases
    BY DEF MovedAliases
  <1> HIDE DEF heir, left
  <1>1. TypeOK'
    <2>1. alias_index' \in [UniqueAliases -> Ids \cup {NoId}]
      <3>1. alias_index' = [a \in UniqueAliases |-> alias_index'[a]]
        BY DEF SupersedeBy, IndexApply
      <3>2. \A a \in UniqueAliases : alias_index[a] \in Ids \cup {NoId}
        BY DEF TypeOK
      <3>3. \A a \in UniqueAliases : alias_index'[a] \in Ids \cup {NoId}
        BY <1>0, <3>2
      <3> QED
        BY <3>1, <3>3
    <2> QED
      BY <1>0, <1>c, <1>t, <2>1 DEF TypeOK
  <1>2. AliasIndexAgrees'
    <2> SUFFICES ASSUME NEW a \in UniqueAliases, NEW j \in Ids
                 PROVE  alias_index'[a] = j <=> a \in records'[j].aliases
      BY DEF AliasIndexAgrees
    <2>1. /\ alias_index[a] = i <=> a \in records[i].aliases
          /\ alias_index[a] = s <=> a \in records[s].aliases
          /\ alias_index[a] = j <=> a \in records[j].aliases
      BY DEF AliasIndexAgrees
    <2>2. NoId # j /\ NoId # i /\ NoId # s
      BY RegistryAssumption
    <2>3. a \in records[i].aliases => a \in heir
      BY <2>1 DEF heir, MovedAliases
    <2>4. a \notin left
      BY <2>3 DEF left
    <2>5. CASE j = i
      BY <1>0, <1>c, <2>1, <2>2, <2>3, <2>4, <2>5
    <2>6. CASE j = s
      BY <1>0, <1>c, <1>a, <2>1, <2>2, <2>3, <2>4, <2>6
    <2>7. CASE j \notin {i, s}
      <3>1. records'[j] = records[j]
        BY <1>c, <2>7
      <3> QED
        BY <1>0, <1>c, <1>a, <2>1, <2>2, <2>3, <2>4, <2>7, <3>1
    <2> QED
      BY <2>5, <2>6, <2>7
  <1>3. RecordBehindRegistry'
    <2> SUFFICES ASSUME NEW j \in Ids PROVE records'[j].gen <= generation + 2
      BY <1>c DEF RecordBehindRegistry
    <2>1. records'[j].gen = records[j].gen + 1 \/ records'[j].gen = records[j].gen
      BY <1>c
    <2>2. records[j].gen <= generation
      BY DEF RecordBehindRegistry
    <2> QED
      BY <1>t, <2>1, <2>2
  <1>4. AbsentIsBlank'
    <2>1. \A j \in Ids \ {i, s} : records'[j] = records[j]
      BY <1>c
    <2>2. records'[i].lifecycle # "Absent" /\ records'[s].lifecycle # "Absent"
      BY <1>0, <1>c DEF Known
    <2> QED
      BY <2>1, <2>2 DEF AbsentIsBlank, Known
  <1>5. \A j \in Ids : records'[j].evidence = records[j].evidence
    BY <1>c
  <1>6. EvidenceInPast' /\ ValidEvidenceIsSigned' /\ ActiveIffBound' /\ ValidEvidenceIsBound'
    BY <1>5, <1>c DEF EvidenceInPast, ValidEvidenceIsSigned, ActiveIffBound, ValidEvidenceIsBound
  <1> QED
    BY <1>1, <1>2, <1>3, <1>4, <1>6

\* Remembering a fenced incarnation yields a list of incarnations.
LEMMA RememberTyped ==
  ASSUME NEW fenced \in Seq(Nat), NEW boot \in Nat
  PROVE  Remember(fenced, boot) \in Seq(Nat)
  <1> DEFINE longer == Append(fenced, boot)
             drop == IF Len(longer) > MaxFencedBoots THEN Len(longer) - MaxFencedBoots ELSE 0
  <1>1. longer \in Seq(Nat) /\ Len(longer) \in Nat
    BY AppendProperties, LenProperties
  <1>2. MaxFencedBoots \in Nat
    BY RegistryAssumption
  <1>3. drop \in Nat /\ drop + 1 \in Int /\ Len(longer) \in Int /\ drop + 1 >= 1
    BY <1>1, <1>2
  <1>4. \A k \in (drop + 1)..Len(longer) : longer[k] \in Nat
    BY <1>1, <1>3, ElementOfSeq
  <1> HIDE DEF longer, drop
  <1>5. SubSeq(longer, drop + 1, Len(longer)) \in Seq(Nat)
    BY <1>3, <1>4, SubSeqProperties
  <1> QED
    BY <1>5 DEF Remember, longer, drop

\* Fencing, attaching and recovering a publisher yield publisher records.
LEMMA PublisherTyped ==
  ASSUME NEW pub \in Publisher, NEW boot \in Nat
  PROVE  /\ FencedRecord(pub) \in Publisher
         /\ ActiveRecord(pub, boot) \in Publisher
         /\ RecoveredPublisher(pub) \in Publisher
         /\ ActiveRecord(NoPublisherRecord, boot) \in Publisher
  <1>1. pub.fenced \in Seq(Nat) /\ pub.boot \in Nat
    BY DEF Publisher
  <1>2. Remember(pub.fenced, pub.boot) \in Seq(Nat)
    BY <1>1, RememberTyped
  <1>3. Append(pub.fenced, pub.boot) \in Seq(Nat)
    BY <1>1, AppendProperties
  <1>4. <<>> \in Seq(Nat) /\ NoBoot \in Nat
    BY EmptySeq DEF NoBoot
  <1>5. Remember(NoPublisherRecord.fenced, NoPublisherRecord.boot) \in Seq(Nat)
    BY <1>4, RememberTyped DEF NoPublisherRecord
  <1>6. FencedRecord(pub) \in Publisher
    BY <1>2, <1>4 DEF FencedRecord, Publisher
  <1>7. ActiveRecord(pub, boot) \in Publisher
    BY <1>2 DEF ActiveRecord, Publisher
  <1>8. RecoveredPublisher(pub) \in Publisher
    BY <1>1, <1>3, <1>4 DEF RecoveredPublisher, Publisher
  <1>9. ActiveRecord(NoPublisherRecord, boot) \in Publisher
    BY <1>5 DEF ActiveRecord, Publisher
  <1> QED
    BY <1>6, <1>7, <1>8, <1>9

\* A demotion touches the lapsing records only, and only their generation,
\* their validity and their authority.
LEMMA DemoteEffect ==
  ASSUME TypeOK, NEW S, Demote(S)
  PROVE  /\ records' \in [Ids -> Record]
         /\ \A i \in Ids :
              /\ i \notin S => records'[i] = records[i]
              /\ i \in S =>
                   /\ records'[i].gen = records[i].gen + 1
                   /\ records'[i].lifecycle = IF IsCurrent(i) THEN "RevalidationRequired"
                                              ELSE records[i].lifecycle
                   /\ records'[i].facts = records[i].facts
                   /\ records'[i].aliases = records[i].aliases
                   /\ records'[i].evidence = [records[i].evidence EXCEPT !.valid = FALSE]
  <1>1. records' = [i \in Ids |-> IF i \in S THEN Demoted(records[i]) ELSE records[i]]
    BY DEF Demote
  <1>2. ASSUME NEW i \in Ids
        PROVE  LET r == records[i]
                   n == Demoted(r) IN
               /\ n \in Record /\ n.gen = r.gen + 1
               /\ n.lifecycle = IF r.lifecycle = "Current" THEN "RevalidationRequired"
                                ELSE r.lifecycle
               /\ n.facts = r.facts /\ n.aliases = r.aliases
               /\ n.evidence = [r.evidence EXCEPT !.valid = FALSE]
    <2> DEFINE r == records[i]
    <2>1. r \in Record /\ r.gen + 1 \in Nat /\ r.evidence \in Evidence
      BY DEF TypeOK, Record
    <2>2. [r.evidence EXCEPT !.valid = FALSE] \in Evidence
      BY <2>1 DEF Evidence
    <2> HIDE DEF r
    <2>3. LET n == Demoted(r) IN
          /\ n \in Record /\ n.gen = r.gen + 1
          /\ n.lifecycle = IF r.lifecycle = "Current" THEN "RevalidationRequired" ELSE r.lifecycle
          /\ n.facts = r.facts /\ n.aliases = r.aliases
          /\ n.evidence = [r.evidence EXCEPT !.valid = FALSE]
      BY <2>1, <2>2 DEF Demoted, Record, Lifecycles
    <2> QED
      BY <2>3 DEF r
  <1>3. \A i \in Ids : records[i] \in Record
    BY DEF TypeOK
  <1> QED
    BY <1>1, <1>2, <1>3 DEF IsCurrent

\* Sets of identities and of publishers are finite.
LEMMA FiniteTables ==
  ASSUME NEW S \in SUBSET Ids
  PROVE  /\ IsFiniteSet(S) /\ Cardinality(S) \in Nat
         /\ S # {} => Cardinality(S) >= 1
         /\ Cardinality(KnownPublishers) \in Nat /\ Cardinality(KnownIds) \in Nat
  <1>1. IsFiniteSet(Ids) /\ IsFiniteSet(Publishers)
    BY RegistryAssumption
  <1>2. IsFiniteSet(S) /\ Cardinality(S) \in Nat
    BY <1>1, FS_Subset, FS_CardinalityType
  <1>3. KnownPublishers \in SUBSET Publishers /\ KnownIds \in SUBSET Ids
    BY DEF KnownPublishers, KnownIds
  <1>4. IsFiniteSet(KnownPublishers) /\ IsFiniteSet(KnownIds)
    BY <1>1, <1>3, FS_Subset
  <1>5. Cardinality(KnownPublishers) \in Nat /\ Cardinality(KnownIds) \in Nat
    BY <1>4, FS_CardinalityType
  <1>6. S # {} => Cardinality(S) >= 1
    BY <1>2, FS_EmptySet
  <1> QED
    BY <1>2, <1>5, <1>6

\* The common shape of attaching, fencing and advancing the epoch: publishers
\* change, and every record resting on an incarnation some publisher loses is
\* demoted, or the epoch moves on.  Such a step preserves the invariant.
LEMMA DemotionPreservesIInv ==
  ASSUME IInv, NEW S \in SUBSET Ids, Demote(S), NEW n \in Nat,
         generation' = generation + n + Cardinality(S), generation' <= CounterMax,
         epoch' \in epoch..EpochMax,
         minted' \in 0..BootMax, local' = local, alias_index' = alias_index,
         publishers' \in [Publishers -> Publisher],
         ActiveIffBound',
         epoch' = epoch =>
           \A p \in Publishers :
             \/ Lapsing(p) \subseteq S
             \/ /\ publishers'[p].state = publishers[p].state
                /\ publishers'[p].boot = publishers[p].boot
  PROVE  IInv'
  <1> USE DEF IInv
  <1>c. /\ records' \in [Ids -> Record]
        /\ \A i \in Ids :
             /\ i \notin S => records'[i] = records[i]
             /\ i \in S =>
                  /\ records'[i].gen = records[i].gen + 1
                  /\ records'[i].lifecycle = IF IsCurrent(i) THEN "RevalidationRequired"
                                             ELSE records[i].lifecycle
                  /\ records'[i].aliases = records[i].aliases
                  /\ records'[i].evidence = [records[i].evidence EXCEPT !.valid = FALSE]
    BY DemoteEffect
  <1>t. /\ epoch \in 1..EpochMax /\ generation \in 0..CounterMax
        /\ CounterMax \in Nat /\ EpochMax \in Nat
        /\ \A i \in Ids : records[i] \in Record
    BY RegistryAssumption DEF TypeOK
  <1>n. Cardinality(S) \in Nat /\ (S # {} => Cardinality(S) >= 1)
    BY FiniteTables
  <1>1. TypeOK'
    <2>1. generation' \in 0..CounterMax
      BY <1>t, <1>n
    <2>2. epoch' \in 1..EpochMax
      BY <1>t
    <2> QED
      BY <1>c, <2>1, <2>2 DEF TypeOK
  <1>2. \A i \in Ids : records'[i].aliases = records[i].aliases
    BY <1>c
  <1>3. AliasIndexAgrees'
    BY <1>2 DEF AliasIndexAgrees
  <1>4. RecordBehindRegistry'
    <2> SUFFICES ASSUME NEW i \in Ids PROVE records'[i].gen <= generation'
      BY DEF RecordBehindRegistry
    <2>1. records[i].gen <= generation /\ records[i].gen \in Nat /\ generation \in Nat
      BY <1>t DEF RecordBehindRegistry, Record
    <2>2. records'[i].gen <= records[i].gen + Cardinality(S)
      <3>1. CASE i \in S
        <4>1. Cardinality(S) >= 1 /\ records'[i].gen = records[i].gen + 1
          BY <1>c, <1>n, <3>1
        <4> QED
          BY <1>n, <2>1, <4>1
      <3>2. CASE i \notin S
        <4>1. records'[i].gen = records[i].gen
          BY <1>c, <3>2
        <4> QED
          BY <1>n, <2>1, <4>1
      <3> QED
        BY <3>1, <3>2
    <2>3. records'[i].gen \in Nat
      BY <1>c DEF Record
    <2> QED
      BY <1>n, <2>1, <2>2, <2>3
  <1>5. \A i \in Ids : /\ i \notin S => records'[i].evidence = records[i].evidence
                       /\ i \in S => /\ records'[i].evidence.valid = FALSE
                                     /\ records'[i].evidence.epoch = records[i].evidence.epoch
    BY <1>c, <1>t DEF Record, Evidence
  <1>6. AbsentIsBlank'
    <2>1. \A i \in Ids : Known(i) => records'[i].lifecycle # "Absent"
      BY <1>c DEF Known
    <2> QED
      BY <1>2, <1>5, <2>1 DEF AbsentIsBlank, Known
  <1>7. EvidenceInPast'
    <2> SUFFICES ASSUME NEW i \in Ids PROVE records'[i].evidence.epoch <= epoch'
      BY DEF EvidenceInPast
    <2>1. records'[i].evidence.epoch = records[i].evidence.epoch
      BY <1>5
    <2>2. records[i].evidence.epoch <= epoch /\ records[i].evidence.epoch \in Nat
      BY <1>t DEF EvidenceInPast, Record, Evidence
    <2> QED
      BY <1>t, <2>1, <2>2
  <1>8. ValidEvidenceIsSigned'
    BY <1>5 DEF ValidEvidenceIsSigned
  <1>9. ValidEvidenceIsBound'
    <2> SUFFICES ASSUME NEW i \in Ids, records'[i].evidence.valid,
                        ~records'[i].evidence.durable, records'[i].evidence.epoch = epoch'
                 PROVE  /\ publishers'[records'[i].evidence.publisher].state = "Active"
                        /\ publishers'[records'[i].evidence.publisher].boot
                             = records'[i].evidence.boot
      BY DEF ValidEvidenceIsBound
    <2> DEFINE ev == records[i].evidence
    <2>1. i \notin S /\ records'[i].evidence = ev
      BY <1>5
    <2>2. ev.epoch \in Nat /\ ev.epoch <= epoch
      BY <1>t DEF EvidenceInPast, Record, Evidence
    <2>3. epoch' = epoch
      BY <1>t, <2>1, <2>2
    <2>4. ev.publisher \in Publishers
      BY <2>1 DEF ValidEvidenceIsSigned
    <2>5. publishers[ev.publisher].state = "Active" /\ publishers[ev.publisher].boot = ev.boot
      BY <2>1, <2>3 DEF ValidEvidenceIsBound
    <2>6. i \in Lapsing(ev.publisher)
      BY <2>1, <2>4, <2>5 DEF Lapsing, ActiveIffBound
    <2> QED
      BY <2>1, <2>3, <2>4, <2>5, <2>6
  <1> QED
    BY <1>1, <1>3, <1>4, <1>6, <1>7, <1>8, <1>9

\* Attaching a publisher keeps the invariant: the incarnation it replaces leaves
\* no record with valid process-bound evidence.
LEMMA AttachPreservesIInv ==
  ASSUME IInv, NEW p \in Publishers, AttachPublisher(p)
  PROVE  IInv'
  <1> USE DEF IInv
  <1> DEFINE S == Lapsing(p)
             bound == ActiveRecord(publishers[p], minted + 1)
  <1>1. S \in SUBSET Ids
    BY DEF Lapsing
  <1>2. /\ Demote(S) /\ generation' = generation + 1 + Cardinality(S)
        /\ generation + (1 + Cardinality(S)) <= CounterMax
        /\ publishers' = [publishers EXCEPT ![p] = bound]
        /\ minted < BootMax /\ minted' = minted + 1
        /\ UNCHANGED <<epoch, local, alias_index>>
    BY DEF AttachPublisher, Room
  <1>3. Cardinality(S) \in Nat
    BY <1>1, FiniteTables
  <1>t. /\ generation \in 0..CounterMax /\ minted \in 0..BootMax /\ epoch \in 1..EpochMax
        /\ CounterMax \in Nat /\ BootMax \in Nat /\ EpochMax \in Nat
        /\ publishers \in [Publishers -> Publisher]
    BY RegistryAssumption DEF TypeOK
  <1>4. bound \in Publisher /\ bound.state = "Active" /\ bound.boot # NoBoot
    <2>1. publishers[p] \in Publisher /\ minted + 1 \in Nat /\ minted + 1 # 0
      BY <1>t
    <2>2. bound \in Publisher
      BY <2>1, PublisherTyped
    <2> QED
      BY <2>1, <2>2 DEF ActiveRecord, NoBoot
  <1> HIDE DEF S, bound
  <1>5. publishers' \in [Publishers -> Publisher] /\ publishers'[p] = bound
        /\ \A q \in Publishers \ {p} : publishers'[q] = publishers[q]
    BY <1>2, <1>4, <1>t
  <1>6. ActiveIffBound'
    BY <1>4, <1>5 DEF ActiveIffBound
  <1>7. minted' \in 0..BootMax /\ epoch' \in epoch..EpochMax /\ generation' <= CounterMax
    BY <1>2, <1>3, <1>t
  <1>8. \A q \in Publishers :
          \/ Lapsing(q) \subseteq S
          \/ publishers'[q].state = publishers[q].state /\ publishers'[q].boot = publishers[q].boot
    BY <1>5 DEF S
  <1> QED
    BY <1>1, <1>2, <1>5, <1>6, <1>7, <1>8, DemotionPreservesIInv

\* Fencing a publisher keeps the invariant, by the same demotion.
LEMMA FencePreservesIInv ==
  ASSUME IInv, NEW p \in Publishers, FencePublisher(p)
  PROVE  IInv'
  <1> USE DEF IInv
  <1> DEFINE S == Lapsing(p)
             fenced == FencedRecord(publishers[p])
  <1>1. S \in SUBSET Ids
    BY DEF Lapsing
  <1>2. /\ Demote(S) /\ generation' = generation + 1 + Cardinality(S)
        /\ generation + (1 + Cardinality(S)) <= CounterMax
        /\ publishers' = [publishers EXCEPT ![p] = fenced]
        /\ UNCHANGED <<epoch, minted, local, alias_index>>
    BY DEF FencePublisher, Room
  <1>3. Cardinality(S) \in Nat
    BY <1>1, FiniteTables
  <1>t. /\ generation \in 0..CounterMax /\ minted \in 0..BootMax /\ epoch \in 1..EpochMax
        /\ CounterMax \in Nat /\ EpochMax \in Nat
        /\ publishers \in [Publishers -> Publisher]
    BY RegistryAssumption DEF TypeOK
  <1>4. fenced \in Publisher /\ fenced.state = "Fenced" /\ fenced.boot = NoBoot
    <2>1. publishers[p] \in Publisher /\ 0 \in Nat
      BY <1>t
    <2>2. fenced \in Publisher
      BY <2>1, PublisherTyped
    <2> QED
      BY <2>2 DEF FencedRecord
  <1> HIDE DEF S, fenced
  <1>5. publishers' \in [Publishers -> Publisher] /\ publishers'[p] = fenced
        /\ \A q \in Publishers \ {p} : publishers'[q] = publishers[q]
    BY <1>2, <1>4, <1>t
  <1>6. ActiveIffBound'
    BY <1>4, <1>5 DEF ActiveIffBound
  <1>7. minted' \in 0..BootMax /\ epoch' \in epoch..EpochMax /\ generation' <= CounterMax
    BY <1>2, <1>3, <1>t
  <1>8. \A q \in Publishers :
          \/ Lapsing(q) \subseteq S
          \/ publishers'[q].state = publishers[q].state /\ publishers'[q].boot = publishers[q].boot
    BY <1>5 DEF S
  <1> QED
    BY <1>1, <1>2, <1>5, <1>6, <1>7, <1>8, DemotionPreservesIInv

\* Advancing the epoch keeps the invariant: evidence of the old epoch is no longer
\* evidence of this one.
LEMMA AdvancePreservesIInv ==
  ASSUME IInv, AdvanceEpoch
  PROVE  IInv'
  <1> USE DEF IInv
  <1> DEFINE S == UNION {Lapsing(p) : p \in KnownPublishers}
             rebound == IF CreateLocal THEN 1 ELSE 0
             k == Cardinality(KnownPublishers)
             n == k + rebound
             after(p) == IF p \notin KnownPublishers THEN publishers[p]
                         ELSE IF CreateLocal /\ p = local
                              THEN ActiveRecord(FencedRecord(publishers[p]), minted + 1)
                              ELSE FencedRecord(publishers[p])
  <1>1. S \in SUBSET Ids
    BY DEF Lapsing
  <1>2. /\ Demote(S)
        /\ generation' = generation + (k + Cardinality(S) + rebound)
        /\ generation + (k + Cardinality(S) + rebound) <= CounterMax
        /\ publishers' = [p \in Publishers |-> after(p)]
        /\ epoch < EpochMax /\ epoch' = epoch + 1
        /\ minted + rebound <= BootMax /\ minted' = minted + rebound
        /\ UNCHANGED <<local, alias_index>>
    BY DEF AdvanceEpoch, Room
  <1>3. Cardinality(S) \in Nat /\ k \in Nat
    BY <1>1, FiniteTables
  <1>4. rebound \in Nat
    OBVIOUS
  <1>t. /\ generation \in 0..CounterMax /\ minted \in 0..BootMax /\ epoch \in 1..EpochMax
        /\ CounterMax \in Nat /\ BootMax \in Nat /\ EpochMax \in Nat
        /\ \A p \in Publishers : publishers[p] \in Publisher
    BY RegistryAssumption DEF TypeOK
  <1>5. ASSUME NEW p \in Publishers
        PROVE  /\ after(p) \in Publisher
               /\ after(p).state = "Active" <=> after(p).boot # NoBoot
    <2>1. minted + 1 \in Nat /\ minted + 1 # NoBoot
      BY <1>t DEF NoBoot
    <2>2. FencedRecord(publishers[p]) \in Publisher
      BY <1>t, <2>1, PublisherTyped
    <2>3. ActiveRecord(FencedRecord(publishers[p]), minted + 1) \in Publisher
      BY <2>1, <2>2, PublisherTyped
    <2>4. after(p) \in Publisher
      BY <1>t, <2>2, <2>3
    <2>5. FencedRecord(publishers[p]).state = "Fenced"
          /\ FencedRecord(publishers[p]).boot = NoBoot
      BY DEF FencedRecord
    <2>6. ActiveRecord(FencedRecord(publishers[p]), minted + 1).state = "Active"
          /\ ActiveRecord(FencedRecord(publishers[p]), minted + 1).boot = minted + 1
      BY DEF ActiveRecord
    <2>7. publishers[p].state = "Active" <=> publishers[p].boot # NoBoot
      BY DEF ActiveIffBound
    <2> QED
      BY <2>1, <2>4, <2>5, <2>6, <2>7
  <1> HIDE DEF S, rebound, k, after
  <1>6. publishers' \in [Publishers -> Publisher] /\ ActiveIffBound'
    BY <1>2, <1>5 DEF ActiveIffBound
  <1>7. n \in Nat /\ generation' = generation + n + Cardinality(S) /\ generation' <= CounterMax
    BY <1>2, <1>3, <1>4, <1>t
  <1>8. minted' \in 0..BootMax /\ epoch' \in epoch..EpochMax /\ epoch' # epoch
    BY <1>2, <1>4, <1>t
  <1> HIDE DEF n
  <1> QED
    BY <1>1, <1>2, <1>6, <1>7, <1>8, DemotionPreservesIInv

\* A restart keeps the invariant: the index rebuilt from the records is the one
\* they imply, and the generation resumes above every record generation.
LEMMA RestartPreservesIInv ==
  ASSUME IInv, NEW q \in Publishers \cup {NoPublisher}, Restart(q)
  PROVE  IInv'
  <1> USE DEF IInv
  <1> DEFINE rebound == IF CreateLocal THEN 1 ELSE 0
             installs == Cardinality(KnownPublishers) + Cardinality(KnownIds)
             base == RecoveredGeneration(rebound)
             after(p) == IF p = q THEN ActiveRecord(NoPublisherRecord, minted + 1)
                         ELSE IF p \in KnownPublishers THEN RecoveredPublisher(publishers[p])
                         ELSE publishers[p]
  <1>1. /\ epoch < EpochMax /\ epoch' = epoch + 1
        /\ minted + rebound <= BootMax /\ minted' = minted + rebound
        /\ base + installs <= CounterMax /\ generation' = base + installs
        /\ local' = q
        /\ publishers' = [p \in Publishers |-> after(p)]
        /\ records' = [i \in Ids |-> RecoveredRecord(records[i])]
        /\ alias_index' = [a \in UniqueAliases |->
                             IF \E i \in Ids : a \in records[i].aliases
                             THEN CHOOSE i \in Ids : a \in records[i].aliases ELSE NoId]
    BY DEF Restart
  <1>t. /\ generation \in 0..CounterMax /\ minted \in 0..BootMax /\ epoch \in 1..EpochMax
        /\ CounterMax \in Nat /\ BootMax \in Nat /\ EpochMax \in Nat
        /\ \A p \in Publishers : publishers[p] \in Publisher
        /\ \A i \in Ids : records[i] \in Record
    BY RegistryAssumption DEF TypeOK
  <1>2. rebound \in Nat /\ installs \in Nat
    <2>1. Cardinality(KnownPublishers) \in Nat /\ Cardinality(KnownIds) \in Nat
      BY FiniteTables
    <2> QED
      BY <2>1
  <1>3. base \in Nat /\ generation <= base
    BY <1>2, <1>t DEF RecoveredGeneration
  <1>4. ASSUME NEW p \in Publishers
        PROVE  /\ after(p) \in Publisher
               /\ after(p).state = "Active" <=> after(p).boot # NoBoot
    <2>1. minted + 1 \in Nat /\ minted + 1 # NoBoot
      BY <1>t DEF NoBoot
    <2>2. /\ RecoveredPublisher(publishers[p]) \in Publisher
          /\ ActiveRecord(NoPublisherRecord, minted + 1) \in Publisher
      BY <1>t, <2>1, PublisherTyped
    <2>3. after(p) \in Publisher
      BY <1>t, <2>2
    <2>4. /\ RecoveredPublisher(publishers[p]).state = "Fenced"
          /\ RecoveredPublisher(publishers[p]).boot = NoBoot
      BY DEF RecoveredPublisher
    <2>5. /\ ActiveRecord(NoPublisherRecord, minted + 1).state = "Active"
          /\ ActiveRecord(NoPublisherRecord, minted + 1).boot = minted + 1
      BY DEF ActiveRecord
    <2>6. publishers[p].state = "Active" <=> publishers[p].boot # NoBoot
      BY DEF ActiveIffBound
    <2> QED
      BY <2>1, <2>3, <2>4, <2>5, <2>6
  <1>5. ASSUME NEW i \in Ids
        PROVE  LET n == RecoveredRecord(records[i]) IN
               /\ n \in Record /\ n.gen = records[i].gen /\ n.aliases = records[i].aliases
               /\ n.lifecycle = "Absent" <=> records[i].lifecycle = "Absent"
               /\ n.evidence.epoch = records[i].evidence.epoch
               /\ n.evidence.publisher = records[i].evidence.publisher
               /\ n.evidence.valid => records[i].evidence.valid
    <2>1. PICK r \in Record : r = records[i]
      BY <1>t
    <2>2. r.evidence \in Evidence
      BY DEF Record
    <2>3. [r.evidence EXCEPT !.valid = FALSE] \in Evidence
      BY <2>2 DEF Evidence
    <2>4. CASE r.lifecycle = "Current" /\ ~r.evidence.durable
      <3>1. RecoveredRecord(r) =
              [r EXCEPT !.lifecycle = "RevalidationRequired", !.evidence.valid = FALSE]
        BY <2>4 DEF RecoveredRecord
      <3>2. /\ RecoveredRecord(r) \in Record
            /\ RecoveredRecord(r).gen = r.gen
            /\ RecoveredRecord(r).aliases = r.aliases
            /\ RecoveredRecord(r).lifecycle = "RevalidationRequired"
            /\ RecoveredRecord(r).evidence = [r.evidence EXCEPT !.valid = FALSE]
        BY <2>3, <3>1 DEF Record, Lifecycles
      <3>3. [r.evidence EXCEPT !.valid = FALSE].epoch = r.evidence.epoch
            /\ [r.evidence EXCEPT !.valid = FALSE].publisher = r.evidence.publisher
            /\ [r.evidence EXCEPT !.valid = FALSE].valid = FALSE
        BY <2>2 DEF Evidence
      <3> QED
        BY <2>1, <2>4, <3>2, <3>3
    <2>5. CASE ~(r.lifecycle = "Current" /\ ~r.evidence.durable)
      BY <2>1, <2>5 DEF RecoveredRecord
    <2> QED
      BY <2>4, <2>5
  <1> HIDE DEF rebound, installs, base, after
  <1>6. /\ records' \in [Ids -> Record]
        /\ \A i \in Ids : /\ records'[i].gen = records[i].gen
                          /\ records'[i].aliases = records[i].aliases
                          /\ records'[i].lifecycle = "Absent" <=> records[i].lifecycle = "Absent"
                          /\ records'[i].evidence.epoch = records[i].evidence.epoch
                          /\ records'[i].evidence.publisher = records[i].evidence.publisher
                          /\ records'[i].evidence.valid => records[i].evidence.valid
    BY <1>1, <1>5
  <1>7. generation' \in 0..CounterMax /\ generation <= generation'
    BY <1>1, <1>2, <1>3, <1>t
  <1>8. ASSUME NEW a \in UniqueAliases, NEW j \in Ids
        PROVE  /\ alias_index'[a] \in Ids \cup {NoId}
               /\ alias_index'[a] = j <=> a \in records[j].aliases
    <2>1. \A i \in Ids : alias_index[a] = i <=> a \in records[i].aliases
      BY DEF AliasIndexAgrees
    <2>2. NoId \notin Ids
      BY RegistryAssumption
    <2>3. CASE \E i \in Ids : a \in records[i].aliases
      <3>1. alias_index'[a] = CHOOSE i \in Ids : a \in records[i].aliases
        BY <1>1, <2>3
      <3>2. alias_index'[a] \in Ids /\ a \in records[alias_index'[a]].aliases
        BY <2>3, <3>1
      <3> QED
        BY <2>1, <3>2
    <2>4. CASE ~\E i \in Ids : a \in records[i].aliases
      BY <1>1, <2>2, <2>4
    <2> QED
      BY <2>3, <2>4
  <1>9. TypeOK'
    <2>1. epoch' \in 1..EpochMax /\ minted' \in 0..BootMax
      BY <1>1, <1>2, <1>t
    <2>2. publishers' \in [Publishers -> Publisher]
      BY <1>1, <1>4
    <2>3. alias_index' \in [UniqueAliases -> Ids \cup {NoId}]
      <3>1. CASE Ids = {}
        BY <1>1, <3>1
      <3>2. CASE Ids # {}
        BY <1>1, <1>8, <3>2
      <3> QED
        BY <3>1, <3>2
    <2> QED
      BY <1>1, <1>6, <1>7, <2>1, <2>2, <2>3 DEF TypeOK
  <1>10. AliasIndexAgrees'
    BY <1>6, <1>8 DEF AliasIndexAgrees
  <1>11. RecordBehindRegistry'
    <2> SUFFICES ASSUME NEW i \in Ids PROVE records'[i].gen <= generation'
      BY DEF RecordBehindRegistry
    <2>1. records'[i].gen = records[i].gen /\ records[i].gen <= generation
      BY <1>6 DEF RecordBehindRegistry
    <2>2. records[i].gen \in Nat
      BY <1>t DEF Record
    <2> QED
      BY <1>7, <1>t, <2>1, <2>2
  <1>12. AbsentIsBlank'
    BY <1>6 DEF AbsentIsBlank, Known
  <1>13. \A i \in Ids : records'[i].evidence.epoch < epoch'
    <2> SUFFICES ASSUME NEW i \in Ids PROVE records'[i].evidence.epoch < epoch'
      OBVIOUS
    <2>1. records[i].evidence.epoch \in Nat /\ records[i].evidence.epoch <= epoch
      BY <1>t DEF EvidenceInPast, Record, Evidence
    <2> QED
      BY <1>1, <1>6, <1>t, <2>1
  <1>14. \A i \in Ids : records'[i].evidence.epoch \in Nat
    BY <1>6 DEF Record, Evidence
  <1>15. EvidenceInPast' /\ ValidEvidenceIsBound'
    BY <1>1, <1>13, <1>14, <1>t DEF EvidenceInPast, ValidEvidenceIsBound
  <1>16. ValidEvidenceIsSigned'
    BY <1>6 DEF ValidEvidenceIsSigned
  <1>17. ActiveIffBound'
    BY <1>1, <1>4 DEF ActiveIffBound
  <1> QED
    BY <1>9, <1>10, <1>11, <1>12, <1>15, <1>16, <1>17
-----------------------------------------------------------------------------
(* The invariant *)

\* The registry starts empty, but for its embedded publisher.
LEMMA InitIInv == Init => IInv
  <1> SUFFICES ASSUME Init PROVE IInv
    OBVIOUS
  <1>1. /\ epoch = 1
        /\ records = [i \in Ids |-> NoRecord]
        /\ alias_index = [a \in UniqueAliases |-> NoId]
        /\ generation \in {0, 1} /\ minted \in {0, 1}
        /\ local \in Publishers \cup {NoPublisher}
    BY DEF Init
  <1>2. /\ NoEvidence \in Evidence /\ NoEvidence.valid = FALSE /\ NoEvidence.epoch = 0
    BY DEF NoEvidence, Evidence, NoBoot
  <1>3. /\ NoRecord \in Record /\ NoRecord.lifecycle = "Absent" /\ NoRecord.gen = 0
        /\ NoRecord.aliases = {} /\ NoRecord.evidence = NoEvidence
    BY <1>2 DEF NoRecord, Record
  <1>4. EpochMax \in Nat \ {0} /\ CounterMax \in Nat \ {0} /\ BootMax \in Nat \ {0}
        /\ NoId \notin Ids
    BY RegistryAssumption
  <1>5. /\ NoPublisherRecord \in Publisher
        /\ NoPublisherRecord.state # "Active" /\ NoPublisherRecord.boot = NoBoot
    BY EmptySeq DEF NoPublisherRecord, Publisher, NoBoot
  <1>6. /\ ActiveRecord(NoPublisherRecord, 1) \in Publisher
        /\ ActiveRecord(NoPublisherRecord, 1).state = "Active"
        /\ ActiveRecord(NoPublisherRecord, 1).boot # NoBoot
    <2>1. ActiveRecord(NoPublisherRecord, 1) \in Publisher
      BY <1>5, PublisherTyped
    <2> QED
      BY <2>1 DEF ActiveRecord, NoBoot
  <1>7. \A p \in Publishers : publishers[p] \in {NoPublisherRecord,
                                                 ActiveRecord(NoPublisherRecord, 1)}
    BY DEF Init
  <1>8. publishers \in [Publishers -> Publisher] /\ ActiveIffBound
    <2>1. publishers = [p \in Publishers |-> publishers[p]]
      BY DEF Init
    <2> QED
      BY <1>5, <1>6, <1>7, <2>1 DEF ActiveIffBound
  <1>9. TypeOK
    BY <1>1, <1>3, <1>4, <1>8 DEF TypeOK
  <1>10. AliasIndexAgrees
    BY <1>1, <1>3, <1>4 DEF AliasIndexAgrees
  <1>11. RecordBehindRegistry
    BY <1>1, <1>3 DEF RecordBehindRegistry
  <1>12. AbsentIsBlank /\ EvidenceInPast /\ ValidEvidenceIsSigned /\ ValidEvidenceIsBound
    BY <1>1, <1>2, <1>3 DEF AbsentIsBlank, EvidenceInPast, ValidEvidenceIsSigned,
                            ValidEvidenceIsBound
  <1> QED
    BY <1>8, <1>9, <1>10, <1>11, <1>12 DEF IInv

\* The kinds of step there are, from a state of the invariant.
LEMMA StepKinds ==
  ASSUME IInv, Next
  PROVE  \/ \E p \in Publishers, boot \in Nat, i \in Ids : \E next :
              /\ publishers[p].state = "Active" /\ publishers[p].boot = boot
              /\ Commit(p, boot, i, next)
         \/ \E i, successor \in Ids, expected \in Expectations :
              SupersedeBy(i, successor, expected)
         \/ \E p \in Publishers : AttachPublisher(p) \/ FencePublisher(p)
         \/ AdvanceEpoch
         \/ \E q \in Publishers \cup {NoPublisher} : Restart(q)
  <1>1. ASSUME NEW p \in Publishers, NEW boot \in 1..minted, NEW e \in 1..epoch,
               Mutation(p, boot, e)
        PROVE  \/ \E i \in Ids : \E next :
                    /\ publishers[p].state = "Active" /\ publishers[p].boot = boot
                    /\ boot \in Nat
                    /\ Commit(p, boot, i, next)
               \/ \E i, successor \in Ids, expected \in Expectations :
                    SupersedeBy(i, successor, expected)
    <2>1. boot \in Nat
      BY DEF IInv, TypeOK
    <2>2. publishers[p].state = "Active" /\ publishers[p].boot = boot
      BY <1>1 DEF Mutation, Authorized
    <2> QED
      BY <1>1, <2>1, <2>2, MutationShape DEF IInv
  <1>2. ASSUME NEW p \in Publishers, NEW boot \in 1..minted, NEW e \in 1..epoch,
               DetachPublisher(p, boot, e)
        PROVE  FencePublisher(p)
    BY <1>2 DEF DetachPublisher
  <1> QED
    BY <1>1, <1>2 DEF Next

\* The invariant is inductive.
LEMMA NextIInv == IInv /\ [Next]_vars => IInv'
  <1> SUFFICES ASSUME IInv, [Next]_vars PROVE IInv'
    OBVIOUS
  <1>1. CASE Next
    <2>1. \/ \E p \in Publishers, boot \in Nat, i \in Ids : \E next :
               /\ publishers[p].state = "Active" /\ publishers[p].boot = boot
               /\ Commit(p, boot, i, next)
          \/ \E i, successor \in Ids, expected \in Expectations :
               SupersedeBy(i, successor, expected)
          \/ \E p \in Publishers : AttachPublisher(p) \/ FencePublisher(p)
          \/ AdvanceEpoch
          \/ \E q \in Publishers \cup {NoPublisher} : Restart(q)
      BY <1>1, StepKinds
    <2> QED
      BY <2>1, CommitPreservesIInv, SupersedePreservesIInv, AttachPreservesIInv,
         FencePreservesIInv, AdvancePreservesIInv, RestartPreservesIInv
  <1>2. CASE UNCHANGED vars
    BY <1>2 DEF vars, IInv, TypeOK, AliasIndexAgrees, RecordBehindRegistry, AbsentIsBlank,
       Known, EvidenceInPast, ValidEvidenceIsSigned, ActiveIffBound, ValidEvidenceIsBound
  <1> QED
    BY <1>1, <1>2

\* Every reachable state of the registry satisfies the inductive invariant.
THEOREM Invariance == Spec => []IInv
  BY InitIInv, NextIInv, PTL DEF Spec

\* Every state of the registry is well typed: in particular its counters never
\* pass the values at which they saturate.
THEOREM TypeCorrect == Spec => []TypeOK
  <1>1. IInv => TypeOK
    BY DEF IInv
  <1> QED
    BY <1>1, Invariance, PTL

\* The unique-alias index always agrees with the record table, so a unique
\* alias never sits on two records.
THEOREM AliasIndexCorrect == Spec => []AliasIndexAgrees
  <1>1. IInv => AliasIndexAgrees
    BY DEF IInv
  <1> QED
    BY <1>1, Invariance, PTL

\* No record generation runs ahead of the registry generation.
THEOREM GenerationsOrdered == Spec => []RecordBehindRegistry
  <1>1. IInv => RecordBehindRegistry
    BY DEF IInv
  <1> QED
    BY <1>1, Invariance, PTL

\* Valid process-bound evidence of the current epoch always names an attached
\* incarnation.
THEOREM EvidenceBound == Spec => []ValidEvidenceIsBound
  <1>1. IInv => ValidEvidenceIsBound
    BY DEF IInv
  <1> QED
    BY <1>1, Invariance, PTL
=============================================================================
