---------------------------- MODULE RepairProofs ----------------------------
(***************************************************************************)
(* Two promises of the registry fail: NoDeadAuthority and SavedStateLoads. *)
(* The theorems here say what they fail of.  Each condition below names    *)
(* one thing some handler leaves unchecked; the first promise holds of     *)
(* every behaviour whose steps meet the first condition, the second of     *)
(* every behaviour whose steps meet the other five.  So there is no        *)
(* further way to break either.                                            *)
(***************************************************************************)
EXTENDS RegistryStepProofs, ReconciliationProofs

\* resolve_conflict gives authority back only on evidence that is still alive.
ConflictsKeptAlive ==
  \A i \in Ids : records[i].lifecycle = "Conflicted" /\ IsCurrent(i)' => LiveEvidence(i)

\* resolve_conflict gives authority back only on evidence not invalidated.
ConflictsKeptValid ==
  \A i \in Ids :
    records[i].lifecycle = "Conflicted" /\ IsCurrent(i)' => records[i].evidence.valid

\* update_evidence and revalidate_entity merge no facts that contradict the
\* stored ones, as a registration does not.
RenewalsAgree ==
  \A p \in Publishers, boot \in 1..minted :
    RenewEvidence(p, boot) =>
      \A i \in Ids : SingleValued(records[i].facts) => SingleValued(records'[i].facts)

\* merge_facts adds facts to a record only within its bound.
MergesBounded ==
  \A i \in KnownIds :
    /\ records[i].facts \subseteq records'[i].facts
    /\ records[i].facts # records'[i].facts
      => Cardinality(records'[i].facts) <= MaxFacts

\* load() drops the oldest incarnation from a full list of fenced ones.
RestartsTrim ==
  \A q \in Publishers \cup {NoPublisher} :
    Restart(q) => \A p \in Publishers : Len(publishers'[p].fenced) <= MaxFencedBoots

\* A new process mints its embedded publisher only where there is room for one.
RestartsCount ==
  \A q \in Publishers : Restart(q) => Cardinality(KnownPublishers) < MaxPublishers

Repaired ==
  ConflictsKeptValid /\ RenewalsAgree /\ MergesBounded /\ RestartsTrim /\ RestartsCount

\* What a state needs to be loaded, made inductive: also of the records and
\* publishers that do not exist yet.
LoadInv ==
  /\ \A i \in Ids : /\ SingleValued(records[i].facts)
                    /\ Cardinality(records[i].facts) <= MaxFacts
                    /\ IsCurrent(i) => records[i].evidence.valid
  /\ \A p \in Publishers : Len(publishers[p].fenced) <= MaxFencedBoots
  /\ Cardinality(KnownPublishers) <= MaxPublishers
-----------------------------------------------------------------------------
(* Authority *)

\* A record that is current after a step either rests on live evidence, or kept
\* the evidence it had when it was current or conflicted; and where it was
\* conflicted nothing that evidence rests on has moved.
LEMMA CurrentRestsOnEvidence ==
  ASSUME IInv, Next, NEW i \in Ids, IsCurrent(i)'
  PROVE  \/ LiveEvidence(i)'
         \/ /\ records'[i].evidence = records[i].evidence
            /\ \/ IsCurrent(i)
               \/ records[i].lifecycle = "Conflicted" /\ UNCHANGED <<epoch, publishers>>
  <1> DEFINE Rests == \/ LiveEvidence(i)'
                      \/ /\ records'[i].evidence = records[i].evidence
                         /\ \/ IsCurrent(i)
                            \/ /\ records[i].lifecycle = "Conflicted"
                               /\ UNCHANGED <<epoch, publishers>>
  <1>1. ASSUME NEW p \in Publishers, NEW boot \in Nat, NEW j \in Ids, NEW next,
               publishers[p].state = "Active", publishers[p].boot = boot,
               Commit(p, boot, j, next)
        PROVE  Rests
    <2>1. /\ records'[j].lifecycle = next.lifecycle
          /\ records'[j].evidence = next.evidence
          /\ \A k \in Ids : k # j => records'[k] = records[k]
      BY <1>1, CommitInstalls DEF IInv
    <2>2. UNCHANGED <<epoch, publishers>>
      BY <1>1 DEF Commit
    <2>3. CASE i # j
      BY <2>1, <2>3 DEF IsCurrent
    <2>4. CASE i = j /\ Signed(p, boot, records[j], next)
      <3>1. /\ next.evidence.publisher = p /\ next.evidence.boot = boot
            /\ next.evidence.epoch = epoch /\ next.evidence.valid
        BY <2>4 DEF Signed, FillEvidence
      <3> QED
        BY <1>1, <2>1, <2>2, <2>4, <3>1 DEF LiveEvidence
    <2>5. CASE i = j /\ Kept(records[j], next)
      BY <2>1, <2>2, <2>5 DEF Kept, IsCurrent
    <2>6. CASE i = j /\ Revoked(records[j], next)
      BY <2>1, <2>6 DEF Revoked, IsCurrent
    <2> QED
      BY <1>1, <2>3, <2>4, <2>5, <2>6 DEF Commit
  <1>2. ASSUME NEW j \in Ids, NEW successor \in Ids, NEW expected,
               SupersedeBy(j, successor, expected)
        PROVE  Rests
    BY <1>2, SupersedeInstalls DEF IInv, IsCurrent
  <1>3. ASSUME NEW S, Demote(S) PROVE Rests
    BY <1>3, DemoteEffect DEF IInv, IsCurrent
  <1>4. ASSUME NEW q \in Publishers \cup {NoPublisher}, Restart(q) PROVE Rests
    <2>1. records'[i] = RecoveredRecord(records[i]) /\ records[i] \in Record
      BY <1>4 DEF Restart, IInv, TypeOK
    <2>2. CASE IsCurrent(i) /\ ~records[i].evidence.durable
      <3>1. records'[i].lifecycle = "RevalidationRequired"
        BY <2>1, <2>2 DEF RecoveredRecord, Record, IsCurrent
      <3> QED
        BY <3>1 DEF IsCurrent
    <2>3. CASE ~(IsCurrent(i) /\ ~records[i].evidence.durable)
      BY <2>1, <2>3 DEF RecoveredRecord, IsCurrent
    <2> QED
      BY <2>2, <2>3
  <1> HIDE DEF Rests
  <1>5. Rests
    BY <1>1, <1>2, <1>3, <1>4, StepKinds DEF AttachPublisher, FencePublisher, AdvanceEpoch
  <1> QED
    BY <1>5 DEF Rests

\* No record is ever current on dead evidence in a behaviour whose conflicts are
\* only resolved in a record's favour on live evidence: "Live authority does
\* not" survive fences, reattachments, epoch advances and restarts, but for
\* what resolve_conflict gives back.
THEOREM DeadAuthorityOnlyFromConflicts ==
  Spec /\ [][ConflictsKeptAlive]_vars => []NoDeadAuthority
  <1>1. Init => NoDeadAuthority
    BY DEF Init, NoRecord, NoDeadAuthority, IsCurrent
  <1>2. IInv /\ NoDeadAuthority /\ [Next]_vars /\ [ConflictsKeptAlive]_vars
          => NoDeadAuthority'
    <2>1. CASE UNCHANGED vars
      BY <2>1 DEF vars, NoDeadAuthority, IsCurrent, LiveEvidence
    <2>2. ASSUME IInv, NoDeadAuthority, Next, vars' # vars, ConflictsKeptAlive,
                 NEW i \in Ids, IsCurrent(i)'
          PROVE  LiveEvidence(i)'
      <3>1. CASE IsCurrent(i)
        <4>1. StepsWell
          BY <2>2, EveryStepWell
        <4> QED
          BY <2>2, <3>1, <4>1 DEF StepsWell, KeepsAuthorityWithEvidence, NoDeadAuthority
      <3>2. CASE ~IsCurrent(i)
        <4>1. CASE LiveEvidence(i)'
          BY <4>1
        <4>2. CASE ~LiveEvidence(i)'
          <5>1. /\ records'[i].evidence = records[i].evidence
                /\ records[i].lifecycle = "Conflicted" /\ UNCHANGED <<epoch, publishers>>
            BY <2>2, <3>2, <4>2, CurrentRestsOnEvidence
          <5>2. LiveEvidence(i)
            BY <2>2, <5>1 DEF ConflictsKeptAlive
          <5> QED
            BY <5>1, <5>2 DEF LiveEvidence
        <4> QED
          BY <4>1, <4>2
      <3> QED
        BY <3>1, <3>2
    <2>3. ASSUME IInv, NoDeadAuthority, Next, vars' # vars, ConflictsKeptAlive
          PROVE  NoDeadAuthority'
      BY <2>2, <2>3 DEF NoDeadAuthority
    <2> QED
      BY <2>1, <2>3
  <1> QED
    BY <1>1, <1>2, Invariance, PTL DEF Spec
-----------------------------------------------------------------------------
(* Facts *)

\* What renewing evidence leaves of the facts of a record: what it had, that
\* merged with the request's, or the request's own.
FactsRenewed(k) ==
  \/ records'[k].facts = records[k].facts
  \/ \E facts \in FactSets : /\ Known(k)
                             /\ records'[k].facts = records[k].facts \cup facts
  \/ records'[k].facts \in FactSets

LEMMA RenewedFacts ==
  ASSUME TypeOK, NEW p \in Publishers, NEW boot, RenewEvidence(p, boot), NEW k \in Ids
  PROVE  FactsRenewed(k)
  <1>1. PICK i \in Ids, facts \in FactSets, merge \in BOOLEAN, durable \in EvidenceClasses,
             expected \in Expectations :
          \/ UpdateEvidence(p, boot, i, facts, merge, durable, expected)
          \/ Revalidate(p, boot, i, facts, merge, durable, expected)
    BY DEF RenewEvidence
  <1> DEFINE r == records[i]
             result == ResultingFacts(i, facts, merge)
             updated == [r EXCEPT !.facts = result, !.evidence = FillEvidence(p, boot, durable)]
             revalidated == [r EXCEPT !.facts = result, !.lifecycle = "Current",
                                      !.evidence = FillEvidence(p, boot, durable)]
  <1>2. r \in Record /\ records \in [Ids -> Record]
    BY DEF TypeOK
  <1>3. PICK next : /\ InstallRecord(i, next) /\ Known(i)
                    /\ next \in {updated, revalidated}
    BY <1>1 DEF UpdateEvidence, Revalidate, Known
  <1>4. [next EXCEPT !.gen = r.gen + 1].facts = result
    BY <1>2, <1>3 DEF Record
  <1>5. records' = [records EXCEPT ![i] = [next EXCEPT !.gen = r.gen + 1]]
    BY <1>3 DEF InstallRecord
  <1>6. result = facts \/ result = r.facts \cup facts
    BY DEF ResultingFacts
  <1> HIDE DEF result
  <1> QED
    BY <1>2, <1>3, <1>4, <1>5, <1>6 DEF FactsRenewed

\* The other mutations change no facts.
LEMMA ChangesKeepFacts ==
  ASSUME TypeOK, ChangeRecord, NEW k \in Ids
  PROVE  records'[k].facts = records[k].facts
  <1>1. PICK i \in Ids, expected \in Expectations :
          \/ \E a \in Aliases : AttachAlias(i, a, expected) \/ DetachAlias(i, a, expected)
          \/ SupersedeAlone(i, expected)
          \/ \E successor \in Ids : SupersedeBy(i, successor, expected)
          \/ Retire(i, expected)
          \/ Tombstone(i, expected)
          \/ \E destination \in {"Current", "Retired", "Rejected"} :
               ResolveConflict(i, destination, expected)
    BY DEF ChangeRecord
  <1>t. records \in [Ids -> Record] /\ records[i] \in Record
    BY DEF TypeOK
  <1>2. ASSUME NEW successor \in Ids, SupersedeBy(i, successor, expected)
        PROVE  records'[k].facts = records[k].facts
    <2> DEFINE heir == [records[successor] EXCEPT
                          !.gen = @ + 1, !.aliases = @ \cup MovedAliases(i, successor),
                          !.supersedes = i]
               closed == [records[i] EXCEPT !.gen = @ + 1, !.lifecycle = "Superseded",
                                            !.superseded_by = successor,
                                            !.aliases = @ \ heir.aliases]
    <2>1. records' = [records EXCEPT ![successor] = heir, ![i] = closed]
      BY <1>2 DEF SupersedeBy
    <2>2. heir.facts = records[successor].facts /\ closed.facts = records[i].facts
      BY <1>t DEF TypeOK, Record
    <2> HIDE DEF heir, closed
    <2> QED
      BY <1>t, <2>1, <2>2
  <1>3. CASE ~\E successor \in Ids : SupersedeBy(i, successor, expected)
    <2>1. PICK next : /\ InstallRecord(i, next)
                      /\ \/ \E a : \/ next = [records[i] EXCEPT !.aliases = @ \cup {a}]
                                     \/ next = [records[i] EXCEPT !.aliases = @ \ {a}]
                         \/ next = [records[i] EXCEPT !.lifecycle = "Superseded",
                                                      !.superseded_by = NoId]
                         \/ next = [records[i] EXCEPT !.lifecycle = "Retired"]
                         \/ next = [records[i] EXCEPT !.lifecycle = "Tombstoned",
                                                      !.evidence.valid = FALSE]
                         \/ \E destination :
                              next = [records[i] EXCEPT
                                        !.lifecycle = destination,
                                        !.evidence.valid = @ /\ destination = "Current"]
      BY <1>1, <1>3 DEF AttachAlias, DetachAlias, SupersedeAlone, Retire, Tombstone,
                        ResolveConflict
    <2>2. [next EXCEPT !.gen = records[i].gen + 1].facts = records[i].facts
      BY <1>t, <2>1 DEF Record
    <2>3. records' = [records EXCEPT ![i] = [next EXCEPT !.gen = records[i].gen + 1]]
      BY <2>1 DEF InstallRecord
    <2> QED
      BY <1>t, <2>2, <2>3
  <1> QED
    BY <1>2, <1>3

\* The kinds of step that matter to facts: two that set them, and the rest.
LEMMA StepFacts ==
  ASSUME IInv, Next
  PROVE  \/ \E p \in Publishers, boot \in 1..minted :
              RegisterEntity(p, boot) \/ RenewEvidence(p, boot)
         \/ \A k \in Ids : records'[k].facts = records[k].facts
  <1>1. \/ \E p \in Publishers, boot \in 1..minted :
              RegisterEntity(p, boot) \/ RenewEvidence(p, boot)
        \/ ChangeRecord
        \/ \E p \in Publishers : AttachPublisher(p) \/ FencePublisher(p)
        \/ AdvanceEpoch
        \/ \E q \in Publishers \cup {NoPublisher} : Restart(q)
    BY DEF Next, Mutation, DetachPublisher
  <1>2. ASSUME NEW S, Demote(S) PROVE \A k \in Ids : records'[k].facts = records[k].facts
    BY <1>2, DemoteEffect DEF IInv
  <1>3. ASSUME NEW q \in Publishers \cup {NoPublisher}, Restart(q), NEW k \in Ids
        PROVE  records'[k].facts = records[k].facts
    <2>1. records'[k] = RecoveredRecord(records[k]) /\ records[k] \in Record
      BY <1>3 DEF Restart, IInv, TypeOK
    <2> QED
      BY <2>1 DEF RecoveredRecord, Record
  <1>4. ASSUME ChangeRecord PROVE \A k \in Ids : records'[k].facts = records[k].facts
    BY <1>4, ChangesKeepFacts DEF IInv
  <1> QED
    BY <1>1, <1>2, <1>3, <1>4 DEF AttachPublisher, FencePublisher, AdvanceEpoch

\* Where merges are bounded and renewals agree, every record keeps a set of facts
\* that can be loaded.
LEMMA FactsStayLoadable ==
  ASSUME IInv, LoadInv, Next, RenewalsAgree, MergesBounded, NEW k \in Ids
  PROVE  SingleValued(records'[k].facts) /\ Cardinality(records'[k].facts) <= MaxFacts
  <1> DEFINE was == records[k].facts
             now == records'[k].facts
  <1>1. /\ SingleValued(was) /\ Cardinality(was) <= MaxFacts
        /\ \A facts \in FactSets : SingleValued(facts) /\ Cardinality(facts) <= MaxFacts
    BY RegistryAssumption DEF LoadInv
  <1>2. Known(k) /\ was \subseteq now /\ now # was => Cardinality(now) <= MaxFacts
    BY DEF MergesBounded, KnownIds
  <1>3. ASSUME NEW p \in Publishers, NEW boot \in 1..minted, RegisterEntity(p, boot)
        PROVE  SingleValued(now) /\ Cardinality(now) <= MaxFacts
    <2>1. SingleValued(now)
      BY <1>1, <1>3, RegistrationAgrees
    <2>2. FactsRegistered(k)
      BY <1>3, RegisteredFacts
    <2>3. now = was \/ (Known(k) /\ was \subseteq now) \/ now \in FactSets
      BY <2>2 DEF FactsRegistered
    <2> HIDE DEF was, now
    <2> QED
      BY <1>1, <1>2, <2>1, <2>3
  <1>4. ASSUME NEW p \in Publishers, NEW boot \in 1..minted, RenewEvidence(p, boot)
        PROVE  SingleValued(now) /\ Cardinality(now) <= MaxFacts
    <2>1. SingleValued(now)
      BY <1>1, <1>4 DEF RenewalsAgree
    <2>2. FactsRenewed(k)
      BY <1>4, RenewedFacts DEF IInv
    <2>3. now = was \/ (Known(k) /\ was \subseteq now) \/ now \in FactSets
      BY <2>2 DEF FactsRenewed
    <2> HIDE DEF was, now
    <2> QED
      BY <1>1, <1>2, <2>1, <2>3
  <1> QED
    BY <1>1, <1>3, <1>4, StepFacts

\* Where conflicts are kept on valid evidence, every current record's is valid.
LEMMA CurrentStaysValid ==
  ASSUME IInv, LoadInv, Next, ConflictsKeptValid, NEW i \in Ids, IsCurrent(i)'
  PROVE  records'[i].evidence.valid
  <1>1. CASE LiveEvidence(i)'
    BY <1>1 DEF LiveEvidence
  <1>2. CASE ~LiveEvidence(i)'
    <2>1. /\ records'[i].evidence = records[i].evidence
          /\ IsCurrent(i) \/ records[i].lifecycle = "Conflicted"
      BY <1>2, CurrentRestsOnEvidence
    <2> QED
      BY <2>1 DEF LoadInv, ConflictsKeptValid
  <1> QED
    BY <1>1, <1>2
-----------------------------------------------------------------------------
(* Publishers *)

\* Remembering a fenced incarnation keeps the list within its bound.
LEMMA RememberBounded ==
  ASSUME NEW fenced \in Seq(Nat), NEW boot \in Nat, Len(fenced) <= MaxFencedBoots
  PROVE  Len(Remember(fenced, boot)) <= MaxFencedBoots
  <1> DEFINE longer == Append(fenced, boot)
             drop == IF Len(longer) > MaxFencedBoots THEN Len(longer) - MaxFencedBoots ELSE 0
  <1>1. longer \in Seq(Nat) /\ Len(longer) = Len(fenced) + 1 /\ Len(fenced) \in Nat
    BY AppendProperties, LenProperties
  <1>2. MaxFencedBoots \in Nat
    BY RegistryAssumption
  <1>3. /\ drop \in Nat /\ drop + 1 \in Int /\ Len(longer) \in Int
        /\ Len(longer) - (drop + 1) + 1 <= MaxFencedBoots
    BY <1>1, <1>2
  <1>4. \A k \in (drop + 1)..Len(longer) : longer[k] \in Nat
    BY <1>1, <1>3, ElementOfSeq
  <1> HIDE DEF longer, drop
  <1>5. Len(SubSeq(longer, drop + 1, Len(longer)))
          = IF drop + 1 <= Len(longer) THEN Len(longer) - (drop + 1) + 1 ELSE 0
    BY <1>3, <1>4, SubSeqProperties
  <1>6. Len(SubSeq(longer, drop + 1, Len(longer))) <= MaxFencedBoots
    BY <1>2, <1>3, <1>5
  <1> QED
    BY <1>6 DEF Remember, longer, drop

\* So fencing a publisher and binding it anew keep it within the bound.
LEMMA FencedListBounded ==
  ASSUME NEW pub \in Publisher, Len(pub.fenced) <= MaxFencedBoots, NEW boot
  PROVE  /\ Len(FencedRecord(pub).fenced) <= MaxFencedBoots
         /\ Len(ActiveRecord(pub, boot).fenced) <= MaxFencedBoots
  <1>1. pub.fenced \in Seq(Nat) /\ pub.boot \in Nat
    BY DEF Publisher
  <1> QED
    BY <1>1, RememberBounded DEF FencedRecord, ActiveRecord

\* Where restarts trim the lists, every list stays within its bound.
LEMMA ListsStayBounded ==
  ASSUME IInv, LoadInv, Next, RestartsTrim, NEW p \in Publishers
  PROVE  Len(publishers'[p].fenced) <= MaxFencedBoots
  <1>t. /\ publishers \in [Publishers -> Publisher]
        /\ Len(publishers[p].fenced) <= MaxFencedBoots
    BY DEF IInv, TypeOK, LoadInv
  <1>1. CASE UNCHANGED publishers
    BY <1>1, <1>t
  <1>2. ASSUME NEW q \in Publishers, AttachPublisher(q) \/ FencePublisher(q)
        PROVE  Len(publishers'[p].fenced) <= MaxFencedBoots
    <2>1. publishers'[p] \in {publishers[p], FencedRecord(publishers[p]),
                              ActiveRecord(publishers[p], minted + 1)}
      BY <1>2, <1>t DEF AttachPublisher, FencePublisher
    <2> QED
      BY <1>t, <2>1, FencedListBounded
  <1>3. CASE AdvanceEpoch
    <2>1. publishers'[p] \in {publishers[p], FencedRecord(publishers[p]),
                              ActiveRecord(FencedRecord(publishers[p]), minted + 1)}
      BY <1>3 DEF AdvanceEpoch
    <2>2. /\ FencedRecord(publishers[p]) \in Publisher
          /\ Len(FencedRecord(publishers[p]).fenced) <= MaxFencedBoots
      BY <1>t, PublisherTyped, FencedListBounded
    <2> QED
      BY <1>t, <2>1, <2>2, FencedListBounded
  <1>4. ASSUME NEW q \in Publishers \cup {NoPublisher}, Restart(q)
        PROVE  Len(publishers'[p].fenced) <= MaxFencedBoots
    BY <1>4 DEF RestartsTrim
  <1> QED
    BY <1>1, <1>2, <1>3, <1>4, PublisherSteps

\* Where restarts count, there are never more publishers than the bound.
LEMMA PublishersStayBounded ==
  ASSUME IInv, LoadInv, Next, RestartsCount
  PROVE  Cardinality(KnownPublishers') <= MaxPublishers
  <1>t. /\ publishers \in [Publishers -> Publisher]
        /\ Cardinality(KnownPublishers) <= MaxPublishers
        /\ IsFiniteSet(KnownPublishers) /\ Cardinality(KnownPublishers) \in Nat
        /\ MaxPublishers \in Nat
    <2>1. IsFiniteSet(Publishers) /\ KnownPublishers \in SUBSET Publishers
      BY RegistryAssumption DEF KnownPublishers
    <2>2. IsFiniteSet(KnownPublishers)
      BY <2>1, FS_Subset
    <2> QED
      BY <2>2, FS_CardinalityType, RegistryAssumption DEF IInv, TypeOK, LoadInv
  <1>0. \A pub, boot : /\ FencedRecord(pub).state = "Fenced"
                       /\ ActiveRecord(pub, boot).state = "Active"
                       /\ RecoveredPublisher(pub).state = "Fenced"
    BY DEF FencedRecord, ActiveRecord, RecoveredPublisher
  <1>1. CASE KnownPublishers' = KnownPublishers
    BY <1>1, <1>t
  <1>2. ASSUME NEW q \in Publishers, KnownPublishers' = KnownPublishers \cup {q},
               q \in KnownPublishers \/ Cardinality(KnownPublishers) < MaxPublishers
        PROVE  Cardinality(KnownPublishers') <= MaxPublishers
    <2>1. Cardinality(KnownPublishers \cup {q})
            = IF q \in KnownPublishers THEN Cardinality(KnownPublishers)
              ELSE Cardinality(KnownPublishers) + 1
      BY <1>t, FS_AddElement
    <2> QED
      BY <1>2, <1>t, <2>1
  <1>3. CASE UNCHANGED publishers
    BY <1>3, <1>1 DEF KnownPublishers
  <1>4. ASSUME NEW q \in Publishers, AttachPublisher(q)
        PROVE  Cardinality(KnownPublishers') <= MaxPublishers
    <2>1. publishers' = [publishers EXCEPT ![q] = ActiveRecord(publishers[q], minted + 1)]
      BY <1>4 DEF AttachPublisher
    <2>2. KnownPublishers' = KnownPublishers \cup {q}
      BY <1>0, <1>t, <2>1 DEF KnownPublishers
    <2>3. q \in KnownPublishers \/ Cardinality(KnownPublishers) < MaxPublishers
      BY <1>4 DEF AttachPublisher, KnownPublishers
    <2> QED
      BY <1>2, <2>2, <2>3
  <1>5. ASSUME NEW q \in Publishers, FencePublisher(q)
        PROVE  Cardinality(KnownPublishers') <= MaxPublishers
    <2>1. /\ publishers' = [publishers EXCEPT ![q] = FencedRecord(publishers[q])]
          /\ publishers[q].state # "Unknown"
      BY <1>5 DEF FencePublisher
    <2>2. KnownPublishers' = KnownPublishers
      BY <1>0, <1>t, <2>1 DEF KnownPublishers
    <2> QED
      BY <1>1, <2>2
  <1>6. CASE AdvanceEpoch
    <2>1. \A p \in Publishers :
            /\ p \notin KnownPublishers => publishers'[p] = publishers[p]
            /\ p \in KnownPublishers => publishers'[p].state # "Unknown"
      BY <1>0, <1>6 DEF AdvanceEpoch
    <2>2. KnownPublishers' = KnownPublishers
      BY <2>1 DEF KnownPublishers
    <2> QED
      BY <1>1, <2>2
  <1>7. ASSUME NEW q \in Publishers \cup {NoPublisher}, Restart(q)
        PROVE  Cardinality(KnownPublishers') <= MaxPublishers
    <2>1. \A p \in Publishers :
            /\ p = q => publishers'[p].state # "Unknown"
            /\ p # q /\ p \in KnownPublishers => publishers'[p].state # "Unknown"
            /\ p # q /\ p \notin KnownPublishers => publishers'[p] = publishers[p]
      BY <1>0, <1>7 DEF Restart
    <2>2. CASE q \in Publishers
      <3>1. KnownPublishers' = KnownPublishers \cup {q}
        BY <2>1, <2>2 DEF KnownPublishers
      <3> QED
        BY <1>2, <1>7, <2>2, <3>1 DEF RestartsCount
    <2>3. CASE q \notin Publishers
      <3>1. KnownPublishers' = KnownPublishers
        BY <2>1, <2>3 DEF KnownPublishers
      <3> QED
        BY <1>1, <3>1
    <2> QED
      BY <2>2, <2>3
  <1> QED
    BY <1>3, <1>4, <1>5, <1>6, <1>7, PublisherSteps
-----------------------------------------------------------------------------
(* The state file *)

LEMMA InitLoads == Init => LoadInv
  <1> SUFFICES ASSUME Init PROVE LoadInv
    OBVIOUS
  <1>1. MaxPublishers \in Nat \ {0} /\ MaxFacts \in Nat \ {0} /\ MaxFencedBoots \in Nat \ {0}
    BY RegistryAssumption
  <1>2. \A i \in Ids : records[i].facts = {} /\ ~IsCurrent(i)
    BY DEF Init, NoRecord, IsCurrent
  <1>3. \A i \in Ids : /\ SingleValued(records[i].facts)
                        /\ Cardinality(records[i].facts) <= MaxFacts
    <2>1. SingleValued({}) /\ Cardinality({}) <= MaxFacts
      BY <1>1, FS_EmptySet DEF SingleValued
    <2> QED
      BY <1>2, <2>1
  <1>4. \A p \in Publishers : Len(publishers[p].fenced) <= MaxFencedBoots
    <2>1. \A p \in Publishers : publishers[p].fenced = <<>>
      BY DEF Init, NoPublisherRecord, ActiveRecord, Remember, NoBoot
    <2> QED
      BY <1>1, <2>1, EmptySeq
  <1>5. Cardinality(KnownPublishers) <= MaxPublishers
    <2>1. CASE CreateLocal
      <3>1. /\ local \in Publishers
            /\ publishers = [p \in Publishers |->
                              IF p = local THEN ActiveRecord(NoPublisherRecord, 1)
                              ELSE NoPublisherRecord]
        BY <2>1 DEF Init
      <3>2. KnownPublishers = {local}
        BY <3>1 DEF KnownPublishers, NoPublisherRecord, ActiveRecord
      <3> QED
        BY <1>1, <3>2, FS_Singleton
    <2>2. CASE ~CreateLocal
      <3>1. publishers = [p \in Publishers |-> NoPublisherRecord]
        BY <2>2 DEF Init
      <3>2. KnownPublishers = {}
        BY <3>1 DEF KnownPublishers, NoPublisherRecord
      <3> QED
        BY <1>1, <3>2, FS_EmptySet
    <2> QED
      BY <2>1, <2>2
  <1> QED
    BY <1>2, <1>3, <1>4, <1>5 DEF LoadInv

LEMMA RepairedStepLoads ==
  IInv /\ LoadInv /\ [Next]_vars /\ [Repaired]_vars => LoadInv'
  <1>1. CASE UNCHANGED vars
    BY <1>1 DEF vars, LoadInv, IsCurrent, KnownPublishers
  <1>2. CASE IInv /\ LoadInv /\ Next /\ Repaired
    BY <1>2, FactsStayLoadable, CurrentStaysValid, ListsStayBounded, PublishersStayBounded
    DEF Repaired, LoadInv
  <1> QED
    BY <1>1, <1>2

\* Every state a process saves can be loaded by the next, in a behaviour that
\* resolves conflicts on valid evidence, whose evidence renewals contradict
\* nothing stored, whose merges stay within the fact bound, and whose restarts
\* trim the fenced lists and leave room for the publisher they mint.  Each of
\* the five is a check some handler lacks; with them no other is missing.
THEOREM UnloadableOnlyFromFive == Spec /\ [][Repaired]_vars => []SavedStateLoads
  <1>1. LoadInv => SavedStateLoads
    BY DEF LoadInv, SavedStateLoads, Loadable, KnownPublishers, KnownIds, IsCurrent
  <1> QED
    BY <1>1, InitLoads, RepairedStepLoads, Invariance, PTL DEF Spec
=============================================================================
