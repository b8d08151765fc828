------------------------- MODULE RegistryStepProofs -------------------------
(***************************************************************************)
(* What no step of Registry ever does, for every value of its constants.   *)
(* The step predicates of Registry are proved together, one lemma          *)
(* per kind of step, from the inductive invariant of RegistryProofs.       *)
(***************************************************************************)
EXTENDS RegistryProofs

\* Every step predicate of Registry at once.
StepsWell ==
  /\ StepsLegally
  /\ KeepsClosed
  /\ SignsUnderLiveClaim
  /\ KeepsAuthorityWithEvidence
  /\ KeepsDurableAuthority
  /\ CountsCommits
  /\ HandsAliasesOver
  /\ KeepsSnapshots

\* Committing one record under a live claim has every step property.
LEMMA CommitStepsWell ==
  ASSUME IInv, NEW p \in Publishers, NEW boot \in Nat, NEW i \in Ids, NEW next,
         publishers[p].state = "Active", publishers[p].boot = boot,
         Commit(p, boot, i, next)
  PROVE  StepsWell
  <1> USE DEF IInv
  <1>c. /\ records'[i] \in Record
        /\ records'[i].gen = records[i].gen + 1
        /\ records'[i].lifecycle = next.lifecycle
        /\ records'[i].facts = next.facts
        /\ records'[i].aliases = next.aliases
        /\ records'[i].evidence = next.evidence
        /\ \A j \in Ids : j # i => records'[j] = records[j]
        /\ generation' = generation + 1
    BY CommitInstalls
  <1>0. /\ UNCHANGED <<epoch, minted, local, publishers>>
        /\ alias_index' = IndexApply(alias_index, i, records[i], next)
        /\ LegalStep(records[i].lifecycle, next.lifecycle)
        /\ next.lifecycle # "Absent"
        /\ records[i].lifecycle \in {"Tombstoned", "Rejected"}
             => records[i].aliases \subseteq next.aliases
        /\ ~AliasesBoundElsewhere(next.aliases, i)
        /\ \/ Signed(p, boot, records[i], next)
           \/ Kept(records[i], next)
           \/ Revoked(records[i], next)
    BY DEF Commit, InstallRecord
  <1>t. records[i] \in Record /\ records[i].evidence \in Evidence /\ generation \in Nat
    BY DEF TypeOK, Record
  <1>1. StepsLegally
    BY <1>0, <1>c DEF StepsLegally, LegalStep
  <1>2. \A j \in Ids \ {i} : /\ IsCurrent(j)' = IsCurrent(j)
                             /\ LiveEvidence(j)' = LiveEvidence(j)
                             /\ records'[j] = records[j]
    BY <1>0, <1>c DEF IsCurrent, LiveEvidence
  <1>3. /\ KeepsClosed
        /\ SignsUnderLiveClaim
        /\ KeepsAuthorityWithEvidence
    <2>1. CASE Signed(p, boot, records[i], next)
      <3>1. /\ next.evidence.publisher = p /\ next.evidence.boot = boot
            /\ next.evidence.epoch = epoch /\ next.evidence.valid
            /\ records[i].lifecycle \notin Closed
        BY <2>1 DEF Signed, FillEvidence
      <3>2. KeepsClosed
        BY <1>2, <3>1 DEF KeepsClosed
      <3>3. SignsUnderLiveClaim
        BY <1>0, <1>2, <1>c, <3>1 DEF SignsUnderLiveClaim
      <3>4. LiveEvidence(i)'
        BY <1>0, <1>c, <3>1 DEF LiveEvidence
      <3>5. KeepsAuthorityWithEvidence
        BY <1>2, <3>4 DEF KeepsAuthorityWithEvidence
      <3> QED
        BY <3>2, <3>3, <3>5
    <2>2. CASE Kept(records[i], next)
      <3>1. /\ records'[i].evidence = records[i].evidence
            /\ records'[i].facts = records[i].facts
            /\ records'[i].lifecycle = "Current"
                 => records[i].lifecycle \in {"Current", "Conflicted"}
        BY <1>c, <2>2 DEF Kept
      <3>2. records[i].lifecycle \in Closed => records'[i].lifecycle \in Closed
        BY <1>0, <1>c DEF LegalStep, TransitionAllowed, Successors, Closed
      <3>3. KeepsClosed
        BY <1>2, <3>1, <3>2 DEF KeepsClosed
      <3>4. SignsUnderLiveClaim
        BY <1>2, <3>1 DEF SignsUnderLiveClaim
      <3>5. LiveEvidence(i)' = LiveEvidence(i)
        BY <1>0, <3>1 DEF LiveEvidence
      <3>6. KeepsAuthorityWithEvidence
        BY <1>2, <3>1, <3>5 DEF KeepsAuthorityWithEvidence, IsCurrent
      <3> QED
        BY <3>3, <3>4, <3>6
    <2>3. CASE Revoked(records[i], next)
      <3>1. /\ records'[i].evidence = [records[i].evidence EXCEPT !.valid = FALSE]
            /\ records'[i].facts = records[i].facts
            /\ records'[i].lifecycle # "Current"
        BY <1>c, <2>3 DEF Revoked
      <3>2. records[i].lifecycle \in Closed => records'[i].lifecycle \in Closed
        BY <1>0, <1>c DEF LegalStep, TransitionAllowed, Successors, Closed
      <3>3. LET ev == records'[i].evidence
                was == records[i].evidence
            IN  /\ ev.publisher = was.publisher /\ ev.boot = was.boot /\ ev.epoch = was.epoch
                /\ ev.valid = FALSE
                /\ [ev EXCEPT !.valid = FALSE] = [was EXCEPT !.valid = FALSE]
        BY <1>t, <3>1 DEF Evidence
      <3>4. KeepsClosed
        BY <1>2, <3>1, <3>2, <3>3 DEF KeepsClosed
      <3>5. SignsUnderLiveClaim
        BY <1>2, <3>3 DEF SignsUnderLiveClaim
      <3>6. KeepsAuthorityWithEvidence
        BY <1>2, <3>1 DEF KeepsAuthorityWithEvidence, IsCurrent
      <3> QED
        BY <3>4, <3>5, <3>6
    <2> QED
      BY <1>0, <2>1, <2>2, <2>3
  <1>4. KeepsDurableAuthority
    BY <1>0 DEF KeepsDurableAuthority
  <1>5. CountsCommits
    BY <1>2, <1>c DEF CountsCommits
  <1>6. HandsAliasesOver
    <2> SUFFICES ASSUME NEW a \in UniqueAliases, alias_index[a] # NoId,
                        alias_index'[a] # alias_index[a]
                 PROVE  /\ records[alias_index[a]].lifecycle \notin {"Tombstoned", "Rejected"}
                        /\ alias_index'[a] = NoId
      BY DEF HandsAliasesOver
    <2>1. alias_index'[a] = IF a \in next.aliases THEN i
                            ELSE IF a \in records[i].aliases /\ alias_index[a] = i THEN NoId
                            ELSE alias_index[a]
      BY <1>0 DEF IndexApply
    <2>2. a \notin next.aliases
      BY <1>0, <2>1 DEF AliasesBoundElsewhere
    <2>3. a \in records[i].aliases /\ alias_index[a] = i /\ alias_index'[a] = NoId
      BY <2>1, <2>2
    <2> QED
      BY <1>0, <2>2, <2>3
  <1>7. KeepsSnapshots
    BY <1>c, <1>t DEF KeepsSnapshots
  <1> QED
    BY <1>1, <1>3, <1>4, <1>5, <1>6, <1>7 DEF StepsWell

\* So has superseding one record by another.
LEMMA SupersedeStepsWell ==
  ASSUME IInv, NEW i \in Ids, NEW successor \in Ids, NEW expected,
         SupersedeBy(i, successor, expected)
  PROVE  StepsWell
  <1> USE DEF IInv
  <1> DEFINE heir == records[successor].aliases \cup MovedAliases(i, successor)
  <1>c. /\ i # successor
        /\ records'[successor].gen = records[successor].gen + 1
        /\ records'[successor].lifecycle = records[successor].lifecycle
        /\ records'[successor].facts = records[successor].facts
        /\ records'[successor].aliases = heir
        /\ records'[successor].evidence = records[successor].evidence
        /\ records'[i].gen = records[i].gen + 1
        /\ records'[i].lifecycle = "Superseded"
        /\ records'[i].facts = records[i].facts
        /\ records'[i].aliases = records[i].aliases \ heir
        /\ records'[i].evidence = records[i].evidence
        /\ records'[i].superseded_by = successor
        /\ records'[successor].supersedes = i
        /\ \A j \in Ids \ {i, successor} : records'[j] = records[j]
        /\ generation' = generation + 2
        /\ UNCHANGED <<epoch, minted, local, publishers>>
    BY SupersedeInstalls
  <1> HIDE DEF heir
  <1>0. records[i].lifecycle \in {"Current", "RevalidationRequired"}
    BY DEF SupersedeBy, Supersedable
  <1>1. \A j \in Ids :
          /\ records'[j].evidence = records[j].evidence
          /\ records'[j].facts = records[j].facts
          /\ records'[j] # records[j] => records'[j].gen = records[j].gen + 1
          /\ j # i => records'[j].lifecycle = records[j].lifecycle
    BY <1>c
  <1>2. StepsLegally
    BY <1>0, <1>1, <1>c DEF StepsLegally, TransitionAllowed, Successors, Lifecycles
  <1>3. KeepsClosed
    BY <1>0, <1>1, <1>c DEF KeepsClosed, Closed
  <1>4. SignsUnderLiveClaim
    BY <1>1 DEF SignsUnderLiveClaim
  <1>5. KeepsAuthorityWithEvidence
    <2>1. \A j \in Ids : LiveEvidence(j)' = LiveEvidence(j)
      BY <1>1, <1>c DEF LiveEvidence
    <2>2. \A j \in Ids : IsCurrent(j)' => IsCurrent(j)
      BY <1>1, <1>c DEF IsCurrent
    <2> QED
      BY <2>1, <2>2 DEF KeepsAuthorityWithEvidence
  <1>6. KeepsDurableAuthority
    BY <1>c DEF KeepsDurableAuthority
  <1>7. CountsCommits
    BY <1>1 DEF CountsCommits
  <1>8. HandsAliasesOver
    <2>1. IInv'
      BY SupersedePreservesIInv
    <2> SUFFICES ASSUME NEW a \in UniqueAliases, alias_index[a] # NoId,
                        alias_index'[a] # alias_index[a]
                 PROVE  alias_index[a] = i /\ alias_index'[a] \in {NoId, successor}
      BY <1>0, <1>c DEF HandsAliasesOver
    <2>2. alias_index[a] \in Ids /\ alias_index'[a] \in Ids \cup {NoId}
      BY <2>1 DEF TypeOK
    <2>3. \A j \in Ids : /\ alias_index[a] = j <=> a \in records[j].aliases
                         /\ alias_index'[a] = j <=> a \in records'[j].aliases
      BY <2>1 DEF AliasIndexAgrees
    <2>4. a \in records[alias_index[a]].aliases /\ a \notin records'[alias_index[a]].aliases
      BY <2>2, <2>3
    <2>5. alias_index[a] = i
      BY <1>c, <2>2, <2>4 DEF heir
    <2>6. ASSUME alias_index'[a] \in Ids \ {i, successor} PROVE FALSE
      BY <1>c, <2>3, <2>5, <2>6
    <2> QED
      BY <2>2, <2>5, <2>6
  <1>9. KeepsSnapshots
    <2>1. generation \in Nat
      BY DEF TypeOK
    <2> QED
      BY <1>c, <2>1 DEF KeepsSnapshots
  <1> QED
    BY <1>2, <1>3, <1>4, <1>5, <1>6, <1>7, <1>8, <1>9 DEF StepsWell

\* So has demoting the records that rest on an incarnation some publisher loses.
LEMMA DemotionStepsWell ==
  ASSUME IInv, NEW S \in SUBSET Ids, Demote(S),
         \A i \in S : ~records[i].evidence.durable,
         \A i \in Ids \ S :
           LiveEvidence(i) /\ ~records[i].evidence.durable =>
             /\ epoch' = epoch
             /\ publishers'[records[i].evidence.publisher]
                  = publishers[records[i].evidence.publisher],
         alias_index' = alias_index,
         generation' # generation \/ epoch' # epoch
  PROVE  StepsWell
  <1> USE DEF IInv
  <1>c. \A i \in Ids :
          /\ i \notin S => records'[i] = records[i]
          /\ i \in S =>
               /\ records'[i].gen = records[i].gen + 1
               /\ records'[i].lifecycle = IF IsCurrent(i) THEN "RevalidationRequired"
                                          ELSE records[i].lifecycle
               /\ records'[i].facts = records[i].facts
               /\ records'[i].evidence = [records[i].evidence EXCEPT !.valid = FALSE]
    BY DemoteEffect
  <1>1. ASSUME NEW i \in S
        PROVE  LET ev == records'[i].evidence
                   was == records[i].evidence
               IN  /\ ev.publisher = was.publisher /\ ev.boot = was.boot /\ ev.epoch = was.epoch
                   /\ ev.valid = FALSE
                   /\ [ev EXCEPT !.valid = FALSE] = [was EXCEPT !.valid = FALSE]
    <2>1. records[i].evidence \in Evidence
      BY DEF TypeOK, Record
    <2> QED
      BY <1>c, <2>1 DEF Evidence
  <1>2. StepsLegally
    <2>1. \A i \in Ids : records'[i].lifecycle # records[i].lifecycle =>
            records[i].lifecycle = "Current" /\ records'[i].lifecycle = "RevalidationRequired"
      BY <1>c DEF IsCurrent
    <2>2. TransitionAllowed("Current", "RevalidationRequired")
      BY DEF TransitionAllowed, Successors
    <2>3. "RevalidationRequired" \in Lifecycles /\ "Current" # "Absent"
      BY DEF Lifecycles
    <2> QED
      BY <2>1, <2>2, <2>3 DEF StepsLegally
  <1>3. KeepsClosed
    BY <1>c, <1>1 DEF KeepsClosed, IsCurrent, Closed
  <1>4. SignsUnderLiveClaim
    BY <1>c, <1>1 DEF SignsUnderLiveClaim
  <1>5. KeepsAuthorityWithEvidence
    <2> SUFFICES ASSUME NEW i \in Ids, IsCurrent(i)'
                 PROVE  IsCurrent(i) /\ (LiveEvidence(i) => LiveEvidence(i)')
      BY DEF KeepsAuthorityWithEvidence
    <2>1. i \notin S /\ records'[i] = records[i]
      BY <1>c DEF IsCurrent
    <2> QED
      BY <2>1 DEF IsCurrent, LiveEvidence
  <1>6. KeepsDurableAuthority
    BY <1>c DEF KeepsDurableAuthority
  <1>7. CountsCommits
    BY <1>c DEF CountsCommits
  <1>8. HandsAliasesOver
    BY DEF HandsAliasesOver
  <1>9. KeepsSnapshots
    BY DEF KeepsSnapshots
  <1> QED
    BY <1>2, <1>3, <1>4, <1>5, <1>6, <1>7, <1>8, <1>9 DEF StepsWell

\* So has attaching or fencing one publisher, which is such a demotion.
LEMMA PublisherStepsWell ==
  ASSUME IInv, NEW p \in Publishers, AttachPublisher(p) \/ FencePublisher(p)
  PROVE  StepsWell
  <1> USE DEF IInv
  <1> DEFINE S == Lapsing(p)
  <1>1. S \in SUBSET Ids /\ \A i \in S : ~records[i].evidence.durable
    BY DEF Lapsing
  <1>2. /\ Demote(S) /\ generation' = generation + 1 + Cardinality(S)
        /\ UNCHANGED <<epoch, alias_index>>
        /\ \A q \in Publishers \ {p} : publishers'[q] = publishers[q]
    BY DEF AttachPublisher, FencePublisher, TypeOK
  <1>3. generation' # generation
    <2>1. generation \in Nat /\ Cardinality(S) \in Nat
      BY <1>1, FiniteTables DEF TypeOK
    <2> QED
      BY <1>2, <2>1
  <1>4. ASSUME NEW i \in Ids \ S, LiveEvidence(i), ~records[i].evidence.durable
        PROVE  publishers'[records[i].evidence.publisher]
                 = publishers[records[i].evidence.publisher]
    <2>1. records[i].evidence.publisher \in Publishers
      BY <1>4 DEF LiveEvidence, ValidEvidenceIsSigned
    <2>2. publishers[records[i].evidence.publisher].boot # NoBoot
      BY <1>4, <2>1 DEF LiveEvidence, ActiveIffBound
    <2>3. records[i].evidence.publisher # p
      BY <1>4, <2>2 DEF Lapsing, LiveEvidence
    <2> QED
      BY <1>2, <2>1, <2>3
  <1> HIDE DEF S
  <1> QED
    BY <1>1, <1>2, <1>3, <1>4, DemotionStepsWell

\* So has advancing the epoch.
LEMMA AdvanceStepsWell ==
  ASSUME IInv, AdvanceEpoch
  PROVE  StepsWell
  <1> USE DEF IInv
  <1> DEFINE S == UNION {Lapsing(p) : p \in KnownPublishers}
  <1>1. S \in SUBSET Ids /\ \A i \in S : ~records[i].evidence.durable
    BY DEF Lapsing
  <1>2. Demote(S) /\ alias_index' = alias_index /\ epoch' = epoch + 1
    BY DEF AdvanceEpoch
  <1>3. epoch' # epoch
    BY <1>2 DEF TypeOK
  <1>4. ASSUME NEW i \in Ids \ S, LiveEvidence(i), ~records[i].evidence.durable
        PROVE  FALSE
    <2>1. records[i].evidence.publisher \in Publishers
      BY <1>4 DEF LiveEvidence, ValidEvidenceIsSigned
    <2>2. publishers[records[i].evidence.publisher].boot # NoBoot
      BY <1>4, <2>1 DEF LiveEvidence, ActiveIffBound
    <2>3. i \in Lapsing(records[i].evidence.publisher)
      BY <1>4, <2>2 DEF Lapsing, LiveEvidence
    <2>4. records[i].evidence.publisher \in KnownPublishers
      BY <1>4, <2>1 DEF KnownPublishers, LiveEvidence
    <2> QED
      BY <2>3, <2>4
  <1> HIDE DEF S
  <1> QED
    BY <1>1, <1>2, <1>3, <1>4, DemotionStepsWell

\* So has restarting from the saved state.
LEMMA RestartStepsWell ==
  ASSUME IInv, NEW q \in Publishers \cup {NoPublisher}, Restart(q)
  PROVE  StepsWell
  <1> USE DEF IInv
  <1>1. /\ epoch' # epoch
        /\ \A i \in Ids : records'[i] = RecoveredRecord(records[i])
    BY DEF Restart, TypeOK
  <1>2. ASSUME NEW i \in Ids, records'[i] # records[i]
        PROVE  LET ev == records'[i].evidence
                   was == records[i].evidence
               IN  /\ records[i].lifecycle = "Current" /\ ~was.durable
                   /\ records'[i].lifecycle = "RevalidationRequired"
                   /\ records'[i].gen = records[i].gen
                   /\ records'[i].facts = records[i].facts
                   /\ ev.publisher = was.publisher /\ ev.boot = was.boot /\ ev.epoch = was.epoch
                   /\ ev.valid = FALSE
    <2>1. PICK r \in Record : r = records[i]
      BY DEF TypeOK
    <2>2. r.lifecycle = "Current" /\ ~r.evidence.durable
          /\ records'[i] = [r EXCEPT !.lifecycle = "RevalidationRequired",
                                     !.evidence.valid = FALSE]
      BY <1>1, <1>2, <2>1 DEF RecoveredRecord
    <2>3. r.evidence \in Evidence
      BY DEF Record
    <2>4. /\ records'[i].lifecycle = "RevalidationRequired" /\ records'[i].gen = r.gen
          /\ records'[i].facts = r.facts
          /\ records'[i].evidence = [r.evidence EXCEPT !.valid = FALSE]
      BY <2>2 DEF Record
    <2>5. LET ev == [r.evidence EXCEPT !.valid = FALSE] IN
          /\ ev.publisher = r.evidence.publisher /\ ev.boot = r.evidence.boot
          /\ ev.epoch = r.evidence.epoch /\ ev.valid = FALSE
      BY <2>3 DEF Evidence
    <2> QED
      BY <2>1, <2>2, <2>4, <2>5
  <1>3. StepsLegally
    <2>1. TransitionAllowed("Current", "RevalidationRequired")
      BY DEF TransitionAllowed, Successors
    <2>2. "RevalidationRequired" \in Lifecycles /\ "Current" # "Absent"
      BY DEF Lifecycles
    <2> QED
      BY <1>2, <2>1, <2>2 DEF StepsLegally
  <1>4. KeepsClosed
    BY <1>2 DEF KeepsClosed, Closed
  <1>5. SignsUnderLiveClaim
    BY <1>2 DEF SignsUnderLiveClaim
  <1>6. KeepsAuthorityWithEvidence
    <2> SUFFICES ASSUME NEW i \in Ids, IsCurrent(i)'
                 PROVE  IsCurrent(i) /\ (LiveEvidence(i) => LiveEvidence(i)')
      BY DEF KeepsAuthorityWithEvidence
    <2>1. records'[i] = records[i]
      BY <1>2 DEF IsCurrent
    <2>2. records[i].evidence.durable
      <3>1. records[i].lifecycle = "Current" /\ records[i] \in Record
            /\ records[i] = RecoveredRecord(records[i])
        BY <1>1, <2>1 DEF IsCurrent, TypeOK
      <3>2. ASSUME ~records[i].evidence.durable PROVE FALSE
        <4>1. PICK r \in Record : r = records[i]
          BY <3>1
        <4>2. r = [r EXCEPT !.lifecycle = "RevalidationRequired", !.evidence.valid = FALSE]
          BY <3>1, <3>2, <4>1 DEF RecoveredRecord
        <4>3. r.lifecycle = "RevalidationRequired"
          BY <4>2 DEF Record
        <4> QED
          BY <3>1, <4>1, <4>3
      <3> QED
        BY <3>2
    <2> QED
      BY <2>1, <2>2 DEF IsCurrent, LiveEvidence
  <1>7. KeepsDurableAuthority
    BY <1>2 DEF KeepsDurableAuthority
  <1>8. CountsCommits
    BY <1>1, <1>2 DEF CountsCommits, IsCurrent
  <1>9. HandsAliasesOver
    <2>1. IInv'
      BY RestartPreservesIInv
    <2>2. \A i \in Ids : records'[i].aliases = records[i].aliases
      <3> SUFFICES ASSUME NEW i \in Ids PROVE records'[i].aliases = records[i].aliases
        OBVIOUS
      <3>1. PICK r \in Record : r = records[i]
        BY DEF TypeOK
      <3> QED
        BY <1>1, <3>1 DEF RecoveredRecord, Record
    <2>3. \A a \in UniqueAliases : alias_index'[a] = alias_index[a]
      <3> SUFFICES ASSUME NEW a \in UniqueAliases PROVE alias_index'[a] = alias_index[a]
        OBVIOUS
      <3>1. /\ alias_index[a] \in Ids \cup {NoId} /\ alias_index'[a] \in Ids \cup {NoId}
            /\ \A j \in Ids : alias_index'[a] = j <=> alias_index[a] = j
        BY <2>1, <2>2 DEF AliasIndexAgrees, TypeOK
      <3> QED
        BY <3>1
    <2> QED
      BY <2>3 DEF HandsAliasesOver
  <1>10. KeepsSnapshots
    BY <1>1 DEF KeepsSnapshots
  <1> QED
    BY <1>3, <1>4, <1>5, <1>6, <1>7, <1>8, <1>9, <1>10 DEF StepsWell

\* Every step the registry takes is one of the above.
LEMMA EveryStepWell == IInv /\ [Next]_vars => [StepsWell]_vars
  <1> SUFFICES ASSUME IInv, Next PROVE StepsWell
    OBVIOUS
  <1>1. \/ \E p \in Publishers, boot \in Nat, i \in Ids : \E next :
             /\ publishers[p].state = "Active" /\ publishers[p].boot = boot
             /\ Commit(p, boot, i, next)
        \/ \E i, successor \in Ids, expected \in Expectations :
             SupersedeBy(i, successor, expected)
        \/ \E p \in Publishers : AttachPublisher(p) \/ FencePublisher(p)
        \/ AdvanceEpoch
        \/ \E q \in Publishers \cup {NoPublisher} : Restart(q)
    BY StepKinds
  <1> QED
    BY <1>1, CommitStepsWell, SupersedeStepsWell, PublisherStepsWell, AdvanceStepsWell,
       RestartStepsWell

\* A record changes lifecycle only along the transition table, whichever
\* handler changes it, and never disappears.
THEOREM LifecycleIsLegal == Spec => LifecycleStepsLegal
  <1>1. IInv /\ [Next]_vars => [StepsLegally]_vars
    BY EveryStepWell DEF StepsWell
  <1> QED
    BY <1>1, Invariance, PTL DEF Spec, LifecycleStepsLegal

\* A record that left authority never returns to it, and neither its facts nor
\* its evidence change again, but for the evidence losing its validity.
THEOREM ClosedIsFinal == Spec => ClosedStaysClosed
  <1>1. IInv /\ [Next]_vars => [KeepsClosed]_vars
    BY EveryStepWell DEF StepsWell
  <1> QED
    BY <1>1, Invariance, PTL DEF Spec, ClosedStaysClosed

\* Four kinds of step change the publishers or the epoch.
LEMMA PublisherSteps ==
  ASSUME IInv, Next
  PROVE  \/ UNCHANGED <<epoch, publishers>>
         \/ \E q \in Publishers : AttachPublisher(q) \/ FencePublisher(q)
         \/ AdvanceEpoch
         \/ \E q \in Publishers \cup {NoPublisher} : Restart(q)
  <1>1. ASSUME NEW p \in Publishers, NEW boot \in Nat, NEW i \in Ids, NEW next,
               Commit(p, boot, i, next)
        PROVE  UNCHANGED <<epoch, publishers>>
    BY <1>1 DEF Commit
  <1>2. ASSUME NEW i \in Ids, NEW successor \in Ids, NEW expected \in Expectations,
               SupersedeBy(i, successor, expected)
        PROVE  UNCHANGED <<epoch, publishers>>
    BY <1>2 DEF SupersedeBy
  <1> QED
    BY <1>1, <1>2, StepKinds

\* No step revives a refused claim: an incarnation is bound only when it is
\* minted, and a new epoch ends every claim made in the old one.
LEMMA RefusalsStay == IInv /\ [Next]_vars => [RefusalIsFinal]_vars
  <1> SUFFICES ASSUME IInv, Next,
                      NEW p \in Publishers, NEW boot \in 1..minted, NEW e \in 1..epoch,
                      Authorized(p, boot, e)'
               PROVE  Authorized(p, boot, e)
    BY DEF RefusalIsFinal
  <1> USE DEF IInv
  <1>t. /\ epoch \in Nat /\ minted \in Nat /\ boot <= minted /\ e <= epoch
        /\ publishers \in [Publishers -> Publisher]
    BY DEF TypeOK
  <1>a. publishers'[p].state = "Active" /\ publishers'[p].boot = boot /\ e = epoch'
    BY DEF Authorized
  <1>1. CASE UNCHANGED <<epoch, publishers>>
    BY <1>1, <1>a DEF Authorized
  <1>2. CASE epoch' = epoch + 1
    BY <1>2, <1>a, <1>t
  <1>3. ASSUME NEW q \in Publishers, AttachPublisher(q) PROVE Authorized(p, boot, e)
    <2>1. /\ publishers' = [publishers EXCEPT ![q] = ActiveRecord(publishers[q], minted + 1)]
          /\ epoch' = epoch
      BY <1>3 DEF AttachPublisher
    <2>2. p # q
      BY <1>a, <1>t, <2>1 DEF ActiveRecord
    <2> QED
      BY <1>a, <1>t, <2>1, <2>2 DEF Authorized
  <1>4. ASSUME NEW q \in Publishers, FencePublisher(q) PROVE Authorized(p, boot, e)
    <2>1. /\ publishers' = [publishers EXCEPT ![q] = FencedRecord(publishers[q])]
          /\ epoch' = epoch
      BY <1>4 DEF FencePublisher
    <2>2. p # q
      BY <1>a, <1>t, <2>1 DEF FencedRecord
    <2> QED
      BY <1>a, <1>t, <2>1, <2>2 DEF Authorized
  <1> QED
    BY <1>1, <1>2, <1>3, <1>4, PublisherSteps DEF AdvanceEpoch, Restart

\* A claim of a replaced incarnation or of an earlier epoch never signs a
\* record, and once refused is refused for ever.
THEOREM NoStaleSignature == Spec => StaleClaimNeverSigns
  <1>1. IInv /\ [Next]_vars => [SignsUnderLiveClaim /\ RefusalIsFinal]_vars
    BY EveryStepWell, RefusalsStay DEF StepsWell
  <1> QED
    BY <1>1, Invariance, PTL DEF Spec, StaleClaimNeverSigns

\* A record gains authority only on live evidence or from a conflict, and keeps
\* it past no step that kills its evidence.
THEOREM AuthorityNeedsEvidence == Spec => AuthorityFollowsEvidence
  <1>1. IInv /\ [Next]_vars => [KeepsAuthorityWithEvidence]_vars
    BY EveryStepWell DEF StepsWell
  <1> QED
    BY <1>1, Invariance, PTL DEF Spec, AuthorityFollowsEvidence

\* No fence, attach, epoch advance or restart changes a current record that
\* rests on durable evidence.
THEOREM DurableSurvives == Spec => DurableAuthorityPreserved
  <1>1. IInv /\ [Next]_vars => [KeepsDurableAuthority]_vars
    BY EveryStepWell DEF StepsWell
  <1> QED
    BY <1>1, Invariance, PTL DEF Spec, DurableAuthorityPreserved

\* A record never changes under an unchanged generation, except for the
\* demotion a reload makes in its new epoch, and never skips one.
THEOREM CommitsAreCounted == Spec => OneCommitPerGeneration
  <1>1. IInv /\ [Next]_vars => [CountsCommits]_vars
    BY EveryStepWell DEF StepsWell
  <1> QED
    BY <1>1, Invariance, PTL DEF Spec, OneCommitPerGeneration

\* A unique alias leaves a record only by its release or to the successor that
\* supersedes the record in the same step.
THEOREM AliasHandover == Spec => AliasChangesHands
  <1>1. IInv /\ [Next]_vars => [HandsAliasesOver]_vars
    BY EveryStepWell DEF StepsWell
  <1> QED
    BY <1>1, Invariance, PTL DEF Spec, AliasChangesHands

\* While neither the generation nor the epoch moves, nothing a snapshot shows
\* changes.
THEOREM SnapshotsAreSound == Spec => SnapshotCurrentIsSound
  <1>1. IInv /\ [Next]_vars => [KeepsSnapshots]_vars
    BY EveryStepWell DEF StepsWell
  <1> QED
    BY <1>1, Invariance, PTL DEF Spec, SnapshotCurrentIsSound
=============================================================================
