------------------------ MODULE ReconciliationProofs ------------------------
(***************************************************************************)
(* What resolve_identity answers, in every reachable state and for every   *)
(* set of facts and aliases: an automatic match is sound, one of its seven *)
(* answers is never given, and what registration merges on its strength    *)
(* stays consistent.                                                       *)
(***************************************************************************)
EXTENDS RegistryProofs

\* The classes of records resolve_identity looks at, in its order.
Sharing(f) == {j \in KnownIds : f \in records[j].facts}
Touched(facts) == UNION {Sharing(f) : f \in facts}
Contradicting(facts) == {j \in Touched(facts) : Contradicted(j, facts)}
Hardware(facts) ==
  {j \in Touched(facts) \ Contradicting(facts) : StrongComparable(facts, records[j].facts)}
Holders(aliases) == {alias_index[a] : a \in aliases \cap UniqueAliases} \ {NoId}
-----------------------------------------------------------------------------
(* Lemmas about fact sets *)

\* A set of facts that disagrees with no stored fact merges with a stored set
\* that is single valued into one that is.
LEMMA AgreeingUnion ==
  ASSUME NEW stored \in SUBSET Facts, NEW facts \in SUBSET Facts,
         SingleValued(stored), SingleValued(facts), Contradictions(stored, facts) = {}
  PROVE  SingleValued(stored \cup facts)
  <1>1. ASSUME NEW f \in facts, NEW g \in stored, g[1] = f[1] PROVE f = g
    <2>1. \A h \in stored : h[1] = f[1] => h = g
      BY <1>1 DEF SingleValued
    <2>2. g[2] \in Nat /\ g = <<g[1], g[2]>> /\ f = <<f[1], f[2]>>
      BY FactsAssumption
    <2>3. \A h \in stored : h[1] = f[1] => g[2] <= h[2]
      BY <2>1, <2>2
    <2>4. g[2] = f[2]
      BY <1>1, <2>3 DEF Contradictions
    <2> QED
      BY <1>1, <2>2, <2>4
  <1> QED
    BY <1>1 DEF SingleValued

\* Facts that merge into a single valued set contradict nothing stored.
LEMMA AgreementIsNoContradiction ==
  ASSUME NEW stored \in SUBSET Facts, NEW facts \in SUBSET Facts,
         SingleValued(stored \cup facts)
  PROVE  Contradictions(stored, facts) = {}
  BY DEF Contradictions, SingleValued

\* Two sets one of which contains the other's strong facts share one.
LEMMA ComparableShares ==
  ASSUME NEW facts, NEW stored, StrongComparable(facts, stored)
  PROVE  Strong(facts) \cap Strong(stored) # {}
  BY DEF StrongComparable

\* A record as comparable as this is among those the observation touches.
LEMMA ComparableIsTouched ==
  ASSUME NEW j \in KnownIds, NEW facts, StrongComparable(facts, records[j].facts)
  PROVE  j \in Touched(facts)
  <1>1. PICK f \in Strong(facts) : f \in Strong(records[j].facts)
    BY ComparableShares
  <1>2. f \in facts /\ j \in Sharing(f)
    BY <1>1 DEF Strong, Sharing
  <1> QED
    BY <1>2 DEF Touched

\* The holders of aliases are known records.
LEMMA HoldersKnown ==
  ASSUME TypeOK, AliasIndexAgrees, AbsentIsBlank, NEW aliases
  PROVE  Holders(aliases) \subseteq KnownIds
  BY DEF TypeOK, AliasIndexAgrees, AbsentIsBlank, KnownIds, Holders
-----------------------------------------------------------------------------
(* The answers *)

\* No observation is ever answered proven-alias.  Corroborating an alias takes
\* a strong fact in common with its holder, but a holder with one is found
\* before the aliases are looked at.
LEMMA ProvenAliasUnreachable ==
  ASSUME TypeOK, AliasIndexAgrees, AbsentIsBlank,
         NEW i \in Ids, NEW facts, NEW aliases
  PROVE  ResolveIdentity(i, facts, aliases).match # "ProvenAlias"
  <1> DEFINE holder == TheOne(Holders(aliases))
  <1> SUFFICES ASSUME ResolveIdentity(i, facts, aliases).match = "ProvenAlias"
               PROVE  FALSE
    OBVIOUS
  <1>1. /\ Hardware(facts) = {} /\ Holders(aliases) # {}
        /\ ~Contradicted(holder, facts)
        /\ StrongComparable(facts, records[holder].facts)
    BY DEF ResolveIdentity, Hardware, Contradicting, Touched, Sharing, Holders
  <1>2. holder \in KnownIds
    BY <1>1, HoldersKnown, TheOneIsMember
  <1> HIDE DEF holder
  <1>3. holder \in Touched(facts)
    BY <1>1, <1>2, ComparableIsTouched
  <1>4. holder \in Hardware(facts)
    BY <1>1, <1>3 DEF Hardware, Contradicting
  <1> QED
    BY <1>1, <1>4

\* What the remaining automatic matches and no-match rest on.
LEMMA ResolveAnswers ==
  ASSUME NEW i \in Ids, NEW facts, NEW aliases
  PROVE  LET found == ResolveIdentity(i, facts, aliases) IN
         /\ found.match = "ExactCanonical" =>
              Known(i) /\ ~Contradicted(i, facts) /\ found.target = i
         /\ found.match = "StableHardware" =>
              /\ ~Known(i) /\ IsSingleton(Hardware(facts))
              /\ found.target = TheOne(Hardware(facts))
         /\ found.match = "NoMatch" =>
              ~Known(i) /\ Touched(facts) = {} /\ Holders(aliases) = {}
  BY DEF ResolveIdentity, Hardware, Contradicting, Touched, Sharing, Holders

\* So every answer is sound.
LEMMA AnswersSound ==
  ASSUME TypeOK, AliasIndexAgrees, AbsentIsBlank,
         NEW i \in Ids, NEW facts \in SUBSET Facts, SingleValued(facts),
         NEW aliases \in SUBSET Aliases
  PROVE  MatchesSoundly(i, facts, aliases)
  <1> DEFINE found == ResolveIdentity(i, facts, aliases)
             agrees(j) == SingleValued(records[j].facts \cup facts)
  <1>t. /\ KnownIds \subseteq Ids
        /\ \A j \in KnownIds : Known(j) /\ records[j].facts \in SUBSET Facts
        /\ \A j \in Ids : Known(j) => j \in KnownIds
    BY DEF TypeOK, Record, KnownIds
  <1>a. ASSUME NEW j \in KnownIds, ~Contradicted(j, facts), SingleValued(records[j].facts)
        PROVE  agrees(j)
    BY <1>t, <1>a, AgreeingUnion DEF Contradicted
  <1>b. ASSUME NEW j \in KnownIds, agrees(j), StrongComparable(facts, records[j].facts)
        PROVE  j \in Hardware(facts)
    <2>1. ~Contradicted(j, facts)
      BY <1>b, <1>t, AgreementIsNoContradiction DEF Contradicted
    <2>2. j \in Touched(facts)
      BY <1>b, ComparableIsTouched
    <2> QED
      BY <1>b, <2>1, <2>2 DEF Hardware, Contradicting
  <1>1. CASE found.match = "ExactCanonical"
    <2>1. i \in KnownIds /\ ~Contradicted(i, facts) /\ found.target = i
      BY <1>1, <1>t, ResolveAnswers
    <2>2. SingleValued(records[i].facts) => agrees(i)
      BY <1>a, <2>1
    <2> QED
      BY <1>1, <2>1, <2>2 DEF MatchesSoundly
  <1>2. CASE found.match = "StableHardware"
    <2>1. /\ ~Known(i) /\ IsSingleton(Hardware(facts))
          /\ found.target = TheOne(Hardware(facts))
      BY <1>2, ResolveAnswers
    <2>2. found.target \in Hardware(facts)
      BY <2>1, TheOneIsMember DEF IsSingleton
    <2>3. /\ found.target \in KnownIds /\ ~Contradicted(found.target, facts)
          /\ StrongComparable(facts, records[found.target].facts)
      BY <2>2 DEF Hardware, Contradicting, Touched, Sharing
    <2>4. SingleValued(records[found.target].facts) => agrees(found.target)
      BY <1>a, <2>3
    <2>5. Strong(facts) \cap Strong(records[found.target].facts) # {}
      BY <2>3, ComparableShares
    <2>6. \A j \in KnownIds \ {found.target} :
            ~(agrees(j) /\ StrongComparable(facts, records[j].facts))
      BY <1>b, <2>1, <2>2 DEF IsSingleton
    <2> QED
      BY <1>2, <2>1, <2>3, <2>4, <2>5, <2>6 DEF MatchesSoundly
  <1>3. CASE found.match = "NoMatch"
    <2>1. ~Known(i) /\ Touched(facts) = {} /\ Holders(aliases) = {}
      BY <1>3, ResolveAnswers
    <2>2. \A j \in KnownIds : j # i
      BY <1>t, <2>1
    <2>3. \A j \in KnownIds : records[j].facts \cap facts = {}
      BY <2>1 DEF Touched, Sharing
    <2>4. ASSUME NEW j \in KnownIds, NEW a \in records[j].aliases \cap aliases \cap UniqueAliases
          PROVE  FALSE
      <3>1. alias_index[a] = j /\ j # NoId
        BY <1>t, RegistryAssumption DEF AliasIndexAgrees
      <3> QED
        BY <2>1, <3>1 DEF Holders
    <2> QED
      BY <1>3, <2>2, <2>3, <2>4 DEF MatchesSoundly, AutomaticMatch
  <1>4. CASE found.match \notin {"ExactCanonical", "StableHardware", "NoMatch"}
    BY <1>4, ProvenAliasUnreachable DEF MatchesSoundly, AutomaticMatch
  <1> QED
    BY <1>1, <1>2, <1>3, <1>4

\* In every reachable state an observation merges only into the one known
\* record that agrees with it and shares a strong fact, and is taken for new
\* only when no record refers to it: what resolve_identity promises.
THEOREM ReconciliationSound == Spec => []ObservationsMatchSoundly
  <1>1. IInv => ObservationsMatchSoundly
    BY AnswersSound, RegistryAssumption DEF IInv, ObservationsMatchSoundly
  <1> QED
    BY <1>1, Invariance, PTL

NeverProvenAlias ==
  \A i \in Ids, facts \in SUBSET Facts, aliases \in SUBSET Aliases :
    ResolveIdentity(i, facts, aliases).match # "ProvenAlias"

\* No request, whatever it carries, is answered proven-alias in a reachable
\* state: that branch of resolve_identity is dead.
THEOREM ProvenAliasIsDead == Spec => []NeverProvenAlias
  <1>1. IInv => NeverProvenAlias
    BY ProvenAliasUnreachable DEF IInv, NeverProvenAlias
  <1> QED
    BY <1>1, Invariance, PTL
-----------------------------------------------------------------------------
(* What registration merges *)

\* A registration, through any of its paths, never makes the facts of a record
\* contradict each other.
RegistrationsAgree ==
  \A p \in Publishers, boot \in 1..minted :
    RegisterEntity(p, boot) =>
      \A j \in Ids : SingleValued(records[j].facts) => SingleValued(records'[j].facts)

\* What a registration leaves of the facts of a record: what it had, that merged
\* with facts that contradict none of it, or the request's own if it is new.
FactsRegistered(k) ==
  \/ records'[k].facts = records[k].facts
  \/ \E facts \in FactSets : /\ Known(k) /\ ~Contradicted(k, facts)
                             /\ records'[k].facts = records[k].facts \cup facts
  \/ ~Known(k) /\ records'[k].facts \in FactSets

\* An update is the first or the second.
LEMMA UpdateFacts ==
  ASSUME TypeOK, NEW p, NEW boot, NEW j \in Ids, NEW facts \in FactSets,
         NEW aliases, NEW admission, NEW durable, NEW expected,
         Known(j), ~Contradicted(j, facts),
         UpdateMatched(p, boot, j, facts, aliases, admission, durable, expected),
         NEW k \in Ids
  PROVE  FactsRegistered(k)
  <1> DEFINE r == records[j]
             observed == [r EXCEPT !.aliases = @ \cup aliases]
             admitted == [observed EXCEPT
                            !.lifecycle = AdmittedLifecycle(r.lifecycle, admission),
                            !.facts = @ \cup facts,
                            !.evidence = FillEvidence(p, boot, durable)]
             next == IF admission = "AllowObservation" THEN observed ELSE admitted
  <1>1. r \in Record /\ records \in [Ids -> Record]
    BY DEF TypeOK
  <1>2. /\ next.facts \in {r.facts, r.facts \cup facts}
        /\ [next EXCEPT !.gen = r.gen + 1].facts = next.facts
    BY <1>1 DEF Record
  <1>3. records' = [records EXCEPT ![j] = [next EXCEPT !.gen = r.gen + 1]]
    BY DEF UpdateMatched, InstallRecord
  <1> HIDE DEF next
  <1>4. CASE k # j
    BY <1>1, <1>3, <1>4 DEF FactsRegistered
  <1>5. CASE k = j
    BY <1>1, <1>2, <1>3, <1>5 DEF FactsRegistered
  <1> QED
    BY <1>4, <1>5

\* So is each path of a registration, but for the one that creates.
LEMMA RegisteredFacts ==
  ASSUME IInv, NEW p \in Publishers, NEW boot, RegisterEntity(p, boot), NEW k \in Ids
  PROVE  FactsRegistered(k)
  <1> USE DEF IInv
  <1>t. records \in [Ids -> Record]
    BY DEF TypeOK
  <1>1. PICK i \in Ids, facts \in FactSets, aliases \in AliasSets :
          \/ RegisterConflict(i, facts, aliases)
          \/ \E admission \in Admissions, durable \in EvidenceClasses :
               \/ \E expected \in Expectations :
                    \/ RegisterUpdate(p, boot, i, facts, aliases, admission, durable, expected)
                    \/ RegisterExisting(p, boot, i, facts, aliases, admission, durable, expected)
               \/ \E force_new \in BOOLEAN :
                    RegisterCreate(p, boot, i, facts, aliases, admission, durable, force_new)
    BY DEF RegisterEntity
  <1>2. CASE RegisterConflict(i, facts, aliases)
    <2>1. PICK j \in ResolveIdentity(i, facts, aliases).candidates :
            records' = [records EXCEPT ![j] =
                          [[records[j] EXCEPT !.lifecycle = "Conflicted"]
                             EXCEPT !.gen = records[j].gen + 1]]
      BY <1>2 DEF RegisterConflict, InstallRecord
    <2> QED
      BY <1>t, <2>1 DEF Record, FactsRegistered
  <1>3. ASSUME NEW admission, NEW durable, NEW expected,
               RegisterUpdate(p, boot, i, facts, aliases, admission, durable, expected)
        PROVE  FactsRegistered(k)
    <2> DEFINE target == ResolveIdentity(i, facts, aliases).target
    <2>1. /\ ResolveIdentity(i, facts, aliases).match \in {"ExactCanonical", "StableHardware"}
          /\ UpdateMatched(p, boot, target, facts, aliases, admission, durable, expected)
      BY <1>3, ProvenAliasUnreachable DEF RegisterUpdate, AutomaticMatch
    <2>2. target \in Ids /\ Known(target)
      BY <2>1, ResolveTyped DEF AutomaticMatch
    <2>3. ~Contradicted(target, facts)
      <3>1. CASE ResolveIdentity(i, facts, aliases).match = "ExactCanonical"
        BY <3>1, ResolveAnswers
      <3>2. CASE ResolveIdentity(i, facts, aliases).match = "StableHardware"
        <4>1. Hardware(facts) # {} /\ target = TheOne(Hardware(facts))
          BY <3>2, ResolveAnswers DEF IsSingleton
        <4>2. target \in Hardware(facts)
          BY <4>1, TheOneIsMember
        <4> HIDE DEF target
        <4> QED
          BY <4>2 DEF Hardware, Contradicting
      <3> QED
        BY <2>1, <3>1, <3>2
    <2> HIDE DEF target
    <2> QED
      BY <2>1, <2>2, <2>3, UpdateFacts
  <1>4. ASSUME NEW admission, NEW durable, NEW expected,
               RegisterExisting(p, boot, i, facts, aliases, admission, durable, expected)
        PROVE  FactsRegistered(k)
    BY <1>4, UpdateFacts DEF RegisterExisting
  <1>5. ASSUME NEW admission, NEW durable, NEW force_new,
               RegisterCreate(p, boot, i, facts, aliases, admission, durable, force_new)
        PROVE  FactsRegistered(k)
    <2> DEFINE next == [NoRecord EXCEPT !.lifecycle = TargetLifecycle(admission),
                                        !.facts = facts, !.aliases = aliases,
                                        !.evidence = FillEvidence(p, boot, durable)]
    <2>1. /\ records' = [records EXCEPT ![i] = [next EXCEPT !.gen = records[i].gen + 1]]
          /\ ~Known(i)
      BY <1>5 DEF RegisterCreate, InstallRecord
    <2>2. next.facts = facts /\ [next EXCEPT !.gen = records[i].gen + 1].facts = next.facts
      BY DEF NoRecord
    <2> HIDE DEF next
    <2> QED
      BY <1>t, <2>1, <2>2 DEF FactsRegistered
  <1> QED
    BY <1>1, <1>2, <1>3, <1>4, <1>5

\* None of the three makes facts that agreed contradict each other.
LEMMA RegistrationAgrees ==
  ASSUME IInv, NEW p \in Publishers, NEW boot, RegisterEntity(p, boot),
         NEW k \in Ids, SingleValued(records[k].facts)
  PROVE  SingleValued(records'[k].facts)
  <1>1. records[k].facts \in SUBSET Facts
    BY DEF IInv, TypeOK, Record
  <1>2. \A facts \in FactSets : facts \in SUBSET Facts /\ SingleValued(facts)
    BY RegistryAssumption
  <1> QED
    BY <1>1, <1>2, RegisteredFacts, AgreeingUnion DEF FactsRegistered, Contradicted

\* Whatever path a registration takes, forced ones included, the facts of a
\* record that agreed still agree: only renewing evidence can break a record's
\* facts.
THEOREM RegistrationsMergeAgreement == Spec => [][RegistrationsAgree]_vars
  <1>1. IInv /\ [Next]_vars => [RegistrationsAgree]_vars
    BY RegistrationAgrees DEF RegistrationsAgree
  <1> QED
    BY <1>1, Invariance, PTL DEF Spec
=============================================================================
