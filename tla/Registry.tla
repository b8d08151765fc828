------------------------------ MODULE Registry ------------------------------
(***************************************************************************)
(* The registry core: records, publishers, the unique-alias index and the  *)
(* counters, with one action per mutating entry point of class Registry.   *)
(*                                                                         *)
(* Every mutating method takes the exclusive lock for its whole body, so   *)
(* each call is one atomic step.  A refused call and a replayed attempt    *)
(* change nothing and are stuttering steps; the idempotency log itself is  *)
(* outside this module.  Names, scopes, metadata, provenance and lineage   *)
(* never decide a commit and are left out.                                 *)
(***************************************************************************)
EXTENDS Lifecycle, Identity, Sequences, FiniteSets

CONSTANTS
  Ids,              \* canonical identities
  ClassOf,          \* [Ids -> entity classes]; the class is part of the identity
  Publishers,       \* publisher identities that can be minted
  Aliases,          \* qualified alias keys
  UniqueAliases,    \* the aliases whose namespace promises uniqueness
  NoId, NoPublisher,
  FactSets,         \* fact sets a request can carry
  AliasSets,        \* alias sets a registration can carry
  EvidenceClasses,  \* durability of the evidence a request can carry
  Expectations,     \* expected generations a request can name; 0 names none
  CreateLocal,      \* RegistryOptions::create_local_publisher
  CounterMax,       \* largest generation: the maximum of a 64-bit counter, where
                    \* install_record refuses.  A fence, attach, epoch advance or
                    \* load the code would leave half done there is not modelled
  EpochMax,         \* largest epoch, likewise
  BootMax,          \* bound on the incarnations minted in a behaviour
  MaxEntities, MaxPublishers, MaxFacts, MaxAliases, MaxAliasEntries,
  MaxEnumeration, MaxFencedBoots    \* RegistryLimits

ASSUME RegistryAssumption ==
  /\ IsFiniteSet(Ids) /\ IsFiniteSet(Publishers)
  /\ NoId \notin Ids /\ NoPublisher \notin Publishers
  /\ UniqueAliases \subseteq Aliases
  /\ FactSets \subseteq {F \in SUBSET Facts : SingleValued(F) /\ Cardinality(F) <= MaxFacts}
  /\ AliasSets \subseteq SUBSET Aliases
  /\ EvidenceClasses \subseteq BOOLEAN
  /\ Expectations \subseteq Nat
  /\ CreateLocal \in BOOLEAN
  /\ CounterMax \in Nat \ {0} /\ EpochMax \in Nat \ {0} /\ BootMax \in Nat \ {0}
  /\ {MaxEntities, MaxPublishers, MaxFacts, MaxAliases, MaxAliasEntries,
      MaxEnumeration, MaxFencedBoots} \subseteq Nat \ {0}

VARIABLES
  epoch,        \* coordinator epoch
  generation,   \* registry generation: one per installed record or publisher
  minted,       \* incarnations minted so far; incarnation n is the nth, 0 is null
  local,        \* the embedded publisher of this process, or NoPublisher
  publishers,   \* the publisher table
  records,      \* the record table; lifecycle "Absent" marks no record
  alias_index   \* unique alias -> the record it resolves to, or NoId

vars == <<epoch, generation, minted, local, publishers, records, alias_index>>

NoBoot == 0

Evidence ==
  [publisher : Publishers \cup {NoPublisher}, boot : Nat, epoch : Nat,
   durable : BOOLEAN, valid : BOOLEAN]

Record ==
  [lifecycle : Lifecycles \cup {"Absent"}, gen : Nat, facts : SUBSET Facts,
   aliases : SUBSET Aliases, evidence : Evidence,
   supersedes : Ids \cup {NoId}, superseded_by : Ids \cup {NoId}]

Publisher ==
  [state : {"Unknown", "Active", "Fenced"}, boot : Nat, fenced : Seq(Nat)]

NoEvidence ==
  [publisher |-> NoPublisher, boot |-> NoBoot, epoch |-> 0, durable |-> FALSE,
   valid |-> FALSE]

NoRecord ==
  [lifecycle |-> "Absent", gen |-> 0, facts |-> {}, aliases |-> {},
   evidence |-> NoEvidence, supersedes |-> NoId, superseded_by |-> NoId]

NoPublisherRecord == [state |-> "Unknown", boot |-> NoBoot, fenced |-> <<>>]

Known(i) == records[i].lifecycle # "Absent"
KnownIds == {i \in Ids : Known(i)}
KnownPublishers == {p \in Publishers : publishers[p].state # "Unknown"}
BoundAliases == {a \in UniqueAliases : alias_index[a] # NoId}

TypeOK ==
  /\ epoch \in 1..EpochMax
  /\ generation \in 0..CounterMax
  /\ minted \in 0..BootMax
  /\ local \in Publishers \cup {NoPublisher}
  /\ publishers \in [Publishers -> Publisher]
  /\ records \in [Ids -> Record]
  /\ alias_index \in [UniqueAliases -> Ids \cup {NoId}]
-----------------------------------------------------------------------------
(* Installing records and publishers *)

\* Mutant: index_remove erases an alias whoever it points at now.
IndexApplyUnowned(index, i, previous, next) ==
  [a \in UniqueAliases |->
     IF a \in next.aliases THEN i
     ELSE IF a \in previous.aliases THEN NoId ELSE index[a]]

\* index_apply: drop the previous revision's entries that still point at the
\* record, then point every unique alias of the next revision at it.
IndexApply(index, i, previous, next) ==
  [a \in UniqueAliases |->
     IF a \in next.aliases THEN i
     ELSE IF a \in previous.aliases /\ index[a] = i THEN NoId
     ELSE index[a]]

\* Mutant: the exhaustion check forgets the installs it is about to make.
RoomUnchecked(n) == generation <= CounterMax

\* A mutation that installs n records or publishers needs n generations.
Room(n) == generation + n <= CounterMax

\* Mutant: a commit that does not count in the registry generation.
InstallRecordUncounted(i, next) ==
  /\ Room(1)
  /\ records[i].gen < CounterMax
  /\ records' = [records EXCEPT ![i] = [next EXCEPT !.gen = records[i].gen + 1]]
  /\ alias_index' = IndexApply(alias_index, i, records[i], next)
  /\ UNCHANGED generation

\* install_record: one registry generation and one record generation per commit.
InstallRecord(i, next) ==
  /\ Room(1)
  /\ records[i].gen < CounterMax
  /\ generation' = generation + 1
  /\ records' = [records EXCEPT ![i] = [next EXCEPT !.gen = records[i].gen + 1]]
  /\ alias_index' = IndexApply(alias_index, i, records[i], next)

\* A fenced incarnation is remembered; the oldest are dropped beyond the bound.
Remember(fenced, boot) ==
  IF boot = NoBoot \/ \E k \in DOMAIN fenced : fenced[k] = boot THEN fenced
  ELSE LET longer == Append(fenced, boot)
           drop == IF Len(longer) > MaxFencedBoots THEN Len(longer) - MaxFencedBoots ELSE 0
       IN  SubSeq(longer, drop + 1, Len(longer))

FencedRecord(publisher) ==
  [state |-> "Fenced", boot |-> NoBoot, fenced |-> Remember(publisher.fenced, publisher.boot)]

ActiveRecord(publisher, boot) ==
  [state |-> "Active", boot |-> boot, fenced |-> Remember(publisher.fenced, publisher.boot)]

\* Mutant: only current records are looked at.
LapsingCurrent(p) ==
  {i \in Ids : /\ records[i].lifecycle = "Current"
               /\ records[i].evidence.publisher = p
               /\ publishers[p].boot # NoBoot
               /\ records[i].evidence.boot = publishers[p].boot
               /\ ~records[i].evidence.durable}

\* Mutant: durable evidence lapses with the incarnation too.
LapsingDurable(p) ==
  {i \in Ids : /\ records[i].evidence.publisher = p
               /\ publishers[p].boot # NoBoot
               /\ records[i].evidence.boot = publishers[p].boot}

\* The records whose evidence rests on the incarnation publisher p is losing.
Lapsing(p) ==
  {i \in Ids : /\ records[i].evidence.publisher = p
               /\ publishers[p].boot # NoBoot
               /\ records[i].evidence.boot = publishers[p].boot
               /\ ~records[i].evidence.durable}

\* Mutant: the evidence is invalidated but the authority stays.
DemotedStillCurrent(r) == [r EXCEPT !.gen = @ + 1, !.evidence.valid = FALSE]

\* Mutant: a demotion that keeps the record generation.
DemotedSilently(r) ==
  [r EXCEPT !.evidence.valid = FALSE,
            !.lifecycle = IF @ = "Current" THEN "RevalidationRequired" ELSE @]

\* demote_records_of_publisher: the evidence is invalidated and a current
\* record falls back to RevalidationRequired.  Facts and aliases stay, so the
\* index does too.
Demoted(r) ==
  [r EXCEPT !.gen = @ + 1,
            !.evidence.valid = FALSE,
            !.lifecycle = IF @ = "Current" THEN "RevalidationRequired" ELSE @]

Demote(S) == records' = [i \in Ids |-> IF i \in S THEN Demoted(records[i]) ELSE records[i]]
-----------------------------------------------------------------------------
(* Authority *)

\* Mutant: any incarnation of an attached publisher is accepted.
AuthorizedAnyBoot(p, boot, e) == e = epoch /\ publishers[p].state = "Active"

\* check_authority: the claim names the current epoch, an attached publisher
\* and the incarnation bound to it now.
Authorized(p, boot, e) ==
  /\ e = epoch
  /\ publishers[p].state = "Active"
  /\ boot = publishers[p].boot

\* attach_publisher, for a fresh identity or one the registry knows.  The
\* incarnation it replaces is fenced and its records demoted in the same step.
AttachPublisher(p) ==
  LET lapsing == Lapsing(p) IN
  /\ publishers[p].state = "Unknown" => Cardinality(KnownPublishers) < MaxPublishers
  /\ minted < BootMax
  /\ Room(1 + Cardinality(lapsing))
  /\ minted' = minted + 1
  /\ publishers' = [publishers EXCEPT ![p] = ActiveRecord(publishers[p], minted + 1)]
  /\ generation' = generation + 1 + Cardinality(lapsing)
  /\ Demote(lapsing)
  /\ UNCHANGED <<epoch, local, alias_index>>

\* fence_publisher: by identity alone, whatever incarnation it holds.
FencePublisher(p) ==
  LET lapsing == Lapsing(p) IN
  /\ publishers[p].state # "Unknown"
  /\ Room(1 + Cardinality(lapsing))
  /\ publishers' = [publishers EXCEPT ![p] = FencedRecord(publishers[p])]
  /\ generation' = generation + 1 + Cardinality(lapsing)
  /\ Demote(lapsing)
  /\ UNCHANGED <<epoch, minted, local, alias_index>>

\* detach_publisher: the same fence, asked for under a live claim.
DetachPublisher(p, boot, e) == Authorized(p, boot, e) /\ FencePublisher(p)

\* advance_epoch: every known publisher is fenced, then the embedded publisher
\* is rebound to a fresh incarnation.
AdvanceEpoch ==
  LET lapsing == UNION {Lapsing(p) : p \in KnownPublishers}
      rebound == IF CreateLocal THEN 1 ELSE 0
      installs == Cardinality(KnownPublishers) + Cardinality(lapsing) + rebound
  IN
  /\ epoch < EpochMax
  /\ minted + rebound <= BootMax
  /\ Room(installs)
  /\ epoch' = epoch + 1
  /\ minted' = minted + rebound
  /\ publishers' =
       [p \in Publishers |->
          IF p \notin KnownPublishers THEN publishers[p]
          ELSE IF CreateLocal /\ p = local
               THEN ActiveRecord(FencedRecord(publishers[p]), minted + 1)
               ELSE FencedRecord(publishers[p])]
  /\ generation' = generation + installs
  /\ Demote(lapsing)
  /\ UNCHANGED <<local, alias_index>>
-----------------------------------------------------------------------------
(* Restart: save(), a new process, load() *)

\* What read_state_file accepts.  save() writes the states it refuses as well,
\* and no process can load them again.
Loadable ==
  /\ Cardinality(KnownPublishers) <= MaxPublishers
  /\ \A p \in KnownPublishers : Len(publishers[p].fenced) <= MaxFencedBoots
  /\ \A i \in KnownIds :
       /\ SingleValued(records[i].facts)
       /\ Cardinality(records[i].facts) <= MaxFacts
       /\ records[i].lifecycle = "Current" => records[i].evidence.valid

\* load(): a publisher comes back fenced.  Its last incarnation joins the
\* fenced list, which is not trimmed here.
RecoveredPublisher(publisher) ==
  [state |-> "Fenced", boot |-> NoBoot,
   fenced |-> IF publisher.boot = NoBoot
                 \/ \E k \in DOMAIN publisher.fenced : publisher.fenced[k] = publisher.boot
              THEN publisher.fenced ELSE Append(publisher.fenced, publisher.boot)]

\* load(): a record keeps its generation; a current record keeps its authority
\* only on durable evidence.
RecoveredRecord(r) ==
  IF r.lifecycle = "Current" /\ ~r.evidence.durable
  THEN [r EXCEPT !.lifecycle = "RevalidationRequired", !.evidence.valid = FALSE]
  ELSE r

\* Mutant: the new process counts generations from its own start.
RecoveredGenerationRestarted(own) == own

\* load(): the registry generation resumes from the larger of the stored one
\* and the one the new process reached (1 if it bound an embedded publisher).
RecoveredGeneration(own) == IF generation > own THEN generation ELSE own

\* The process stops after a save and a new one loads the file: the epoch
\* moves on, every stored publisher is fenced, every record is re-installed
\* with its generation preserved, and a new embedded publisher is minted.
Restart(q) ==
  LET rebound == IF CreateLocal THEN 1 ELSE 0
      installs == Cardinality(KnownPublishers) + Cardinality(KnownIds)
      base == RecoveredGeneration(rebound)
  IN
  /\ Loadable
  /\ IF CreateLocal THEN q \in Publishers \ KnownPublishers ELSE q = NoPublisher
  /\ epoch < EpochMax
  /\ minted + rebound <= BootMax
  /\ base + installs <= CounterMax
  /\ epoch' = epoch + 1
  /\ minted' = minted + rebound
  /\ local' = q
  /\ publishers' =
       [p \in Publishers |->
          IF p = q THEN ActiveRecord(NoPublisherRecord, minted + 1)
          ELSE IF p \in KnownPublishers THEN RecoveredPublisher(publishers[p])
          ELSE publishers[p]]
  /\ generation' = base + installs
  /\ records' = [i \in Ids |-> RecoveredRecord(records[i])]
  /\ alias_index' = [a \in UniqueAliases |->
                       IF \E i \in Ids : a \in records[i].aliases
                       THEN CHOOSE i \in Ids : a \in records[i].aliases ELSE NoId]
-----------------------------------------------------------------------------
(* What the record mutations share *)

FillEvidence(p, boot, durable) ==
  [publisher |-> p, boot |-> boot, epoch |-> epoch, durable |-> durable, valid |-> TRUE]

\* Mutant: a generation the record has already left is accepted.
GenerationGateLoose(i, expected) == expected <= records[i].gen

\* generation_gate: compare-and-commit, skipped when no generation is named.
GenerationGate(i, expected) == expected = 0 \/ expected = records[i].gen

\* Another record that still counts holds the same non-null hardware identity.
HardwareTaken(i, facts) ==
  /\ HardwareIdentity(facts) # {}
  /\ \E j \in KnownIds \ {i} :
       /\ HardwareIdentity(records[j].facts) = HardwareIdentity(facts)
       /\ records[j].lifecycle \notin HardwareReleased

AliasesBoundElsewhere(aliases, i) ==
  \E a \in aliases \cap UniqueAliases : alias_index[a] \notin {NoId, i}

(* Reconciliation: the decision registration and reconcile_observation share *)

IsSingleton(S) == S # {} /\ \A x, y \in S : x = y
TheOne(S) == CHOOSE x \in S : TRUE

Contradicted(i, facts) == Contradictions(records[i].facts, facts) # {}

\* resolve_identity.  Candidates come back in identity order; identities are
\* digests, so that order is arbitrary and the set is what matters.
ResolveIdentity(i, facts, aliases) ==
  LET Answer(match, target, candidates) ==
        [match |-> match, target |-> target, candidates |-> candidates]
      sharing(f) == {j \in KnownIds : f \in records[j].facts}
      touched == UNION {sharing(f) : f \in facts}
      contradicting == {j \in touched : Contradicted(j, facts)}
      hardware == {j \in touched \ contradicting : StrongComparable(facts, records[j].facts)}
      holders == {alias_index[a] : a \in aliases \cap UniqueAliases} \ {NoId}
      holder == TheOne(holders)
  IN
  IF Known(i)
    THEN IF Contradicted(i, facts) THEN Answer("Conflicting", NoId, {i})
         ELSE Answer("ExactCanonical", i, {i})
  ELSE IF \E f \in facts : Cardinality(sharing(f)) > MaxEnumeration
    THEN Answer("Ambiguous", NoId, {})
  ELSE IF hardware # {}
    THEN IF IsSingleton(hardware) THEN Answer("StableHardware", TheOne(hardware), hardware)
         ELSE Answer("Ambiguous", NoId, hardware)
  ELSE IF contradicting # {} THEN Answer("Conflicting", NoId, contradicting)
  ELSE IF holders # {}
    THEN IF ~IsSingleton(holders) THEN Answer("Ambiguous", NoId, holders)
         ELSE IF Contradicted(holder, facts) THEN Answer("Conflicting", NoId, holders)
         ELSE IF StrongComparable(facts, records[holder].facts)
              THEN Answer("ProvenAlias", holder, holders)
              ELSE Answer("ProbableInsufficient", holder, holders)
  ELSE IF touched # {} THEN Answer("ProbableInsufficient", NoId, touched)
  ELSE Answer("NoMatch", NoId, {})

\* The matches registration merges without being told to.
AutomaticMatch == {"ExactCanonical", "StableHardware", "ProvenAlias"}
-----------------------------------------------------------------------------
(* register_entity: its three committing paths *)

\* Conflict path (record_conflict set, no forced resolution): one contradicted
\* candidate is frozen.  No generation gate, and the evidence is untouched.
RegisterConflict(i, facts, aliases) ==
  LET found == ResolveIdentity(i, facts, aliases) IN
  /\ Cardinality(aliases) <= MaxAliases
  /\ found.match = "Conflicting"
  /\ \E j \in found.candidates :
       /\ AcceptsMutation(records[j].lifecycle)
       /\ TransitionAllowed(records[j].lifecycle, "Conflicted")
       /\ InstallRecord(j, [records[j] EXCEPT !.lifecycle = "Conflicted"])
  /\ UNCHANGED <<epoch, minted, local, publishers>>

\* Mutant: a candidate admission demotes whatever it finds.
AdmittedLifecycleCandidate(l, admission) ==
  CASE admission = "AllowObservation" -> l
    [] admission = "AllowCandidate" -> "Candidate"
    [] admission = "RequireCurrent" -> "Current"

\* The lifecycle an update moves a record to, if the admission allows one.
AdmittedLifecycle(l, admission) ==
  CASE admission = "AllowObservation" -> l
    [] admission = "AllowCandidate" -> IF l = "Discovered" THEN "Candidate" ELSE l
    [] admission = "RequireCurrent" -> "Current"

\* Update path, on the matched record or on the one ForceExisting names.  An
\* observation only adds aliases; no duplicate-hardware or table-wide alias
\* check is made here.
UpdateMatched(p, boot, j, facts, aliases, admission, durable, expected) ==
  LET r == records[j]
      observed == [r EXCEPT !.aliases = @ \cup aliases]
      admitted == [observed EXCEPT
                     !.lifecycle = AdmittedLifecycle(r.lifecycle, admission),
                     !.facts = @ \cup facts,
                     !.evidence = FillEvidence(p, boot, durable)]
  IN
  /\ AcceptsMutation(r.lifecycle)
  /\ GenerationGate(j, expected)
  /\ ~AliasesBoundElsewhere(aliases, j)
  /\ admission = "RequireCurrent" /\ r.lifecycle # "Current"
       => TransitionAllowed(r.lifecycle, "Current")
  /\ Cardinality(observed.aliases) <= MaxAliases
  /\ InstallRecord(j, IF admission = "AllowObservation" THEN observed ELSE admitted)
  /\ UNCHANGED <<epoch, minted, local, publishers>>

RegisterUpdate(p, boot, i, facts, aliases, admission, durable, expected) ==
  LET found == ResolveIdentity(i, facts, aliases) IN
  /\ found.match \in AutomaticMatch
  /\ UpdateMatched(p, boot, found.target, facts, aliases, admission, durable, expected)

RegisterExisting(p, boot, j, facts, aliases, admission, durable, expected) ==
  /\ Known(j) /\ ~Contradicted(j, facts)
  /\ UpdateMatched(p, boot, j, facts, aliases, admission, durable, expected)

TargetLifecycle(admission) ==
  CASE admission = "RequireCurrent" -> "Current"
    [] admission = "AllowCandidate" -> "Candidate"
    [] admission = "AllowObservation" -> "Discovered"

\* Creation path: nothing matched, or ForceNew overrode an unproven match.
RegisterCreate(p, boot, i, facts, aliases, admission, durable, force_new) ==
  LET match == ResolveIdentity(i, facts, aliases).match IN
  /\ \/ match = "NoMatch"
     \/ force_new /\ match \in {"Ambiguous", "ProbableInsufficient", "Conflicting"}
  /\ ~Known(i)
  /\ ~HardwareTaken(i, facts)
  /\ ~AliasesBoundElsewhere(aliases, i)
  /\ Cardinality(aliases) <= MaxAliases
  /\ Cardinality(KnownIds) < MaxEntities
  /\ Cardinality(BoundAliases) + Cardinality(aliases) <= MaxAliasEntries
  /\ InstallRecord(i, [NoRecord EXCEPT !.lifecycle = TargetLifecycle(admission),
                                       !.facts = facts, !.aliases = aliases,
                                       !.evidence = FillEvidence(p, boot, durable)])
  /\ UNCHANGED <<epoch, minted, local, publishers>>
-----------------------------------------------------------------------------
(* The other record mutations *)

\* The fact set an evidence request leaves behind.  Merging is a plain union:
\* nothing compares the new facts with the stored ones.
ResultingFacts(i, facts, merge) == IF merge THEN records[i].facts \cup facts ELSE facts

UpdateEvidence(p, boot, i, facts, merge, durable, expected) ==
  LET result == ResultingFacts(i, facts, merge) IN
  /\ Known(i) /\ AcceptsMutation(records[i].lifecycle)
  /\ GenerationGate(i, expected)
  /\ ~HardwareTaken(i, result)
  /\ InstallRecord(i, [records[i] EXCEPT !.facts = result,
                                         !.evidence = FillEvidence(p, boot, durable)])
  /\ UNCHANGED <<epoch, minted, local, publishers>>

Revalidate(p, boot, i, facts, merge, durable, expected) ==
  LET result == ResultingFacts(i, facts, merge) IN
  /\ records[i].lifecycle \in {"Current", "RevalidationRequired"}
  /\ GenerationGate(i, expected)
  /\ ~HardwareTaken(i, result)
  /\ InstallRecord(i, [records[i] EXCEPT !.facts = result, !.lifecycle = "Current",
                                         !.evidence = FillEvidence(p, boot, durable)])
  /\ UNCHANGED <<epoch, minted, local, publishers>>

AttachAlias(i, a, expected) ==
  /\ Known(i) /\ AcceptsMutation(records[i].lifecycle)
  /\ GenerationGate(i, expected)
  /\ a \notin records[i].aliases
  /\ ~AliasesBoundElsewhere({a}, i)
  /\ Cardinality(records[i].aliases) + 1 <= MaxAliases
  /\ a \in UniqueAliases => Cardinality(BoundAliases) + 1 <= MaxAliasEntries
  /\ InstallRecord(i, [records[i] EXCEPT !.aliases = @ \cup {a}])
  /\ UNCHANGED <<epoch, minted, local, publishers>>

DetachAlias(i, a, expected) ==
  /\ Known(i) /\ AcceptsAliasRelease(records[i].lifecycle)
  /\ GenerationGate(i, expected)
  /\ a \in records[i].aliases
  /\ InstallRecord(i, [records[i] EXCEPT !.aliases = @ \ {a}])
  /\ UNCHANGED <<epoch, minted, local, publishers>>

Supersedable(i, expected) ==
  /\ records[i].lifecycle \in {"Current", "RevalidationRequired"}
  /\ GenerationGate(i, expected)

\* supersede_entity without a successor: the record keeps its aliases.
SupersedeAlone(i, expected) ==
  /\ Supersedable(i, expected)
  /\ InstallRecord(i, [records[i] EXCEPT !.lifecycle = "Superseded", !.superseded_by = NoId])
  /\ UNCHANGED <<epoch, minted, local, publishers>>

\* The aliases a successor takes over: all it lacks and nobody else holds.
MovedAliases(i, successor) ==
  {a \in records[i].aliases \ records[successor].aliases :
     a \in UniqueAliases => alias_index[a] \in {NoId, i}}

\* supersede_entity with a successor: two installs, the successor's first, so
\* the aliases pass from one record to the other inside one step.  Room for
\* both is checked first; that no record generation can be exhausted in
\* between is what the invariant RecordBehindRegistry says.
SupersedeBy(i, successor, expected) ==
  LET moved == MovedAliases(i, successor)
      heir == [records[successor] EXCEPT !.gen = @ + 1, !.aliases = @ \cup moved,
                                         !.supersedes = i]
      closed == [records[i] EXCEPT !.gen = @ + 1, !.lifecycle = "Superseded",
                                   !.superseded_by = successor,
                                   !.aliases = @ \ heir.aliases]
      handed_over == IndexApply(alias_index, successor, records[successor], heir)
  IN
  /\ Supersedable(i, expected)
  /\ Room(2)
  /\ successor # i /\ Known(successor)
  /\ records[successor].lifecycle \notin {"Tombstoned", "Rejected"}
  /\ ClassOf[successor] = ClassOf[i]
  /\ Cardinality(heir.aliases) <= MaxAliases
  /\ generation' = generation + 2
  /\ records' = [records EXCEPT ![successor] = heir, ![i] = closed]
  /\ alias_index' = IndexApply(handed_over, i, records[i], closed)
  /\ UNCHANGED <<epoch, minted, local, publishers>>

Retire(i, expected) ==
  /\ Known(i) /\ GenerationGate(i, expected)
  /\ TransitionAllowed(records[i].lifecycle, "Retired")
  /\ InstallRecord(i, [records[i] EXCEPT !.lifecycle = "Retired"])
  /\ UNCHANGED <<epoch, minted, local, publishers>>

Tombstone(i, expected) ==
  /\ Known(i) /\ GenerationGate(i, expected)
  /\ TransitionAllowed(records[i].lifecycle, "Tombstoned")
  /\ InstallRecord(i, [records[i] EXCEPT !.lifecycle = "Tombstoned", !.evidence.valid = FALSE])
  /\ UNCHANGED <<epoch, minted, local, publishers>>

\* resolve_conflict: KeepCurrent, Retire or Reject.  Keeping the record
\* restores its authority without looking at its evidence.
ResolveConflict(i, destination, expected) ==
  /\ records[i].lifecycle = "Conflicted"
  /\ GenerationGate(i, expected)
  /\ InstallRecord(i, [records[i] EXCEPT
                         !.lifecycle = destination,
                         !.evidence.valid = @ /\ destination = "Current"])
  /\ UNCHANGED <<epoch, minted, local, publishers>>
-----------------------------------------------------------------------------
(* The state machine *)

\* Registry::Registry, with or without the embedded publisher.
Init ==
  /\ epoch = 1
  /\ records = [i \in Ids |-> NoRecord]
  /\ alias_index = [a \in UniqueAliases |-> NoId]
  /\ IF CreateLocal
     THEN /\ local \in Publishers
          /\ minted = 1 /\ generation = 1
          /\ publishers = [p \in Publishers |->
                             IF p = local THEN ActiveRecord(NoPublisherRecord, 1)
                             ELSE NoPublisherRecord]
     ELSE /\ local = NoPublisher
          /\ minted = 0 /\ generation = 0
          /\ publishers = [p \in Publishers |-> NoPublisherRecord]

Admissions == {"RequireCurrent", "AllowCandidate", "AllowObservation"}

RegisterEntity(p, boot) ==
  \E i \in Ids, facts \in FactSets, aliases \in AliasSets :
    \/ RegisterConflict(i, facts, aliases)
    \/ \E admission \in Admissions, durable \in EvidenceClasses :
         \/ \E expected \in Expectations :
              \/ RegisterUpdate(p, boot, i, facts, aliases, admission, durable, expected)
              \/ RegisterExisting(p, boot, i, facts, aliases, admission, durable, expected)
         \/ \E force_new \in BOOLEAN :
              RegisterCreate(p, boot, i, facts, aliases, admission, durable, force_new)

RenewEvidence(p, boot) ==
  \E i \in Ids, facts \in FactSets, merge \in BOOLEAN, durable \in EvidenceClasses,
     expected \in Expectations :
    \/ UpdateEvidence(p, boot, i, facts, merge, durable, expected)
    \/ Revalidate(p, boot, i, facts, merge, durable, expected)

ChangeRecord ==
  \E i \in Ids, expected \in Expectations :
    \/ \E a \in Aliases : AttachAlias(i, a, expected) \/ DetachAlias(i, a, expected)
    \/ SupersedeAlone(i, expected)
    \/ \E successor \in Ids : SupersedeBy(i, successor, expected)
    \/ Retire(i, expected)
    \/ Tombstone(i, expected)
    \/ \E destination \in {"Current", "Retired", "Rejected"} :
         ResolveConflict(i, destination, expected)

\* A record mutation needs a live claim: check_authority comes first.
Mutation(p, boot, e) ==
  /\ Authorized(p, boot, e)
  /\ RegisterEntity(p, boot) \/ RenewEvidence(p, boot) \/ ChangeRecord

\* Claims range over every incarnation and epoch that ever existed, so stale
\* ones are presented too.
Next ==
  \/ \E p \in Publishers, boot \in 1..minted, e \in 1..epoch :
       Mutation(p, boot, e) \/ DetachPublisher(p, boot, e)
  \/ \E p \in Publishers : AttachPublisher(p) \/ FencePublisher(p)
  \/ AdvanceEpoch
  \/ \E q \in Publishers \cup {NoPublisher} : Restart(q)

Spec == Init /\ [][Next]_vars
-----------------------------------------------------------------------------
(* Safety invariants *)

\* The alias index is exactly what the record table implies, so a unique alias
\* never sits on two records: the consistency Registry::validate_state
\* recomputes.  At risk wherever one step touches two records (supersede) or
\* relies on index_remove erasing only its own entries.
AliasIndexAgrees ==
  \A a \in UniqueAliases, i \in Ids :
    alias_index[a] = i <=> a \in records[i].aliases

\* No record generation runs ahead of the registry generation, across commits,
\* demotions and the generation-preserving reload.  This is why install_record
\* cannot fail between supersede_entity's two installs once the registry has
\* room for both.
RecordBehindRegistry == \A i \in Ids : records[i].gen <= generation

\* Valid process-bound evidence of this epoch names the incarnation bound to
\* its publisher now: fencing, reattaching, advancing the epoch and reloading
\* each leave no record behind that still claims a replaced incarnation.
ValidEvidenceIsBound ==
  \A i \in Ids :
    LET ev == records[i].evidence IN
    ev.valid /\ ~ev.durable /\ ev.epoch = epoch
      => /\ publishers[ev.publisher].state = "Active"
         /\ publishers[ev.publisher].boot = ev.boot

\* What reconciliation may answer about an observation.  A match registration
\* merges names one known record.  Its stored facts agree with the observation,
\* whole set against whole set; if it was not found under its own identity it
\* shares a strong fact, and no other record that agrees is as comparable.  An
\* observation matches nothing only if no record shares a fact or holds one of
\* its unique aliases.
MatchesSoundly(i, facts, aliases) ==
  LET found == ResolveIdentity(i, facts, aliases)
      agrees(j) == SingleValued(records[j].facts \cup facts)
  IN
  /\ found.match \in AutomaticMatch =>
       /\ found.target \in KnownIds
       /\ SingleValued(records[found.target].facts) => agrees(found.target)
       /\ found.target # i =>
            /\ ~Known(i)
            /\ Strong(facts) \cap Strong(records[found.target].facts) # {}
            /\ \A j \in KnownIds \ {found.target} :
                 ~(agrees(j) /\ StrongComparable(facts, records[j].facts))
  /\ found.match = "NoMatch" =>
       \A j \in KnownIds : /\ j # i
                           /\ records[j].facts \cap facts = {}
                           /\ records[j].aliases \cap aliases \cap UniqueAliases = {}

\* In every state an observation is merged only into the one record that
\* carries the same thing, and taken for new only when nothing refers to it.
\* At risk because resolve_identity looks at records one fact at a time, stops
\* at the first class that answers, and reads the first stored fact of a slot.
ObservationsMatchSoundly ==
  \A i \in Ids, facts \in FactSets, aliases \in AliasSets :
    MatchesSoundly(i, facts, aliases)
-----------------------------------------------------------------------------
(* Action properties: what every step does, then that every step does it *)

\* A record's evidence that carries authority now: a durable act, or the word
\* of an incarnation attached in this epoch.
LiveEvidence(i) ==
  LET ev == records[i].evidence IN
  /\ ev.valid
  /\ ev.durable \/ /\ ev.epoch = epoch
                   /\ publishers[ev.publisher].state = "Active"
                   /\ publishers[ev.publisher].boot = ev.boot

IsCurrent(i) == records[i].lifecycle = "Current"

KeepsAuthorityWithEvidence ==
  \A i \in Ids :
     /\ ~IsCurrent(i) /\ IsCurrent(i)' =>
          LiveEvidence(i)' \/ records[i].lifecycle = "Conflicted"
     /\ IsCurrent(i) /\ LiveEvidence(i) /\ IsCurrent(i)' => LiveEvidence(i)'

\* Authority and evidence move together: a record gains authority only on live
\* evidence or by the resolution of its conflict, and a record that holds it
\* on live evidence never keeps it past a fence, reattach, epoch advance or
\* restart that kills the evidence.
AuthorityFollowsEvidence == [][KeepsAuthorityWithEvidence]_vars

KeepsDurableAuthority ==
  publishers' # publishers \/ epoch' # epoch =>
     \A i \in Ids : IsCurrent(i) /\ records[i].evidence.durable
                      => records'[i] = records[i]

\* Durable administrative evidence is preserved: no authority event (fence,
\* attach, epoch advance, restart) changes a current record that rests on it.
DurableAuthorityPreserved == [][KeepsDurableAuthority]_vars

SignsUnderLiveClaim ==
  \A i \in Ids :
     LET ev == records'[i].evidence
         was == records[i].evidence
     IN  <<ev.publisher, ev.boot, ev.epoch>> # <<was.publisher, was.boot, was.epoch>>
           => /\ publishers[ev.publisher].state = "Active"
              /\ publishers[ev.publisher].boot = ev.boot
              /\ ev.epoch = epoch /\ epoch' = epoch

\* A claim, once refused, is refused for ever.
RefusalIsFinal ==
  \A p \in Publishers, boot \in 1..minted, e \in 1..epoch :
     ~Authorized(p, boot, e) => ~Authorized(p, boot, e)'

\* A stale claim never signs a record: evidence is only ever written under the
\* incarnation its publisher holds, in the current epoch, and an incarnation
\* once replaced or fenced is "fenced permanently", across reattaching, epoch
\* advances and restarts, though publishers come back with only a bounded list
\* of the incarnations they lost.
StaleClaimNeverSigns == [][SignsUnderLiveClaim /\ RefusalIsFinal]_vars

StepsLegally ==
  \A i \in Ids :
     LET from == records[i].lifecycle
         to == records'[i].lifecycle
     IN  from # to =>
           IF from = "Absent" THEN to \in {"Current", "Candidate", "Discovered"}
           ELSE to \in Lifecycles /\ TransitionAllowed(from, to)

\* Whatever the handler, a record changes lifecycle only along the transition
\* table, and no record ever disappears.
LifecycleStepsLegal == [][StepsLegally]_vars

KeepsClosed ==
  \A i \in Ids : records[i].lifecycle \in Closed =>
     /\ records'[i].lifecycle \in Closed
     /\ records'[i].facts = records[i].facts
     /\ [records'[i].evidence EXCEPT !.valid = FALSE]
          = [records[i].evidence EXCEPT !.valid = FALSE]
     /\ records'[i].evidence.valid => records[i].evidence.valid

\* A record that left authority never returns to it, its evidence is frozen
\* but for losing validity, and its facts never change again.
ClosedStaysClosed == [][KeepsClosed]_vars

CountsCommits ==
  \A i \in Ids : records'[i] # records[i] =>
     \/ records'[i].gen = records[i].gen + 1
     \/ epoch' # epoch /\ records'[i].gen = records[i].gen /\ ~IsCurrent(i)'

\* One commit per expected generation: a record never changes under an
\* unchanged generation and never skips one.  The reload is the exception: it
\* may demote under the old generation, in a new epoch.
OneCommitPerGeneration == [][CountsCommits]_vars

HandsAliasesOver ==
  \A a \in UniqueAliases :
     LET from == alias_index[a]
         to == alias_index'[a]
     IN  from # NoId /\ to # from =>
           /\ records[from].lifecycle \notin {"Tombstoned", "Rejected"}
           /\ to # NoId => /\ records'[from].lifecycle = "Superseded"
                           /\ records'[from].superseded_by = to
                           /\ records'[to].supersedes = from

\* A unique alias is taken from a record only by its release or by handing it
\* to the successor that supersedes the record, in that same step; a
\* tombstoned record keeps its aliases for ever.
AliasChangesHands == [][HandsAliasesOver]_vars

KeepsSnapshots ==
  generation' = generation /\ epoch' = epoch =>
     UNCHANGED <<records, alias_index, publishers>>

\* A snapshot taken at an unchanged (generation, epoch) is still the state:
\* nothing a snapshot shows changes without one of the two moving.
SnapshotCurrentIsSound == [][KeepsSnapshots]_vars
-----------------------------------------------------------------------------
(* Properties the code's own words promise and its behaviour breaks *)

\* "Durable identity survives restart.  Live authority does not" and fencing
\* "moves to RevalidationRequired": no record is current on dead evidence.
NoDeadAuthority == \A i \in Ids : IsCurrent(i) => LiveEvidence(i)

\* A state the registry saves can be loaded: decode_record refuses a record that
\* "declares more facts than the configured bound", "contains contradictory
\* facts" or "is current but its evidence is marked invalid", read_publisher one
\* with "more fenced incarnations than the configured bound", and decode_state a
\* file that "declares more publishers than the configured bound".
SavedStateLoads == Loadable
=============================================================================
