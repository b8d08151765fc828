-------------------------- MODULE AttemptLogProofs --------------------------
(***************************************************************************)
(* What the idempotency log promises, for every set of requests and        *)
(* attempts and every bound of the log.  The log rides on the registry:    *)
(* every step of AttemptSpec is a step of the registry or leaves it alone, *)
(* so the registry's theorems carry over, and compare-and-commit follows   *)
(* from the fact that record generations only grow.                        *)
(***************************************************************************)
EXTENDS AttemptLog, RegistryStepProofs

Commits == [attempt : Attempts, request : Requests]

\* Every entry of the log is the digest of something that was committed.
EntriesWereCommitted ==
  \A p \in Publishers : \A k \in DOMAIN log[p] : \E j \in DOMAIN commits[p] :
    /\ commits[p][j].attempt = log[p][k].attempt
    /\ Digest(commits[p][j].request) = log[p][k].digest

\* A record has left behind every generation that a commit, other than a
\* registration, named.
GenerationsPassed ==
  \A c \in CommitIndexes :
    LET r == Committed(c) IN
    r.op # "register" /\ r.expected # 0 => records[r.target].gen > r.expected

AttemptInv ==
  /\ IInv
  /\ log \in [Publishers -> Seq(Entries)]
  /\ commits \in [Publishers -> Seq(Commits)]
  /\ LogTypeOK
  /\ LatestCommitRemembered
  /\ EntriesWereCommitted
  /\ GenerationsPassed
  /\ OneCommitPerExpectation
-----------------------------------------------------------------------------
(* The log's helpers *)

\* But for its last entry, t is a run of s.
RunOf(t, s) ==
  \E d \in Nat : \A k \in 1..(Len(t) - 1) : k + d \in 1..Len(s) /\ t[k] = s[k + d]

\* Recording an entry keeps the bound, puts the entry last and keeps in order
\* the newest of the others.
LEMMA RecordedShape ==
  ASSUME NEW s \in Seq(Entries), NEW x \in Entries, Len(s) <= MaxLog,
         NEW t, t = Recorded(s, x)
  PROVE  /\ t \in Seq(Entries)
         /\ Len(t) \in 1..MaxLog
         /\ t[Len(t)] = x
         /\ RunOf(t, s)
  <1> DEFINE longer == Append(s, x)
             drop == IF Len(longer) > MaxLog THEN Len(longer) - MaxLog ELSE 0
             cut == SubSeq(longer, drop + 1, Len(longer))
  <1>1. /\ longer \in Seq(Entries) /\ Len(longer) = Len(s) + 1 /\ Len(s) \in Nat
        /\ longer[Len(longer)] = x
        /\ \A k \in 1..Len(s) : longer[k] = s[k]
    BY AppendProperties, LenProperties
  <1>2. MaxLog \in Nat \ {0}
    BY AttemptAssumption
  <1>3. drop \in Nat /\ drop + 1 <= Len(longer) /\ Len(longer) - drop <= MaxLog
    BY <1>1, <1>2
  <1> HIDE DEF longer, drop
  <1>4. \A k \in (drop + 1)..Len(longer) : longer[k] \in Entries
    BY <1>1, <1>3, ElementOfSeq
  <1>5. /\ cut \in Seq(Entries) /\ Len(cut) = Len(longer) - drop
        /\ \A k \in 1..(Len(longer) - drop) : cut[k] = longer[drop + k]
    BY <1>1, <1>3, <1>4, SubSeqProperties
  <1> HIDE DEF cut
  <1>6. Len(cut) \in 1..MaxLog /\ cut[Len(cut)] = x
    BY <1>1, <1>2, <1>3, <1>5
  <1>7. \A k \in 1..(Len(cut) - 1) : k + drop \in 1..Len(s) /\ cut[k] = s[k + drop]
    BY <1>1, <1>3, <1>5
  <1>8. t = cut
    BY DEF Recorded, cut, longer, drop
  <1>9. RunOf(cut, s)
    BY <1>3, <1>7 DEF RunOf
  <1> QED
    BY <1>5, <1>6, <1>8, <1>9

\* A reload keeps the entries and only changes their order.
LEMMA ReloadedShape ==
  ASSUME NEW s \in Seq(Entries), NEW t \in Reloaded(s)
  PROVE  /\ t \in Seq(Entries)
         /\ Len(t) = Len(s)
         /\ \A k \in DOMAIN s : \E l \in DOMAIN t : t[l] = s[k]
         /\ \A l \in DOMAIN t : \E k \in DOMAIN s : t[l] = s[k]
         /\ \A k, l \in DOMAIN t : t[k].attempt = t[l].attempt => k = l
  <1> DEFINE held == {s[k] : k \in DOMAIN s}
  <1>1. DOMAIN s = 1..Len(s) /\ Len(s) \in Nat
    BY LenProperties
  <1>2. \A k \in DOMAIN s : s[k] \in Entries
    BY <1>1, ElementOfSeq
  <1>3. /\ t \in [DOMAIN s -> held] /\ {t[k] : k \in DOMAIN t} = held
        /\ \A k, l \in DOMAIN t : k < l => t[k].attempt < t[l].attempt
    BY DEF Reloaded
  <1>4. t \in [1..Len(s) -> Entries]
    BY <1>1, <1>2, <1>3
  <1>5. t \in Seq(Entries) /\ Len(t) = Len(s) /\ DOMAIN t = 1..Len(s)
    BY <1>1, <1>4, SeqDef, LenProperties
  <1>6. \A k \in DOMAIN t : t[k].attempt \in Nat
    BY <1>4, <1>5, AttemptAssumption DEF Entries
  <1>7. \A k, l \in DOMAIN t : t[k].attempt = t[l].attempt => k = l
    <2> SUFFICES ASSUME NEW k \in DOMAIN t, NEW l \in DOMAIN t, k # l
                 PROVE  t[k].attempt # t[l].attempt
      OBVIOUS
    <2>1. k < l \/ l < k
      BY <1>1, <1>5
    <2>2. t[k].attempt < t[l].attempt \/ t[l].attempt < t[k].attempt
      BY <1>3, <2>1
    <2> QED
      BY <1>6, <2>2
  <1>8. \A k \in DOMAIN s : \E l \in DOMAIN t : t[l] = s[k]
    BY <1>3
  <1>9. \A l \in DOMAIN t : \E k \in DOMAIN s : t[l] = s[k]
    BY <1>3
  <1> QED
    BY <1>5, <1>7, <1>8, <1>9
-----------------------------------------------------------------------------
(* The registry under the log *)

\* What a request asks for is a mutation of the registry.
LEMMA ApplyIsMutation ==
  ASSUME NEW p, NEW boot, NEW e, NEW r \in Requests,
         Authorized(p, boot, e), Apply(p, boot, r)
  PROVE  Mutation(p, boot, e)
  <1>0. r.target \in Ids /\ r.expected \in Expectations
    BY AttemptAssumption
  <1>1. CASE r.op = "register" /\ Register(p, boot, r)
    <2>1. /\ r.facts \in FactSets /\ r.aliases \in AliasSets
          /\ r.admission \in Admissions /\ r.durable \in EvidenceClasses
      BY <1>1, AttemptAssumption
    <2>2. CASE RegisterConflict(r.target, r.facts, r.aliases)
      BY <1>0, <2>1, <2>2 DEF Mutation, RegisterEntity
    <2>3. CASE RegisterUpdate(p, boot, r.target, r.facts, r.aliases, r.admission, r.durable,
                              r.expected)
      BY <1>0, <2>1, <2>3 DEF Mutation, RegisterEntity
    <2>4. CASE RegisterCreate(p, boot, r.target, r.facts, r.aliases, r.admission, r.durable,
                              r.resolution = "ForceNew")
      BY <1>0, <2>1, <2>4 DEF Mutation, RegisterEntity
    <2>5. CASE r.resolution \in Ids /\ RegisterExisting(p, boot, r.resolution, r.facts,
                                          r.aliases, r.admission, r.durable, r.expected)
      BY <1>0, <2>1, <2>5 DEF Mutation, RegisterEntity
    <2> QED
      BY <1>1, <2>2, <2>3, <2>4, <2>5 DEF Register
  <1>2. CASE \/ /\ r.op = "update_evidence"
                /\ UpdateEvidence(p, boot, r.target, r.facts, r.merge_facts, r.durable,
                                  r.expected)
             \/ /\ r.op = "revalidate"
                /\ Revalidate(p, boot, r.target, r.facts, r.merge_facts, r.durable, r.expected)
    <2>1. r.facts \in FactSets /\ r.merge_facts \in BOOLEAN /\ r.durable \in EvidenceClasses
      BY <1>2, AttemptAssumption
    <2> QED
      BY <1>0, <1>2, <2>1 DEF Mutation, RenewEvidence
  <1>3. CASE \/ r.op = "attach_alias" /\ AttachAlias(r.target, r.alias, r.expected)
             \/ r.op = "detach_alias" /\ DetachAlias(r.target, r.alias, r.expected)
    <2>1. r.alias \in Aliases
      BY <1>3, AttemptAssumption
    <2> QED
      BY <1>0, <1>3, <2>1 DEF Mutation, ChangeRecord
  <1>4. CASE \/ SupersedeAlone(r.target, r.expected)
             \/ r.successor \in Ids /\ SupersedeBy(r.target, r.successor, r.expected)
             \/ Retire(r.target, r.expected) \/ Tombstone(r.target, r.expected)
    BY <1>0, <1>4 DEF Mutation, ChangeRecord
  <1>5. CASE r.op = "resolve_conflict" /\ ResolveConflict(r.target, r.destination, r.expected)
    <2>1. r.destination \in {"Current", "Retired", "Rejected"}
      BY <1>5, AttemptAssumption
    <2> QED
      BY <1>0, <1>5, <2>1 DEF Mutation, ChangeRecord
  <1> QED
    BY <1>1, <1>2, <1>3, <1>4, <1>5 DEF Apply

\* A commit, other than a registration, finds the record at the generation it
\* names and leaves it at the next one.
LEMMA ApplyGated ==
  ASSUME TypeOK, AliasIndexAgrees, NEW p \in Publishers, NEW boot \in Nat,
         NEW r \in Requests, Apply(p, boot, r), r.op # "register", r.expected # 0
  PROVE  records[r.target].gen = r.expected /\ records'[r.target].gen = r.expected + 1
  <1> DEFINE i == r.target
  <1>0. i \in Ids
    BY AttemptAssumption
  <1>1. ASSUME GenerationGate(i, r.expected), NEW next, Commit(p, boot, i, next)
        PROVE  records[i].gen = r.expected /\ records'[i].gen = r.expected + 1
    BY <1>0, <1>1, CommitInstalls DEF GenerationGate
  <1>2. CASE \/ /\ r.op = "update_evidence"
                /\ UpdateEvidence(p, boot, i, r.facts, r.merge_facts, r.durable, r.expected)
             \/ /\ r.op = "revalidate"
                /\ Revalidate(p, boot, i, r.facts, r.merge_facts, r.durable, r.expected)
    <2>1. r.facts \in FactSets /\ r.merge_facts \in BOOLEAN /\ r.durable \in EvidenceClasses
      BY <1>2, AttemptAssumption
    <2>2. \E next : Commit(p, boot, i, next)
      BY <1>0, <1>2, <2>1, EvidenceShape
    <2>3. GenerationGate(i, r.expected)
      BY <1>2 DEF UpdateEvidence, Revalidate
    <2> QED
      BY <1>1, <2>2, <2>3
  <1>3. CASE \/ r.op = "attach_alias" /\ AttachAlias(i, r.alias, r.expected)
             \/ r.op = "detach_alias" /\ DetachAlias(i, r.alias, r.expected)
    <2>1. r.alias \in Aliases
      BY <1>3, AttemptAssumption
    <2>2. \E next : Commit(p, boot, i, next)
      BY <1>0, <1>3, <2>1, AliasShape
    <2>3. GenerationGate(i, r.expected)
      BY <1>3 DEF AttachAlias, DetachAlias
    <2> QED
      BY <1>1, <2>2, <2>3
  <1>4. CASE SupersedeAlone(i, r.expected) \/ Retire(i, r.expected)
    <2>1. \E next : Commit(p, boot, i, next)
      BY <1>0, <1>4, ClosingShape
    <2>2. GenerationGate(i, r.expected)
      BY <1>4 DEF SupersedeAlone, Supersedable, Retire
    <2> QED
      BY <1>1, <2>1, <2>2
  <1>5. CASE r.successor \in Ids /\ SupersedeBy(i, r.successor, r.expected)
    <2>1. records'[i].gen = records[i].gen + 1
      BY <1>0, <1>5, SupersedeInstalls
    <2>2. GenerationGate(i, r.expected)
      BY <1>5 DEF SupersedeBy, Supersedable
    <2> QED
      BY <2>1, <2>2 DEF GenerationGate
  <1>6. CASE Tombstone(i, r.expected)
    <2>1. \E next : Commit(p, boot, i, next)
      BY <1>0, <1>6, TombstoneShape
    <2> QED
      BY <1>1, <1>6, <2>1 DEF Tombstone
  <1>7. CASE r.op = "resolve_conflict" /\ ResolveConflict(i, r.destination, r.expected)
    <2>1. r.destination \in {"Current", "Retired", "Rejected"}
      BY <1>7, AttemptAssumption
    <2>2. \E next : Commit(p, boot, i, next)
      BY <1>0, <1>7, <2>1, ResolutionShape
    <2> QED
      BY <1>1, <1>7, <2>2 DEF ResolveConflict
  <1> QED
    BY <1>2, <1>3, <1>4, <1>5, <1>6, <1>7 DEF Apply

\* No step takes a record back to a generation it has left.
LEMMA GenerationsGrow ==
  ASSUME IInv, [Next]_vars, IInv', NEW i \in Ids
  PROVE  records'[i].gen >= records[i].gen
  <1>1. records[i].gen \in Nat /\ records'[i].gen \in Nat
    BY DEF IInv, TypeOK, Record
  <1>2. CASE UNCHANGED vars
    BY <1>1, <1>2 DEF vars
  <1>3. CASE Next /\ ~UNCHANGED vars
    <2>1. CountsCommits
      BY <1>3, EveryStepWell DEF StepsWell
    <2> QED
      BY <1>1, <2>1 DEF CountsCommits
  <1> QED
    BY <1>2, <1>3

\* Every step of the log is a step of the registry under it.
LEMMA StepIsRegistryStep == AttemptNext => Next
  <1> SUFFICES ASSUME AttemptNext PROVE Next
    OBVIOUS
  <1>1. CASE \E p \in Publishers, boot \in 1..minted, e \in 1..epoch : Attempt(p, boot, e)
    <2>1. PICK p \in Publishers, boot \in 1..minted, e \in 1..epoch : Attempt(p, boot, e)
      BY <1>1
    <2>2. PICK n \in Attempts, r \in Requests : CommitAttempt(p, boot, e, n, r)
      BY <2>1 DEF Attempt
    <2>3. Mutation(p, boot, e)
      BY <2>2, ApplyIsMutation DEF CommitAttempt
    <2> QED
      BY <2>3 DEF Next
  <1>2. CASE AuthorityEvent
    BY <1>2 DEF AuthorityEvent, Next
  <1>3. CASE \E q \in Publishers \cup {NoPublisher} : Reload(q)
    BY <1>3 DEF Reload, Next
  <1> QED
    BY <1>1, <1>2, <1>3 DEF AttemptNext

\* The registry with its log implements the registry: the log refuses some
\* mutations and adds none.
THEOREM LogImplementsRegistry == AttemptSpec => Spec
  <1>1. AttemptInit => Init
    BY DEF AttemptInit
  <1>2. [AttemptNext]_<<vars, attempt_vars>> => [Next]_vars
    BY StepIsRegistryStep
  <1> QED
    BY <1>1, <1>2, PTL DEF AttemptSpec, Spec
-----------------------------------------------------------------------------
(* The invariant *)

\* The log and the history start empty.
LEMMA InitAttemptInv == AttemptInit => AttemptInv
  <1> SUFFICES ASSUME AttemptInit PROVE AttemptInv
    OBVIOUS
  <1>1. /\ log = [p \in Publishers |-> <<>>] /\ commits = [p \in Publishers |-> <<>>]
        /\ IInv
    BY InitIInv DEF AttemptInit
  <1>2. /\ <<>> \in Seq(Entries) /\ <<>> \in Seq(Commits)
        /\ Len(<<>>) = 0 /\ DOMAIN <<>> = {}
    BY EmptySeq
  <1>3. 0 <= MaxLog
    BY AttemptAssumption
  <1>4. CommitIndexes = {}
    BY <1>1, <1>2 DEF CommitIndexes
  <1>5. LogTypeOK
    BY <1>1, <1>2, <1>3 DEF LogTypeOK
  <1>6. LatestCommitRemembered /\ EntriesWereCommitted
    BY <1>1, <1>2 DEF LatestCommitRemembered, EntriesWereCommitted
  <1>7. GenerationsPassed /\ OneCommitPerExpectation
    BY <1>4 DEF GenerationsPassed, OneCommitPerExpectation
  <1> QED
    BY <1>1, <1>2, <1>5, <1>6, <1>7 DEF AttemptInv

\* The history is made of requests.
LEMMA CommittedTyped ==
  ASSUME commits \in [Publishers -> Seq(Commits)], NEW c \in CommitIndexes
  PROVE  Committed(c) \in Requests
  <1>1. PICK q \in Publishers : \E k \in DOMAIN commits[q] : c = <<q, k>>
    BY DEF CommitIndexes
  <1>2. PICK k \in DOMAIN commits[q] : c = <<q, k>>
    BY <1>1
  <1>3. commits[q] \in Seq(Commits) /\ DOMAIN commits[q] = 1..Len(commits[q])
    BY LenProperties
  <1>4. commits[q][k] \in Commits
    BY <1>3, ElementOfSeq
  <1>5. Committed(c) = commits[q][k].request
    BY <1>2 DEF Committed
  <1> QED
    BY <1>4, <1>5 DEF Commits

\* While nothing is committed, no generation is named again and none is left
\* for an earlier one.
LEMMA HistoryKept ==
  ASSUME AttemptInv, [Next]_vars, IInv', UNCHANGED commits
  PROVE  GenerationsPassed' /\ OneCommitPerExpectation'
  <1> USE DEF AttemptInv
  <1>1. CommitIndexes' = CommitIndexes /\ \A c : Committed(c)' = Committed(c)
    BY DEF CommitIndexes, Committed
  <1>2. OneCommitPerExpectation'
    BY <1>1 DEF OneCommitPerExpectation
  <1>3. ASSUME NEW c \in CommitIndexes,
               Committed(c).op # "register", Committed(c).expected # 0
        PROVE  records'[Committed(c).target].gen > Committed(c).expected
    <2>1. Committed(c) \in Requests
      BY CommittedTyped
    <2>2. Committed(c).target \in Ids /\ Committed(c).expected \in Nat
      BY <2>1, AttemptAssumption, RegistryAssumption
    <2>3. /\ records[Committed(c).target].gen \in Nat
          /\ records'[Committed(c).target].gen \in Nat
      BY <2>2 DEF IInv, TypeOK, Record
    <2>4. records'[Committed(c).target].gen >= records[Committed(c).target].gen
      BY <2>2, GenerationsGrow
    <2> QED
      BY <1>3, <2>2, <2>3, <2>4 DEF GenerationsPassed
  <1> QED
    BY <1>1, <1>2, <1>3 DEF GenerationsPassed

\* A commit of publisher p appends to its history and to its log, and to no
\* other publisher's.
LEMMA CommitPreservesLog ==
  ASSUME AttemptInv, NEW p \in Publishers, NEW boot, NEW e, NEW n \in Attempts,
         NEW r \in Requests, CommitAttempt(p, boot, e, n, r)
  PROVE  /\ log' \in [Publishers -> Seq(Entries)]
         /\ commits' \in [Publishers -> Seq(Commits)]
         /\ LogTypeOK' /\ LatestCommitRemembered' /\ EntriesWereCommitted'
  <1> USE DEF AttemptInv
  <1> DEFINE entry == [attempt |-> n, digest |-> Digest(r)]
             done == [attempt |-> n, request |-> r]
             old == log[p]
             new == Recorded(old, entry)
             past == commits[p]
             history == Append(past, done)
  <1>1. entry \in Entries /\ done \in Commits
    BY DEF Entries, Commits
  <1>2. /\ old \in Seq(Entries) /\ past \in Seq(Commits) /\ Len(old) <= MaxLog
        /\ DOMAIN old = 1..Len(old) /\ DOMAIN past = 1..Len(past)
        /\ Len(old) \in Nat /\ Len(past) \in Nat
    BY LenProperties DEF LogTypeOK
  <1>3. /\ history \in Seq(Commits) /\ Len(history) = Len(past) + 1
        /\ history[Len(history)] = done
        /\ \A k \in DOMAIN past : history[k] = past[k]
        /\ DOMAIN history = 1..Len(history)
    BY <1>1, <1>2, AppendProperties, LenProperties
  <1>4. /\ new \in Seq(Entries) /\ Len(new) \in 1..MaxLog /\ new[Len(new)] = entry
        /\ RunOf(new, old)
        /\ DOMAIN new = 1..Len(new)
    <2> HIDE DEF entry, old, past, done, history
    <2>1. old \in Seq(Entries) /\ entry \in Entries /\ Len(old) <= MaxLog
      BY <1>1, <1>2
    <2>2. new = Recorded(old, entry)
      OBVIOUS
    <2> HIDE DEF new
    <2>3. /\ new \in Seq(Entries) /\ Len(new) \in 1..MaxLog /\ new[Len(new)] = entry
          /\ RunOf(new, old)
      BY <2>1, <2>2, RecordedShape
    <2> QED
      BY <2>3, LenProperties
  <1>5. /\ log' = [log EXCEPT ![p] = new] /\ commits' = [commits EXCEPT ![p] = history]
        /\ \A k \in DOMAIN old : old[k].attempt # n
    BY DEF CommitAttempt, Remembered
  <1> HIDE DEF entry, done, old, new, past, history
  <1>6. /\ log'[p] = new /\ commits'[p] = history
        /\ \A q \in Publishers \ {p} : log'[q] = log[q] /\ commits'[q] = commits[q]
    BY <1>5
  <1>7. /\ log' \in [Publishers -> Seq(Entries)]
        /\ commits' \in [Publishers -> Seq(Commits)]
    BY <1>3, <1>4, <1>5
  <1>8. PICK d \in Nat : \A k \in 1..(Len(new) - 1) :
          k + d \in 1..Len(old) /\ new[k] = old[k + d]
    BY <1>4 DEF RunOf
  <1>9. entry.attempt = n /\ entry.digest = Digest(r) /\ done.attempt = n /\ done.request = r
    BY DEF entry, done
  <1>10. LogTypeOK'
    <2>1. \A k \in 1..(Len(new) - 1) : new[k].attempt # n
      BY <1>2, <1>5, <1>8
    <2>2. ASSUME NEW k \in DOMAIN new, NEW l \in DOMAIN new, new[k].attempt = new[l].attempt
          PROVE  k = l
      <3>1. CASE k = Len(new) \/ l = Len(new)
        BY <1>4, <1>9, <2>1, <2>2, <3>1
      <3>2. CASE k # Len(new) /\ l # Len(new)
        <4>1. k \in 1..(Len(new) - 1) /\ l \in 1..(Len(new) - 1)
          BY <1>4, <3>2
        <4>2. old[k + d].attempt = old[l + d].attempt /\ k + d \in DOMAIN old /\ l + d \in DOMAIN old
          BY <1>2, <1>8, <2>2, <4>1
        <4>3. k + d = l + d
          BY <4>2 DEF LogTypeOK, old
        <4> QED
          BY <4>1, <4>3
      <3> QED
        BY <3>1, <3>2
    <2>3. Len(new) <= MaxLog
      BY <1>4, AttemptAssumption
    <2> SUFFICES ASSUME NEW q \in Publishers
                 PROVE  /\ log'[q] \in Seq(Entries) /\ Len(log'[q]) <= MaxLog
                        /\ \A k, l \in DOMAIN log'[q] :
                             log'[q][k].attempt = log'[q][l].attempt => k = l
      BY DEF LogTypeOK
    <2>4. CASE q = p
      BY <1>4, <1>6, <2>2, <2>3, <2>4
    <2>5. CASE q # p
      BY <1>6, <2>5 DEF LogTypeOK
    <2> QED
      BY <2>4, <2>5
  <1>11. LatestCommitRemembered'
    <2>1. Len(new) \in DOMAIN new /\ new[Len(new)] = entry
      BY <1>4
    <2>2. \E k \in DOMAIN new : new[k] = [attempt |-> history[Len(history)].attempt,
                                          digest |-> Digest(history[Len(history)].request)]
      BY <1>3, <1>9, <2>1 DEF entry
    <2>3. ASSUME NEW q \in Publishers, commits'[q] # <<>>
          PROVE  \E k \in DOMAIN log'[q] :
                   log'[q][k] = [attempt |-> commits'[q][Len(commits'[q])].attempt,
                                 digest |-> Digest(commits'[q][Len(commits'[q])].request)]
      <3>1. CASE q = p
        BY <1>6, <2>2, <3>1
      <3>2. CASE q # p
        <4>1. log'[q] = log[q] /\ commits'[q] = commits[q]
          BY <1>6, <3>2
        <4> QED
          BY <2>3, <4>1 DEF LatestCommitRemembered
      <3> QED
        BY <3>1, <3>2
    <2> QED
      BY <2>3 DEF LatestCommitRemembered
  <1>12. EntriesWereCommitted'
    <2>1. ASSUME NEW k \in DOMAIN new
          PROVE  \E j \in DOMAIN history : /\ history[j].attempt = new[k].attempt
                                           /\ Digest(history[j].request) = new[k].digest
      <3>1. CASE k = Len(new)
        <4>1. Len(history) \in DOMAIN history
          BY <1>2, <1>3
        <4> QED
          BY <1>3, <1>4, <1>9, <3>1, <4>1
      <3>2. CASE k # Len(new)
        <4>1. k + d \in DOMAIN old /\ new[k] = old[k + d]
          BY <1>2, <1>4, <1>8, <3>2
        <4>2. PICK j \in DOMAIN past : /\ past[j].attempt = old[k + d].attempt
                                       /\ Digest(past[j].request) = old[k + d].digest
          BY <4>1 DEF EntriesWereCommitted, old, past
        <4>3. j \in DOMAIN history /\ history[j] = past[j]
          BY <1>2, <1>3
        <4> QED
          BY <4>1, <4>2, <4>3
      <3> QED
        BY <3>1, <3>2
    <2> SUFFICES ASSUME NEW q \in Publishers
                 PROVE  \A k \in DOMAIN log'[q] : \E j \in DOMAIN commits'[q] :
                          /\ commits'[q][j].attempt = log'[q][k].attempt
                          /\ Digest(commits'[q][j].request) = log'[q][k].digest
      BY DEF EntriesWereCommitted
    <2>2. CASE q = p
      BY <1>6, <2>1, <2>2
    <2>3. CASE q # p
      <3>1. log'[q] = log[q] /\ commits'[q] = commits[q]
        BY <1>6, <2>3
      <3> QED
        BY <3>1 DEF EntriesWereCommitted
    <2> QED
      BY <2>2, <2>3
  <1> QED
    BY <1>7, <1>10, <1>11, <1>12

\* A commit under an expected generation is the first under it, for the record
\* had left every generation named before.
LEMMA CommitPreservesHistory ==
  ASSUME AttemptInv, IInv', NEW p \in Publishers, NEW boot \in 1..minted, NEW e \in 1..epoch,
         NEW n \in Attempts, NEW r \in Requests, CommitAttempt(p, boot, e, n, r)
  PROVE  GenerationsPassed' /\ OneCommitPerExpectation'
  <1> USE DEF AttemptInv
  <1>0. PICK here : here = <<p, Len(commits[p]) + 1>>
    OBVIOUS
  <1>1. /\ commits[p] \in Seq(Commits) /\ Len(commits[p]) \in Nat
        /\ \A q \in Publishers : DOMAIN commits[q] = 1..Len(commits[q])
    BY LenProperties
  <1>2. Next
    <2>1. Mutation(p, boot, e)
      BY ApplyIsMutation DEF CommitAttempt
    <2> QED
      BY <2>1 DEF Next
  <1>3. [attempt |-> n, request |-> r] \in Commits
    BY DEF Commits
  <1>4. /\ commits' = [commits EXCEPT ![p] = Append(@, [attempt |-> n, request |-> r])]
        /\ \A q \in Publishers \ {p} : commits'[q] = commits[q]
        /\ commits'[p] = Append(commits[p], [attempt |-> n, request |-> r])
    BY DEF CommitAttempt
  <1>5. /\ DOMAIN commits'[p] = 1..(Len(commits[p]) + 1)
        /\ commits'[p][Len(commits[p]) + 1] = [attempt |-> n, request |-> r]
        /\ \A k \in 1..Len(commits[p]) : commits'[p][k] = commits[p][k]
    BY <1>1, <1>3, <1>4, AppendProperties, LenProperties
  <1>6. CommitIndexes' = CommitIndexes \cup {here}
    <2>1. ASSUME NEW q \in Publishers, NEW k
          PROVE  k \in DOMAIN commits'[q] <=>
                   k \in DOMAIN commits[q] \/ (q = p /\ k = Len(commits[p]) + 1)
      BY <1>1, <1>4, <1>5
    <2> QED
      BY <1>0, <2>1 DEF CommitIndexes
  <1>7. \A c \in CommitIndexes : Committed(c)' = Committed(c) /\ Committed(c) \in Requests
    <2> SUFFICES ASSUME NEW q \in Publishers, NEW k \in DOMAIN commits[q]
                 PROVE  /\ commits'[q][k].request = commits[q][k].request
                        /\ commits[q][k].request \in Requests
      BY DEF CommitIndexes, Committed
    <2>1. commits'[q][k] = commits[q][k]
      BY <1>1, <1>4, <1>5
    <2>2. commits[q][k] \in Commits
      BY <1>1, ElementOfSeq
    <2> QED
      BY <2>1, <2>2 DEF Commits
  <1>8. Committed(here)' = r
    BY <1>0, <1>5 DEF Committed
  <1>9. \A i \in Ids : /\ records[i].gen \in Nat /\ records'[i].gen \in Nat
                       /\ records'[i].gen >= records[i].gen
    BY <1>2, GenerationsGrow DEF IInv, TypeOK, Record
  <1>10. \A q \in Requests : q.target \in Ids /\ q.expected \in Nat
    BY AttemptAssumption, RegistryAssumption
  <1>11. r.op # "register" /\ r.expected # 0 =>
           records[r.target].gen = r.expected /\ records'[r.target].gen = r.expected + 1
    <2>1. boot \in Nat
      BY DEF IInv, TypeOK
    <2> QED
      BY <2>1, ApplyGated DEF CommitAttempt, IInv
  <1>12. GenerationsPassed'
    <2>1. ASSUME NEW c \in CommitIndexes,
                 Committed(c).op # "register", Committed(c).expected # 0
          PROVE  records'[Committed(c).target].gen > Committed(c).expected
      BY <1>7, <1>9, <1>10, <2>1 DEF GenerationsPassed
    <2>2. r.op # "register" /\ r.expected # 0 => records'[r.target].gen > r.expected
      BY <1>10, <1>11
    <2> QED
      BY <1>6, <1>7, <1>8, <2>1, <2>2 DEF GenerationsPassed
  <1>13. ASSUME NEW c \in CommitIndexes, SameExpectation(Committed(c), r),
                "register" \notin {Committed(c).op, r.op}
         PROVE  FALSE
    BY <1>7, <1>10, <1>11, <1>13 DEF GenerationsPassed, SameExpectation
  <1>14. OneCommitPerExpectation'
    <2> SUFFICES ASSUME NEW c \in CommitIndexes', NEW d \in CommitIndexes',
                        SameExpectation(Committed(c)', Committed(d)'),
                        "register" \notin {Committed(c)'.op, Committed(d)'.op}
                 PROVE  c = d
      BY DEF OneCommitPerExpectation, SameExpectation
    <2>1. CASE c \in CommitIndexes /\ d \in CommitIndexes
      BY <1>7, <2>1 DEF OneCommitPerExpectation
    <2>2. CASE c \in CommitIndexes /\ d = here
      BY <1>7, <1>8, <1>13, <2>2
    <2>3. CASE c = here /\ d \in CommitIndexes
      BY <1>7, <1>8, <1>13, <2>3 DEF SameExpectation
    <2> QED
      BY <1>6, <2>1, <2>2, <2>3
  <1> QED
    BY <1>12, <1>14

\* A reload reorders each publisher's entries and keeps them all.
LEMMA ReloadPreservesLog ==
  ASSUME AttemptInv, NEW q, Reload(q)
  PROVE  /\ log' \in [Publishers -> Seq(Entries)]
         /\ LogTypeOK' /\ LatestCommitRemembered' /\ EntriesWereCommitted'
  <1> USE DEF AttemptInv
  <1>1. /\ commits' = commits
        /\ \A p \in Publishers :
             /\ log[p] \in Seq(Entries)
             /\ log'[p] \in Reloaded(log[p])
    BY DEF Reload
  <1>2. \A p \in Publishers :
          /\ log'[p] \in Seq(Entries)
          /\ Len(log'[p]) = Len(log[p])
          /\ \A k \in DOMAIN log[p] : \E l \in DOMAIN log'[p] : log'[p][l] = log[p][k]
          /\ \A l \in DOMAIN log'[p] : \E k \in DOMAIN log[p] : log'[p][l] = log[p][k]
          /\ \A k, l \in DOMAIN log'[p] : log'[p][k].attempt = log'[p][l].attempt => k = l
    BY <1>1, ReloadedShape
  <1>3. log' \in [Publishers -> Seq(Entries)]
    <2>1. log' = [p \in Publishers |-> log'[p]]
      BY DEF Reload
    <2> QED
      BY <1>2, <2>1
  <1>4. LogTypeOK'
    BY <1>2 DEF LogTypeOK
  <1>5. LatestCommitRemembered'
    <2> SUFFICES ASSUME NEW p \in Publishers, commits[p] # <<>>
                 PROVE  LET latest == commits[p][Len(commits[p])] IN
                        \E l \in DOMAIN log'[p] :
                          log'[p][l] = [attempt |-> latest.attempt,
                                        digest |-> Digest(latest.request)]
      BY <1>1 DEF LatestCommitRemembered
    <2>1. PICK k \in DOMAIN log[p] :
            log[p][k] = [attempt |-> commits[p][Len(commits[p])].attempt,
                         digest |-> Digest(commits[p][Len(commits[p])].request)]
      BY DEF LatestCommitRemembered
    <2>2. PICK l \in DOMAIN log'[p] : log'[p][l] = log[p][k]
      BY <1>2
    <2> QED
      BY <2>1, <2>2
  <1>6. EntriesWereCommitted'
    <2> SUFFICES ASSUME NEW p \in Publishers, NEW l \in DOMAIN log'[p]
                 PROVE  \E j \in DOMAIN commits[p] :
                          /\ commits[p][j].attempt = log'[p][l].attempt
                          /\ Digest(commits[p][j].request) = log'[p][l].digest
      BY <1>1 DEF EntriesWereCommitted
    <2>1. PICK k \in DOMAIN log[p] : log'[p][l] = log[p][k]
      BY <1>2
    <2> QED
      BY <2>1 DEF EntriesWereCommitted
  <1> QED
    BY <1>3, <1>4, <1>5, <1>6

\* The invariant is inductive.
LEMMA NextAttemptInv == AttemptInv /\ [AttemptNext]_<<vars, attempt_vars>> => AttemptInv'
  <1> SUFFICES ASSUME AttemptInv, [AttemptNext]_<<vars, attempt_vars>> PROVE AttemptInv'
    OBVIOUS
  <1> USE DEF AttemptInv
  <1>1. [Next]_vars
    BY StepIsRegistryStep
  <1>2. IInv'
    BY <1>1, NextIInv
  <1>3. CASE \E p \in Publishers, boot \in 1..minted, e \in 1..epoch : Attempt(p, boot, e)
    <2>1. PICK p \in Publishers, boot \in 1..minted, e \in 1..epoch,
               n \in Attempts, r \in Requests : CommitAttempt(p, boot, e, n, r)
      BY <1>3 DEF Attempt
    <2> QED
      BY <1>2, <2>1, CommitPreservesLog, CommitPreservesHistory
  <1>4. CASE AuthorityEvent \/ UNCHANGED <<vars, attempt_vars>>
    <2>1. log' = log /\ commits' = commits
      BY <1>4 DEF AuthorityEvent, attempt_vars
    <2>2. LogTypeOK' /\ LatestCommitRemembered' /\ EntriesWereCommitted'
      BY <2>1 DEF LogTypeOK, LatestCommitRemembered, EntriesWereCommitted
    <2> QED
      BY <1>1, <1>2, <2>1, <2>2, HistoryKept
  <1>5. CASE \E q \in Publishers \cup {NoPublisher} : Reload(q)
    <2>1. PICK q \in Publishers \cup {NoPublisher} : Reload(q)
      BY <1>5
    <2>2. commits' = commits
      BY <2>1 DEF Reload
    <2> QED
      BY <1>1, <1>2, <2>1, <2>2, ReloadPreservesLog, HistoryKept
  <1> QED
    BY <1>3, <1>4, <1>5 DEF AttemptNext
-----------------------------------------------------------------------------
(* Theorems *)

\* Every reachable state of the registry with its log satisfies the invariant.
THEOREM AttemptInvariance == AttemptSpec => []AttemptInv
  BY InitAttemptInv, NextAttemptInv, PTL DEF AttemptSpec

\* The log stays within its bound and remembers no attempt twice, across
\* evictions and reloads.
THEOREM LogBounded == AttemptSpec => []LogTypeOK
  <1>1. AttemptInv => LogTypeOK
    BY DEF AttemptInv
  <1> QED
    BY <1>1, AttemptInvariance, PTL

\* The last commit of a publisher can always be repeated safely.
THEOREM LatestIsRemembered == AttemptSpec => []LatestCommitRemembered
  <1>1. AttemptInv => LatestCommitRemembered
    BY DEF AttemptInv
  <1> QED
    BY <1>1, AttemptInvariance, PTL

\* No two commits other than registrations name one generation of one record.
THEOREM CommitsCompare == AttemptSpec => []OneCommitPerExpectation
  <1>1. AttemptInv => OneCommitPerExpectation
    BY DEF AttemptInv
  <1> QED
    BY <1>1, AttemptInvariance, PTL

\* Where digests tell the requests apart, as they do all but attaching and
\* detaching one alias, an idempotent answer means that this request was
\* committed.
THEOREM ReplayIsOwnCommit ==
  ASSUME \A r, s \in Requests : Digest(r) = Digest(s) => r = s
  PROVE  AttemptSpec => []ReplayAnswersOwnCommit
  <1>1. ASSUME AttemptInv PROVE ReplayAnswersOwnCommit
    <2> SUFFICES ASSUME NEW p \in Publishers, NEW n \in Attempts, NEW r \in Requests,
                        "Idempotent" \in ReplayAnswers(p, n, r)
                 PROVE  \E j \in DOMAIN commits[p] :
                          commits[p][j] = [attempt |-> n, request |-> r]
      BY DEF ReplayAnswersOwnCommit
    <2>1. PICK k \in DOMAIN log[p] : log[p][k].attempt = n /\ log[p][k].digest = Digest(r)
      BY DEF ReplayAnswers, AnswerTo
    <2>2. PICK j \in DOMAIN commits[p] :
            /\ commits[p][j].attempt = log[p][k].attempt
            /\ Digest(commits[p][j].request) = log[p][k].digest
      BY <1>1 DEF AttemptInv, EntriesWereCommitted
    <2>3. commits[p][j] \in Commits
      BY <1>1, ElementOfSeq, LenProperties DEF AttemptInv
    <2> QED
      BY <2>1, <2>2, <2>3 DEF Commits
  <1> QED
    BY <1>1, AttemptInvariance, PTL
=============================================================================
