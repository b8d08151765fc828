----------------------------- MODULE AttemptLog -----------------------------
(***************************************************************************)
(* The idempotency log around the registry core: what makes a retried      *)
(* mutation safe.  Every mutation is an attempt of its publisher; the log  *)
(* remembers the last attempts that committed, with a digest of what they  *)
(* asked for, and answers a repetition without evaluating it again.        *)
(*                                                                         *)
(* A request is a record whose fields depend on its operation: what the    *)
(* structs of registry.hpp carry, less the text no commit depends on.      *)
(***************************************************************************)
EXTENDS Registry

CONSTANTS
  Attempts,   \* attempt identifiers; their order is the order of their bytes
  Requests,   \* the requests that publishers make
  MaxLog      \* max_idempotency_entries_per_publisher

ASSUME AttemptAssumption ==
  /\ Attempts \subseteq Nat /\ MaxLog \in Nat \ {0}
  /\ \A r \in Requests :
       /\ r.target \in Ids /\ r.expected \in Expectations
       /\ r.op = "register" => /\ r.facts \in FactSets /\ r.aliases \in AliasSets
                               /\ r.admission \in Admissions /\ r.durable \in EvidenceClasses
                               /\ r.record_conflict \in BOOLEAN
                               /\ r.resolution \in {"Auto", "ForceNew"} \cup Ids
       /\ r.op \in {"update_evidence", "revalidate"}
            => /\ r.facts \in FactSets /\ r.merge_facts \in BOOLEAN
               /\ r.durable \in EvidenceClasses
       /\ r.op \in {"attach_alias", "detach_alias"} => r.alias \in Aliases
       /\ r.op = "supersede" => r.successor \in Ids \cup {NoId}
       /\ r.op = "resolve_conflict" => r.destination \in {"Current", "Retired", "Rejected"}

VARIABLES
  log,       \* what each publisher's attempts committed, oldest first
  commits    \* history: all that each publisher ever committed, in order

attempt_vars == <<log, commits>>

\* The digest of a request.  attach_alias and detach_alias share one domain and
\* hash the same fields.
Digest(r) ==
  IF r.op \in {"attach_alias", "detach_alias"} THEN [r EXCEPT !.op = "alias_mutation"] ELSE r

Remembered(p) == {log[p][k].attempt : k \in DOMAIN log[p]}

Entries == [attempt : Attempts, digest : {Digest(r) : r \in Requests}]

\* Mutant: the bound is not enforced.
RecordedUnbounded(entries, entry) == Append(entries, entry)

\* Mutant: a full log drops the attempt that has just committed.
RecordedNewestLost(entries, entry) ==
  IF Len(entries) < MaxLog THEN Append(entries, entry) ELSE entries

\* record_idempotency: the entry goes last and the first ones make room.
Recorded(entries, entry) ==
  LET longer == Append(entries, entry)
      drop == IF Len(longer) > MaxLog THEN Len(longer) - MaxLog ELSE 0
  IN  SubSeq(longer, drop + 1, Len(longer))

\* What save() writes and load() records again: the same entries, in the order
\* of their identifiers.  The set has one member, for no attempt is there twice.
Reloaded(entries) ==
  LET held == {entries[k] : k \in DOMAIN entries} IN
  {s \in [DOMAIN entries -> held] :
     /\ {s[k] : k \in DOMAIN s} = held
     /\ \A k, l \in DOMAIN s : k < l => s[k].attempt < s[l].attempt}
-----------------------------------------------------------------------------
(* The requests *)

\* register_entity; resolution is Auto, ForceNew, or the identity that
\* ForceExisting names.
Register(p, boot, r) ==
  \/ /\ r.resolution = "Auto" /\ r.record_conflict
     /\ RegisterConflict(r.target, r.facts, r.aliases)
  \/ /\ r.resolution \notin Ids
     /\ \/ RegisterUpdate(p, boot, r.target, r.facts, r.aliases, r.admission, r.durable, r.expected)
        \/ RegisterCreate(p, boot, r.target, r.facts, r.aliases, r.admission, r.durable,
                          r.resolution = "ForceNew")
  \/ /\ r.resolution \in Ids
     /\ RegisterExisting(p, boot, r.resolution, r.facts, r.aliases, r.admission, r.durable,
                         r.expected)

\* The mutation a request asks for, as the registry core commits it.
Apply(p, boot, r) ==
  \/ r.op = "register" /\ Register(p, boot, r)
  \/ /\ r.op = "update_evidence"
     /\ UpdateEvidence(p, boot, r.target, r.facts, r.merge_facts, r.durable, r.expected)
  \/ /\ r.op = "revalidate"
     /\ Revalidate(p, boot, r.target, r.facts, r.merge_facts, r.durable, r.expected)
  \/ r.op = "attach_alias" /\ AttachAlias(r.target, r.alias, r.expected)
  \/ r.op = "detach_alias" /\ DetachAlias(r.target, r.alias, r.expected)
  \/ /\ r.op = "supersede"
     /\ \/ r.successor = NoId /\ SupersedeAlone(r.target, r.expected)
        \/ r.successor \in Ids /\ SupersedeBy(r.target, r.successor, r.expected)
  \/ r.op = "retire" /\ Retire(r.target, r.expected)
  \/ r.op = "tombstone" /\ Tombstone(r.target, r.expected)
  \/ r.op = "resolve_conflict" /\ ResolveConflict(r.target, r.destination, r.expected)
-----------------------------------------------------------------------------
(* The pipeline *)

\* The common path of every mutation: authority, then the log, then the commit
\* and its entry.
CommitAttempt(p, boot, e, n, r) ==
  /\ Authorized(p, boot, e)
  /\ n \notin Remembered(p)
  /\ Apply(p, boot, r)
  /\ log' = [log EXCEPT ![p] = Recorded(@, [attempt |-> n, digest |-> Digest(r)])]
  /\ commits' = [commits EXCEPT ![p] = Append(@, [attempt |-> n, request |-> r])]

\* Mutant: a repeated attempt is a replay whatever it asks for.
AnswerToAny(entry, r) == "Idempotent"

\* The answer to an attempt the log remembers.
AnswerTo(entry, r) == IF entry.digest = Digest(r) THEN "Idempotent" ELSE "ConflictingReplay"

\* replay_previous_outcome: what publisher p is answered, from the log alone,
\* when it repeats attempt n.  Nothing is evaluated and nothing changes, so a
\* replay is a stuttering step.
ReplayAnswers(p, n, r) ==
  {AnswerTo(log[p][k], r) : k \in {l \in DOMAIN log[p] : log[p][l].attempt = n}}

Attempt(p, boot, e) == \E n \in Attempts, r \in Requests : CommitAttempt(p, boot, e, n, r)

\* Authority events leave the log alone, so a publisher's attempts outlive its
\* incarnations.
AuthorityEvent ==
  /\ \/ \E p \in Publishers : AttachPublisher(p) \/ FencePublisher(p)
     \/ AdvanceEpoch
  /\ UNCHANGED attempt_vars

Reload(q) ==
  /\ Restart(q)
  /\ log' \in [Publishers -> UNION {Reloaded(log[p]) : p \in Publishers}]
  /\ \A p \in Publishers : log'[p] \in Reloaded(log[p])
  /\ UNCHANGED commits

AttemptInit ==
  /\ Init
  /\ log = [p \in Publishers |-> <<>>]
  /\ commits = [p \in Publishers |-> <<>>]

AttemptNext ==
  \/ \E p \in Publishers, boot \in 1..minted, e \in 1..epoch : Attempt(p, boot, e)
  \/ AuthorityEvent
  \/ \E q \in Publishers \cup {NoPublisher} : Reload(q)

AttemptSpec == AttemptInit /\ [][AttemptNext]_<<vars, attempt_vars>>
-----------------------------------------------------------------------------
(* Properties *)

\* The log never outgrows its bound and remembers no attempt twice, so that an
\* attempt has one answer, across evictions and reloads.
LogTypeOK ==
  \A p \in Publishers :
    /\ log[p] \in Seq(Entries)
    /\ Len(log[p]) <= MaxLog
    /\ \A k, l \in DOMAIN log[p] : log[p][k].attempt = log[p][l].attempt => k = l

\* The last commit of a publisher is always remembered, whatever fences,
\* reattaches and restarts follow it: the mutation whose answer was lost can be
\* repeated and is never applied again.
LatestCommitRemembered ==
  \A p \in Publishers : commits[p] # <<>> =>
    LET latest == commits[p][Len(commits[p])] IN
    \E k \in DOMAIN log[p] :
      log[p][k] = [attempt |-> latest.attempt, digest |-> Digest(latest.request)]

\* An idempotent answer means that this very request was committed, by this
\* publisher under this attempt.
ReplayAnswersOwnCommit ==
  \A p \in Publishers, n \in Attempts, r \in Requests :
    "Idempotent" \in ReplayAnswers(p, n, r) =>
      \E k \in DOMAIN commits[p] : commits[p][k] = [attempt |-> n, request |-> r]

\* Two commits that named one generation of one record.
SameExpectation(one, other) ==
  /\ one.target = other.target
  /\ one.expected = other.expected
  /\ one.expected # 0

CommitIndexes == UNION {{p} \X DOMAIN commits[p] : p \in Publishers}

Committed(c) == commits[c[1]][c[2]].request

\* At most one commit for an expected generation, whoever makes the attempts
\* and however many the log has forgotten since: compare-and-commit stands in
\* for the log where the log ends.  Registrations are left aside: their creation
\* and conflict paths commit without comparing.
OneCommitPerExpectation ==
  \A c, d \in CommitIndexes :
    /\ SameExpectation(Committed(c), Committed(d))
    /\ "register" \notin {Committed(c).op, Committed(d).op}
    => c = d
=============================================================================
