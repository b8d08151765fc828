----------------------------- MODULE Lifecycle -----------------------------
(***************************************************************************)
(* The lifecycle of a registry record: entity.cpp's transition table and   *)
(* the gates that registry_mutations.cpp builds on it.                     *)
(***************************************************************************)

Lifecycles ==
  {"Discovered", "Candidate", "Current", "RevalidationRequired", "Conflicted",
   "Superseded", "Retired", "Tombstoned", "Rejected"}

\* The legal successors of each lifecycle.  The code's table is irreflexive:
\* a transition to the same state is not a transition.
Successors ==
  [Discovered           |-> {"Candidate", "Conflicted", "Rejected"},
   Candidate            |-> {"Current", "Conflicted", "Rejected"},
   Current              |-> {"RevalidationRequired", "Superseded", "Retired", "Conflicted"},
   RevalidationRequired |-> {"Current", "Superseded", "Retired", "Conflicted"},
   Conflicted           |-> {"Current", "Retired", "Rejected"},
   Superseded           |-> {"Retired", "Tombstoned"},
   Retired              |-> {"Tombstoned"},
   Tombstoned           |-> {},
   Rejected             |-> {}]

TransitionAllowed(from, to) == to \in Successors[from]

\* Lifecycles that have left authority for good.
Closed == {"Superseded", "Retired", "Tombstoned", "Rejected"}

\* The lifecycles the duplicate-hardware checks skip.  A rejected record is
\* not skipped: it blocks its hardware identity for ever.
HardwareReleased == {"Retired", "Tombstoned", "Superseded"}

\* Mutant: a superseded record still accepts mutations.
AcceptsSuperseded(l) == l \notin {"Retired", "Tombstoned", "Rejected", "Conflicted"}

\* lifecycle_gate: which records accept an ordinary mutation.
AcceptsMutation(l) == l \notin Closed \cup {"Conflicted"}

\* Mutant: a tombstoned record releases its aliases.
AcceptsReleaseTombstoned(l) == l # "Rejected"

\* lifecycle_gate_alias_release: which records still release an alias.
AcceptsAliasRelease(l) == l \notin {"Tombstoned", "Rejected"}
=============================================================================
