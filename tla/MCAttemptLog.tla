---------------------------- MODULE MCAttemptLog ----------------------------
(***************************************************************************)
(* Constant values for model checking AttemptLog: one record, two          *)
(* publishers, and the requests each run needs.                            *)
(***************************************************************************)
EXTENDS AttemptLog, TLC

CONSTANTS e1, e2, p1, p2, a1, a2

Serial(v) == <<"serial", v>>
MCStrongSlots == {"serial"}
OneClass == [i \in Ids |-> "device"]
MCFacts == {Serial(1), Serial(2)}
MCFactSets == {{Serial(1)}, {Serial(2)}}
NoAliasSets == {{}}

Request(op, expected) == [op |-> op, target |-> e1, expected |-> expected]

RegistrationOf(id, facts, resolution, expected) ==
  [op |-> "register", target |-> id, facts |-> facts, aliases |-> {},
   admission |-> "RequireCurrent", durable |-> FALSE, record_conflict |-> TRUE,
   resolution |-> resolution, expected |-> expected]

Registration(facts, expected) == RegistrationOf(e1, facts, "Auto", expected)

AliasRequest(op, alias, expected) == Request(op, expected) @@ [alias |-> alias]

EvidenceRequest(op, expected) ==
  Request(op, expected) @@ [facts |-> {Serial(1)}, merge_facts |-> TRUE, durable |-> FALSE]

\* Every operation once: a record is registered, contradicted, renewed, given
\* and relieved of an alias, superseded with and without a successor, closed.
EveryRequest ==
  {Registration({Serial(1)}, 0), Registration({Serial(2)}, 0),
   RegistrationOf(e2, {Serial(2)}, "ForceNew", 0),
   RegistrationOf(e2, {Serial(1)}, e1, 0),
   EvidenceRequest("update_evidence", 1), EvidenceRequest("revalidate", 0),
   AliasRequest("attach_alias", a1, 1), AliasRequest("detach_alias", a1, 2),
   Request("supersede", 2) @@ [successor |-> NoId],
   Request("supersede", 2) @@ [successor |-> e2],
   Request("retire", 1), Request("tombstone", 2),
   Request("resolve_conflict", 2) @@ [destination |-> "Current"]}

\* The requests do not tell the publishers apart.
Symmetry == Permutations(Publishers)

\* An alias is attached and detached without naming a generation.
AliasRequests ==
  {Registration({Serial(1)}, 0),
   AliasRequest("attach_alias", a1, 0), AliasRequest("detach_alias", a1, 0)}
=============================================================================
