------------------------------ MODULE Identity ------------------------------
(***************************************************************************)
(* Identity facts and what two fact sets say about each other.  A fact is  *)
(* <<slot, value>>: the slot stands for the pair (kind, scope), the value  *)
(* for the canonical text, whose only used structure is its order.         *)
(***************************************************************************)
EXTENDS Naturals

CONSTANTS
  Facts,        \* the facts an observation can carry, a set of <<slot, value>>
  StrongSlots   \* the slots whose kind has strength Strong

ASSUME FactsAssumption == \A f \in Facts : f = <<f[1], f[2]>> /\ f[2] \in Nat

Strong(facts) == {f \in facts : f[1] \in StrongSlots}

\* The stable hardware identity is a digest of the strong facts alone (not of
\* the entity class); {} is the null identity.
HardwareIdentity(facts) == Strong(facts)

\* normalize_fact_set: a request carries at most one value per slot.
SingleValued(facts) == \A f, g \in facts : f[1] = g[1] => f = g

\* The request facts that disagree with a stored set.  The code looks up the
\* first stored fact of the slot, so only the least value counts.
Contradictions(stored, facts) ==
  {f \in facts : \E g \in stored :
      /\ g[1] = f[1] /\ g[2] # f[2]
      /\ \A h \in stored : h[1] = f[1] => g[2] <= h[2]}

\* Mutant: a record without strong facts is compared as the empty subset.
StrongComparableEmpty(facts, stored) ==
  /\ Strong(facts) # {}
  /\ \/ Strong(facts) \subseteq Strong(stored)
     \/ Strong(stored) \subseteq Strong(facts)

\* Both sets carry strong facts and one of the two contains the other.
StrongComparable(facts, stored) ==
  /\ Strong(facts) # {} /\ Strong(stored) # {}
  /\ \/ Strong(facts) \subseteq Strong(stored)
     \/ Strong(stored) \subseteq Strong(facts)
=============================================================================
