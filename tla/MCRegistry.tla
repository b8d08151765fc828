----------------------------- MODULE MCRegistry -----------------------------
(***************************************************************************)
(* Constant values for model checking Registry.  The authority instance    *)
(* has several publishers, restarts and one fact; the identity instance    *)
(* has one publisher, and facts that agree, contradict and corroborate.    *)
(***************************************************************************)
EXTENDS Registry, TLC

CONSTANTS e1, e2, e3, p1, p2, p3, a1, a2, note

Serial(v) == <<"serial", v>>
Label(v) == <<"label", v>>

MCStrongSlots == {"serial"}
OneClass == [i \in Ids |-> "device"]

\* Authority instance
AuthorityFacts == {Serial(1), Serial(2)}
AuthorityFactSets == {{Serial(1)}, {Serial(2)}}
NoAliasSets == {{}}

\* Identity instance
IdentityFacts == {Serial(1), Serial(2), Label(1)}
IdentityFactSets == {{Serial(1)}, {Label(1)}, {Serial(2), Label(1)}}
IdentityAliasSets == {{}, {a1}}

IdSymmetry == Permutations(Ids)
PublisherSymmetry == Permutations(Publishers)
RecordAndPublisherSymmetry == IdSymmetry \cup PublisherSymmetry
=============================================================================
