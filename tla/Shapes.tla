------------------------------- MODULE Shapes -------------------------------
(***************************************************************************)
(* Shapes of encoded values.  A stream is a sequence of tokens             *)
(* <<width, number>>.  A number stands for itself; a text stands for its   *)
(* length and an identity for a number that is zero when it is null.  The  *)
(* writer of a group and its reader list their fields separately, as the   *)
(* code does.                                                              *)
(***************************************************************************)
EXTENDS Naturals, Sequences, TLC

Unlimited == 1000000

Leaf(width, low, high) == [kind |-> "leaf", width |-> width, low |-> low, high |-> high]
Optional(shape) == [kind |-> "optional", of |-> shape]
Many(shape, bound) == [kind |-> "many", of |-> shape, bound |-> bound]
Blob(shape, bound) == [kind |-> "blob", of |-> shape, bound |-> bound]
Group(write, read) == [kind |-> "group", write |-> write, read |-> read]
\* A group whose reader checks a rule over several fields; the sample gives
\* field values with which it holds.
Ruled(rule, group, sample) == [kind |-> "ruled", rule |-> rule, of |-> group, sample |-> sample]

U16 == Leaf("u16", 0, Unlimited)
U64 == Leaf("u64", 0, Unlimited)
Bool == Leaf("u8", 0, 1)
Enum(max) == Leaf("u8", 0, max)
Text(bound) == Leaf("text", 0, bound)
Digest == Leaf("digest", 0, Unlimited)
TypedId == Leaf("id", 0, Unlimited)

\* An identity that must not be null, and the class that goes with it.
SomeId == Leaf("id", 1, Unlimited)
SomeClass == Leaf("u8", 1, 15)
CanonicalId == Group(<<SomeClass, SomeId>>, <<SomeClass, SomeId>>)

\* SHA-256, over tokens: it tells apart any two streams of one length that
\* differ in one place.
RECURSIVE HashUpTo(_, _)
HashUpTo(tokens, k) == IF k = 0 THEN 0 ELSE k * tokens[k][2] + HashUpTo(tokens, k - 1)
Hash(tokens) == HashUpTo(tokens, Len(tokens))
=============================================================================
