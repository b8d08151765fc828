------------------------------- MODULE Codec -------------------------------
(***************************************************************************)
(* The writer and the reader that every payload, record and state image    *)
(* goes through: ByteWriter and ByteReader (codec.cpp), with the helpers   *)
(* that frame.cpp, record_codec.cpp and registry.cpp build on them.        *)
(***************************************************************************)
EXTENDS Shapes

CONSTANT Sound(_, _)   \* the rules that a reader checks over several fields
-----------------------------------------------------------------------------
(* Writing *)

Copies(shape, n) == [k \in 1 .. n |-> shape]

RECURSIVE Encode(_, _)
RECURSIVE EncodeAll(_, _)

EncodeAll(shapes, values) ==
  IF values = <<>> THEN <<>>
  ELSE Encode(Head(shapes), Head(values)) \o EncodeAll(Tail(shapes), Tail(values))

Encode(s, v) ==
  CASE s.kind = "leaf" -> <<<<s.width, v>>>>
    [] s.kind = "optional" -> <<<<"u8", Len(v)>>>> \o EncodeAll(Copies(s.of, Len(v)), v)
    [] s.kind = "many" -> <<<<"u32", Len(v)>>>> \o EncodeAll(Copies(s.of, Len(v)), v)
    [] s.kind = "blob" -> LET body == Encode(s.of, v) IN <<<<"u32", Len(body)>>>> \o body
    [] s.kind = "group" -> EncodeAll(s.write, v)
    [] s.kind = "ruled" -> Encode(s.of, v)
-----------------------------------------------------------------------------
(* Reading *)

\* A refusal leaves no value; a success says where the next field begins.
Refused == [ok |-> FALSE]
Taken(v, next) == [ok |-> TRUE, value |-> v, next |-> next]

\* One token: it must be there, have the width, and hold a number in the range.
Take(width, low, high, in, at) ==
  IF at <= Len(in) /\ in[at][1] = width /\ in[at][2] \in low .. high
  THEN Taken(in[at][2], at + 1)
  ELSE Refused

\* Mutant: any marker but zero counts as present.
TakePresenceCoerced(in, at) ==
  LET raw == Take("u8", 0, Unlimited, in, at) IN
  IF raw.ok /\ raw.value > 1 THEN Taken(1, at + 1) ELSE raw

\* A marker is 0 or 1, never coerced.
TakePresence(in, at) == Take("u8", 0, 1, in, at)

\* Mutant: the bound is not looked at.
TakeCountUnbounded(bound, in, at) == Take("u32", 0, Unlimited, in, at)

\* A declared count, validated against its bound.
TakeCount(bound, in, at) == Take("u32", 0, bound, in, at)

RECURSIVE Decode(_, _, _)
RECURSIVE DecodeAll(_, _, _)

\* The shapes in turn, each where the one before it ended.
DecodeAll(shapes, in, at) ==
  IF shapes = <<>> THEN Taken(<<>>, at)
  ELSE LET first == Decode(Head(shapes), in, at) IN
       IF ~first.ok THEN Refused
       ELSE LET others == DecodeAll(Tail(shapes), in, first.next) IN
            IF others.ok THEN Taken(<<first.value>> \o others.value, others.next) ELSE Refused

Decode(s, in, at) ==
  LET count == IF s.kind = "optional" THEN TakePresence(in, at) ELSE TakeCount(s.bound, in, at)
      body == Decode(s.of, SubSeq(in, at + 1, at + count.value), 1)
      ruled == Decode(s.of, in, at)
  IN  CASE s.kind = "leaf" -> Take(s.width, s.low, s.high, in, at)
        [] s.kind = "group" -> DecodeAll(s.read, in, at)
        [] s.kind \in {"optional", "many"} ->
             IF count.ok THEN DecodeAll(Copies(s.of, count.value), in, at + 1) ELSE Refused
        [] s.kind = "blob" ->
             IF count.ok /\ at + count.value <= Len(in) /\ body.ok /\ body.next = count.value + 1
             THEN Taken(body.value, at + count.value + 1)
             ELSE Refused
        [] s.kind = "ruled" -> IF ruled.ok /\ Sound(s.rule, ruled.value) THEN ruled ELSE Refused

\* Mutant: what follows the last field is ignored.
DecodePayloadLax(s, in) == Decode(s, in, 1)

\* finish_payload: the last field must end where the payload ends.
DecodePayload(s, in) ==
  LET d == Decode(s, in, 1) IN IF d.ok /\ d.next = Len(in) + 1 THEN d ELSE Refused
-----------------------------------------------------------------------------
(* Values *)

RECURSIVE Legal(_, _)
RECURSIVE Ordinary(_, _)
RECURSIVE OrdinaryAll(_, _)
RECURSIVE Variants(_, _)

\* A value that respects every range, bound and rule.
Legal(s, v) ==
  CASE s.kind = "leaf" -> v \in s.low .. s.high
    [] s.kind = "optional" -> \A k \in DOMAIN v : Legal(s.of, v[k])
    [] s.kind = "many" -> Len(v) <= s.bound /\ \A k \in DOMAIN v : Legal(s.of, v[k])
    [] s.kind = "blob" -> Len(Encode(s.of, v)) <= s.bound /\ Legal(s.of, v)
    [] s.kind = "group" -> \A k \in DOMAIN v : Legal(s.write[k], v[k])
    [] s.kind = "ruled" -> Legal(s.of, v) /\ Sound(s.rule, v)

\* An unremarkable value, numbered so that neighbouring fields differ.
Ordinary(s, n) ==
  CASE s.kind = "leaf" -> IF n \in s.low .. s.high THEN n ELSE s.high
    [] s.kind = "optional" -> <<Ordinary(s.of, n)>>
    [] s.kind = "many" -> OrdinaryAll(Copies(s.of, 2), n)
    [] s.kind = "blob" -> Ordinary(s.of, n)
    [] s.kind = "group" -> OrdinaryAll(s.write, n)
    [] s.kind = "ruled" -> LET v == Ordinary(s.of, n) IN
                           [k \in DOMAIN v |-> IF k \in DOMAIN s.sample THEN s.sample[k] ELSE v[k]]

OrdinaryAll(shapes, n) ==
  IF shapes = <<>> THEN <<>>
  ELSE <<Ordinary(Head(shapes), n + 1)>> \o OrdinaryAll(Tail(shapes), n + 1)

\* The values that differ from it in one place: at each end of a range and just
\* past it, absent, empty, full, one too many, and one twice.
Variants(s, n) ==
  CASE s.kind = "leaf" -> {0, s.low} \cup IF s.high = Unlimited THEN {} ELSE {s.high, s.high + 1}
    [] s.kind = "optional" -> {<<>>} \cup {<<v>> : v \in Variants(s.of, n)}
    [] s.kind = "many" ->
         {OrdinaryAll(Copies(s.of, m), n) : m \in {0, s.bound, s.bound + 1}}
           \cup {Copies(Ordinary(s.of, n), 2)}
           \cup {<<v>> : v \in Variants(s.of, n)}
    [] s.kind = "blob" -> Variants(s.of, n)
    [] s.kind = "ruled" ->
         LET usual == Ordinary(s.of, n)
             sampled(v) == [k \in DOMAIN v |-> IF k \in DOMAIN s.sample /\ v[k] = usual[k]
                                               THEN s.sample[k] ELSE v[k]]
         IN  {sampled(v) : v \in Variants(s.of, n)}
    [] s.kind = "group" ->
         LET usual == Ordinary(s, n) IN
         UNION {{[usual EXCEPT ![k] = v] : v \in Variants(s.write[k], n + k)} : k \in DOMAIN usual}
=============================================================================
