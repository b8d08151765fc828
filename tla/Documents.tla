----------------------------- MODULE Documents -----------------------------
(***************************************************************************)
(* A document on its way: a value is encoded, put into its envelope - the  *)
(* frame of a message, the image of the state file - and read at the other *)
(* end, after it was cut short, extended or altered in one place.          *)
(***************************************************************************)
EXTENDS Payloads

CONSTANT MaxPayload   \* max_payload_bytes, in tokens

VARIABLES
  name, value,   \* the document
  usual,         \* the value is the ordinary one; only that one is damaged
  envelope,      \* "none", "frame" or "image"
  stage,         \* "made", "written", "arrived" or "read"
  bytes,         \* what was sent, and then what has arrived
  damage,        \* what happened to it
  read           \* what the reader made of it

vars == <<name, value, usual, envelope, stage, bytes, damage, read>>

INSTANCE Codec

Shape ==
  [hello_request |-> HelloRequest, hello_response |-> HelloResponse,
   attach_request |-> AttachRequest, attach_response |-> AttachResponse,
   detach_request |-> DetachRequest, authority |-> Authority,
   outcome |-> Outcome, error |-> ErrorPayload,
   register_request |-> RegisterRequest, update_evidence_request |-> UpdateEvidenceRequest,
   revalidate_request |-> RevalidateRequest, alias_request |-> AliasRequest,
   supersede_request |-> SupersedeRequest, retire_request |-> RetireRequest,
   tombstone_request |-> TombstoneRequest, resolve_conflict_request |-> ResolveConflictRequest,
   reconcile_request |-> ReconcileRequest, reconcile_response |-> ReconcileResponse,
   lookup_request |-> LookupRequest, lookup_response |-> LookupResponse,
   heartbeat_response |-> HeartbeatResponse,
   snapshot_summary |-> SnapshotSummary, stats |-> Stats, state |-> State]
-----------------------------------------------------------------------------
(* The payload of the state file *)

\* recompute_digest covers the counters, the records and the publishers.
StateDigest(state) == Hash(Encode(Group(SubSeq(StateFields, 2, 5), <<>>), SubSeq(state, 2, 5)))

EncodeState(state) == Encode(State, state) \o <<<<"digest", StateDigest(state)>>>>

DecodeState(in) ==
  LET d == Decode(State, in, 1)
      digest == Take("digest", 0, Unlimited, in, d.next)
  IN  IF d.ok /\ digest.ok /\ digest.next = Len(in) + 1 /\ digest.value = StateDigest(d.value)
      THEN Taken(d.value, digest.next)
      ELSE Refused

EncodeDocument(n, v) == IF n = "state" THEN EncodeState(v) ELSE Encode(Shape[n], v)
DecodeDocument(n, in) == IF n = "state" THEN DecodeState(in) ELSE DecodePayload(Shape[n], in)
-----------------------------------------------------------------------------
(* Envelopes *)

MessageTypes == 1 .. 27

\* A payload above the bound is not framed at all.
EncodeFrame(type, request, payload) ==
  LET frame == <<<<"magic", 1>>, <<"u16", 1>>, <<"u16", type>>, <<"u32", 0>>, <<"u64", request>>,
                 <<"u32", Len(payload)>>>> \o payload
  IN  IF Len(payload) > MaxPayload \/ type \notin MessageTypes THEN <<>>
      ELSE frame \o <<<<"u64", Hash(frame)>>>>

\* Mutant: nothing ties the contents to the checksum.
FramePayloadUnchecked(in) ==
  LET declared == in[6][2] IN
  IF /\ Len(in) >= 6
     /\ in[1][2] = 1 /\ in[2][2] = 1 /\ in[4][2] = 0
     /\ in[3][2] \in MessageTypes
     /\ declared <= MaxPayload
     /\ Len(in) >= 7 + declared
  THEN Taken(SubSeq(in, 7, 6 + declared), 8 + declared)
  ELSE Refused

\* decode_frame: the header, the declared length against the bound and against
\* what is there, and only then the checksum over all that precedes it.
FramePayload(in) ==
  LET declared == in[6][2] IN
  IF /\ Len(in) >= 6
     /\ in[1][2] = 1 /\ in[2][2] = 1 /\ in[4][2] = 0
     /\ in[3][2] \in MessageTypes
     /\ declared <= MaxPayload
     /\ Len(in) >= 7 + declared
     /\ Hash(SubSeq(in, 1, 6 + declared)) = in[7 + declared][2]
  THEN Taken(SubSeq(in, 7, 6 + declared), 8 + declared)
  ELSE Refused

\* build_image; the digest that ends it is compared over eight of its bytes.
BuildImage(payload) ==
  <<<<"magic", 1>>, <<"u32", 1>>, <<"u32", 0>>, <<"u64", Len(payload)>>>> \o payload
    \o <<<<"eight", Hash(payload)>>, <<"others", Hash(payload)>>>>

\* verify_image and the opening of decode_state.
ImagePayload(in) ==
  LET declared == Len(in) - 6 IN
  IF /\ Len(in) >= 6
     /\ in[1][2] = 1 /\ in[2][2] = 1 /\ in[3][2] = 0
     /\ in[4][2] = declared
     /\ Hash(SubSeq(in, 5, 4 + declared)) = in[5 + declared][2]
  THEN Taken(SubSeq(in, 5, 4 + declared), Len(in) + 1)
  ELSE Refused
-----------------------------------------------------------------------------
Envelopes == {"none", "frame", "image"}

Pack(payload) ==
  CASE envelope = "none" -> payload
    [] envelope = "frame" -> EncodeFrame(6, 5, payload)
    [] envelope = "image" -> BuildImage(payload)

Unpack(in) ==
  CASE envelope = "none" -> Taken(in, Len(in) + 1)
    [] envelope = "frame" -> FramePayload(in)
    [] envelope = "image" -> ImagePayload(in)


Init ==
  /\ name \in DOMAIN Shape
  /\ \/ usual = TRUE /\ value = Ordinary(Shape[name], 0)
     \/ usual = FALSE /\ value \in Variants(Shape[name], 0)
  /\ envelope \in {"none", IF name = "state" THEN "image" ELSE "frame"}
  /\ stage = "made" /\ bytes = <<>>
  /\ damage = "none"
  /\ read = Refused

Write ==
  /\ stage = "made"
  /\ bytes' = Pack(EncodeDocument(name, value))
  /\ stage' = "written"
  /\ UNCHANGED <<name, value, usual, envelope, damage, read>>

Untouched == stage = "written" /\ usual /\ bytes # <<>>

Damaged(kind, in) ==
  /\ damage' = kind /\ bytes' = in
  /\ stage' = "arrived"
  /\ UNCHANGED <<name, value, usual, envelope, read>>

Arrive ==
  /\ stage = "written" /\ bytes # <<>>
  /\ stage' = "arrived"
  /\ UNCHANGED <<name, value, usual, envelope, bytes, damage, read>>

Cut == Untouched /\ \E n \in 0 .. Len(bytes) - 1 : Damaged("cut", SubSeq(bytes, 1, n))

Extend == Untouched /\ Damaged("extended", Append(bytes, bytes[Len(bytes)]))

\* One token holds another number.
Alter ==
  /\ Untouched
  /\ \E k \in DOMAIN bytes : \E n \in {0, bytes[k][2] + 1, 255} \ {bytes[k][2]} :
    Damaged(IF envelope = "image" /\ k = Len(bytes) THEN "altered unseen" ELSE "altered",
            [bytes EXCEPT ![k] = <<@[1], n>>])

Receive ==
  /\ stage = "arrived"
  /\ LET payload == Unpack(bytes) IN
       read' = IF payload.ok THEN DecodeDocument(name, payload.value) ELSE Refused
  /\ stage' = "read"
  /\ UNCHANGED <<name, value, usual, envelope, bytes, damage>>

Next == Write \/ Arrive \/ Cut \/ Extend \/ Alter \/ Receive

Spec == Init /\ [][Next]_vars
-----------------------------------------------------------------------------
(* Properties *)

\* Whatever is legal comes out as it went in, if it can be sent at all: the
\* reader takes the fields in the order and with the widths the writer uses, and
\* its bounds and rules admit what the writer's admit.
RoundTrip ==
  stage = "read" /\ damage = "none" /\ Legal(Shape[name], value) => read.ok /\ read.value = value

\* Whatever is accepted is legal, however it came about: a reader never hands a
\* value on that is out of its range, above its bound or against its rules.
AcceptedIsLegal == read.ok => Legal(Shape[name], read.value)

\* There is one encoding of a value: what is accepted is, token for token, what
\* the writer would have written, so nothing was coerced, skipped or left over.
OneEncoding ==
  envelope = "none" /\ read.ok => EncodeDocument(name, read.value) = bytes

\* A payload that was cut short or extended is refused even without its envelope.
WrongLengthRefused ==
  stage = "read" /\ damage \in {"cut", "extended"} /\ (damage = "extended" => envelope # "frame")
    => ~read.ok

\* Within its envelope any damage is noticed, to the header as well as to the
\* contents.
DamageNoticed ==
  stage = "read" /\ damage = "altered" /\ envelope # "none" => ~read.ok
=============================================================================
