--------------------------- MODULE ExchangeProofs ---------------------------
(***************************************************************************)
(* Safety of the exchange of requests and answers, for every number of     *)
(* threads, pieces, skipped answers and requests: a caller is told the     *)
(* truth, and no answer is left in the stream for anyone who was told one. *)
(***************************************************************************)
EXTENDS Exchange, SequenceTheorems, FiniteSetTheorems, TLAPS

Items == [frame : Frames, piece : 1 .. Pieces]

\* All there is of a stream: what its reader has buffered and what is on its way.
Up == inbound \o up
Down == inbox \o down

Sending == mutex # Nobody /\ pc[mutex] = "send"

\* A stream is cut into frames: the pieces of one follow each other, and each
\* frame has a greater id than those before it.
Framed(s) ==
  /\ Len(s) > 0 => s[1].piece = 1
  /\ \A i \in 1 .. Len(s) - 1 : s[i].piece = Pieces => s[i + 1].piece = 1
  /\ \A i, j \in 1 .. Len(s) : i < j =>
       IF s[i].piece + (j - i) <= Pieces
       THEN s[j].piece = s[i].piece + (j - i) /\ s[j].frame = s[i].frame
       ELSE s[i].frame.id < s[j].frame.id

\* No frame is cut short at its end.
EndsWhole(s) == Len(s) > 0 => s[Len(s)].piece = Pieces

\* The mutex admits one thread to the connection, and ids are taken from a counter
\* that every thread waiting for the mutex may still advance.
OneCaller ==
  /\ \A u \in Users : pc[u] \in {"send", "await"} <=> mutex = u
  /\ IF mutex = Nobody THEN progress = 0 /\ skipped = 0 ELSE kind \in Requests /\ id < nextId
  /\ Sending => progress < Pieces
  /\ nextId + Cardinality({u \in Users : pc[u] = "lock"}) <= MaxRequests + 1 + Cardinality(Users)

\* The requests on their way are whole and in order, but for the one being sent.
RequestsFramed ==
  /\ Framed(Up)
  /\ \A j \in 1 .. Len(Up) :
       /\ Up[j].frame.id < nextId
       /\ Sending => Up[j].frame.id < id \/ (Up[j].frame.id = id /\ Up[j].piece <= progress)
       /\ mutex # Nobody /\ Up[j].frame.id = id => Up[j].frame.kind = kind
  /\ ~lost /\ session # "closed" =>
       IF Sending /\ progress > 0
       THEN Len(Up) > 0 /\ Up[Len(Up)] = Piece([id |-> id, kind |-> kind, damage |-> "none"], progress)
       ELSE EndsWhole(Up)

\* The session has answered that request: no more of it is to come.
Handled(n) ==
  /\ n < nextId
  /\ \A j \in 1 .. Len(Up) : n < Up[j].frame.id
  /\ Sending => n < id

\* Everything the session has done is behind the requests that are on their way.
HandledInOrder ==
  /\ \A c \in committed : Handled(c)
  /\ \A t \in told : /\ t.id < nextId /\ (mutex # Nobody => t.id < id)
                     /\ t.answer # "failure" => Handled(t.id)
  /\ \A j \in 1 .. Len(Down) : Handled(Down[j].frame.id)

\* The answers on their way are whole, and say what the session did.
AnswersFramed ==
  /\ Framed(Down) /\ EndsWhole(inbox) /\ EndsWhole(down)
  /\ \A j \in 1 .. Len(Down) :
       /\ Down[j].frame.kind \in Answers
       /\ mutex # Nobody /\ kind = "mutation" /\ Down[j].frame.id = id =>
            (Down[j].frame.kind = "ack" <=> id \in committed)

\* Of a request on its way the caller still waits, or was told that it failed.
Outstanding(s) ==
  \A j \in 1 .. Len(s) :
    \/ mutex # Nobody /\ s[j].frame.id = id
    \/ \E t \in told : t.id = s[j].frame.id /\ t.answer = "failure"

XInv ==
  /\ TypeOK
  /\ OneCaller
  /\ RequestsFramed
  /\ HandledInOrder
  /\ AnswersFramed
  /\ Outstanding(Up) /\ Outstanding(Down)
  /\ AnswerTellsTruth
-----------------------------------------------------------------------------
(* Streams *)

LEMMA PiecesPositive == Pieces \in Nat /\ Pieces >= 1
  BY ExchangeAssumption

\* The elements of two streams in a row.
LEMMA Joined ==
  ASSUME NEW s \in Seq(Items), NEW t \in Seq(Items)
  PROVE /\ s \o t \in Seq(Items) /\ Len(s \o t) = Len(s) + Len(t)
        /\ Len(s) \in Nat /\ Len(t) \in Nat /\ Len(s \o t) \in Nat
        /\ \A i \in 1 .. Len(s) : (s \o t)[i] = s[i]
        /\ \A i \in 1 .. Len(t) : (s \o t)[Len(s) + i] = t[i]
  <1>1. /\ s \o t \in Seq(Items) /\ Len(s \o t) = Len(s) + Len(t)
        /\ \A i \in 1 .. Len(s) + Len(t) : (s \o t)[i] = IF i <= Len(s) THEN s[i] ELSE t[i - Len(s)]
    BY ConcatProperties
  <1>2. Len(s) \in Nat /\ Len(t) \in Nat /\ Len(s \o t) \in Nat
    BY <1>1, LenProperties
  <1>3. \A i \in 1 .. Len(t) : /\ Len(s) + i \in 1 .. Len(s) + Len(t) /\ ~(Len(s) + i <= Len(s))
                               /\ (Len(s) + i) - Len(s) = i
    BY <1>2
  <1>4. \A i \in 1 .. Len(s) : i \in 1 .. Len(s) + Len(t) /\ i <= Len(s)
    BY <1>2
  <1> QED
    BY <1>1, <1>2, <1>3, <1>4

\* The fields of a piece.
LEMMA ItemFields ==
  ASSUME NEW s \in Seq(Items), NEW i \in 1 .. Len(s)
  PROVE /\ s[i] \in Items /\ s[i].piece \in 1 .. Pieces /\ s[i].piece \in Nat
        /\ s[i].frame \in Frames /\ s[i].frame.id \in Nat
  <1>1. s[i] \in Items
    BY ElementOfSeq
  <1>2. s[i].piece \in 1 .. Pieces /\ s[i].frame \in Frames
    BY <1>1 DEF Items
  <1>3. s[i].frame.id \in Nat
    BY <1>2 DEF Frames
  <1> QED
    BY <1>1, <1>2, <1>3, PiecesPositive

\* What comes first in a stream that is cut into frames is too.
LEMMA FramedPrefix ==
  ASSUME NEW s \in Seq(Items), NEW t \in Seq(Items), Framed(s \o t)
  PROVE Framed(s)
  <1> DEFINE w == s \o t
  <1>1. /\ Len(s) \in Nat /\ Len(w) \in Nat /\ Len(s) <= Len(w)
        /\ \A i \in 1 .. Len(s) : i \in 1 .. Len(w) /\ w[i] = s[i]
    BY Joined
  <1>2. Len(s) > 0 => s[1].piece = 1
    <2>1. Len(s) > 0 => Len(w) > 0 /\ 1 \in 1 .. Len(s)
      BY <1>1
    <2> QED
      BY <1>1, <2>1 DEF Framed
  <1>3. \A i \in 1 .. Len(s) - 1 : s[i].piece = Pieces => s[i + 1].piece = 1
    <2>1. \A i \in 1 .. Len(s) - 1 : i \in 1 .. Len(w) - 1 /\ i \in 1 .. Len(s) /\ i + 1 \in 1 .. Len(s)
      BY <1>1
    <2> QED
      BY <1>1, <2>1 DEF Framed
  <1>4. \A i, j \in 1 .. Len(s) : i < j =>
       IF s[i].piece + (j - i) <= Pieces
       THEN s[j].piece = s[i].piece + (j - i) /\ s[j].frame = s[i].frame
       ELSE s[i].frame.id < s[j].frame.id
    BY <1>1 DEF Framed
  <1> QED
    BY <1>2, <1>3, <1>4 DEF Framed

\* Taking the first frame leaves a stream that is cut into frames, whose ids are
\* all greater than the one taken.
LEMMA FramedDrop ==
  ASSUME NEW s \in Seq(Items), Len(s) >= Pieces
  PROVE /\ WithoutFirst(s) \in Seq(Items) /\ Len(WithoutFirst(s)) = Len(s) - Pieces
        /\ Len(WithoutFirst(s)) \in Nat
        /\ \A i \in 1 .. Len(WithoutFirst(s)) :
             i + Pieces \in 1 .. Len(s) /\ WithoutFirst(s)[i] = s[i + Pieces]
        /\ EndsWhole(s) => EndsWhole(WithoutFirst(s))
        /\ Framed(s) =>
             /\ Framed(WithoutFirst(s)) /\ s[Pieces].piece = Pieces /\ s[Pieces].frame = s[1].frame
             /\ \A i \in 1 .. Len(WithoutFirst(s)) : s[1].frame.id < WithoutFirst(s)[i].frame.id
  <1> DEFINE d == WithoutFirst(s)
  <1>0. Len(s) \in Nat /\ Pieces \in Nat /\ Pieces >= 1 /\ 1 \in 1 .. Len(s) /\ Pieces \in 1 .. Len(s)
    BY LenProperties, PiecesPositive
  <1>1. /\ d \in Seq(Items) /\ Len(d) = Len(s) - Pieces
        /\ \A i \in 1 .. Len(d) : d[i] = s[i + Pieces]
    <2>1. \A i \in Pieces + 1 .. Len(s) : s[i] \in Items
      BY <1>0, ElementOfSeq
    <2>2. /\ SubSeq(s, Pieces + 1, Len(s)) \in Seq(Items)
          /\ Len(SubSeq(s, Pieces + 1, Len(s))) =
               IF Pieces + 1 <= Len(s) THEN Len(s) - (Pieces + 1) + 1 ELSE 0
          /\ \A i \in 1 .. Len(s) - (Pieces + 1) + 1 :
               SubSeq(s, Pieces + 1, Len(s))[i] = s[(Pieces + 1) + i - 1]
      BY <1>0, <2>1, SubSeqProperties
    <2>3. Len(d) = Len(s) - Pieces
      BY <1>0, <2>2 DEF WithoutFirst
    <2>4. \A i \in 1 .. Len(d) : i \in 1 .. Len(s) - (Pieces + 1) + 1 /\ (Pieces + 1) + i - 1 = i + Pieces
      BY <1>0, <2>3
    <2> QED
      BY <2>2, <2>3, <2>4 DEF WithoutFirst
  <1>2. \A i \in 1 .. Len(d) : i + Pieces \in 1 .. Len(s)
    BY <1>0, <1>1
  <1>3. EndsWhole(s) => EndsWhole(d)
    <2>1. Len(d) > 0 => Len(s) > 0 /\ Len(d) \in 1 .. Len(d) /\ Len(d) + Pieces = Len(s)
      BY <1>0, <1>1
    <2> QED
      BY <1>1, <2>1 DEF EndsWhole
  <1>4. ASSUME Framed(s)
        PROVE /\ s[1].piece = 1 /\ s[Pieces].piece = Pieces /\ s[Pieces].frame = s[1].frame
              /\ \A i \in 1 .. Len(d) : s[1].frame.id < d[i].frame.id
    <2>1. s[1].piece = 1
      BY <1>0, <1>4 DEF Framed
    <2>2. s[Pieces].piece = Pieces /\ s[Pieces].frame = s[1].frame
      <3>1. CASE Pieces = 1
        BY <2>1, <3>1
      <3>2. CASE Pieces # 1
        BY <1>0, <1>4, <2>1, <3>2 DEF Framed
      <3> QED
        BY <3>1, <3>2
    <2>3. ASSUME NEW i \in 1 .. Len(d) PROVE s[1].frame.id < d[i].frame.id
      <3>1. i + Pieces \in 1 .. Len(s) /\ 1 < i + Pieces /\ ~(1 + (i + Pieces - 1) <= Pieces)
        BY <1>0, <1>2
      <3> QED
        BY <1>0, <1>1, <1>4, <2>1, <3>1 DEF Framed
    <2> QED
      BY <2>1, <2>2, <2>3
  <1>5. ASSUME Framed(s) PROVE Framed(d)
    <2>1. Len(d) > 0 => d[1].piece = 1
      <3>1. Len(d) > 0 => Pieces \in 1 .. Len(s) - 1 /\ 1 \in 1 .. Len(d) /\ 1 + Pieces = Pieces + 1
        BY <1>0, <1>1
      <3> QED
        BY <1>1, <1>4, <1>5, <3>1 DEF Framed
    <2>2. \A i \in 1 .. Len(d) - 1 : d[i].piece = Pieces => d[i + 1].piece = 1
      <3>1. \A i \in 1 .. Len(d) - 1 : /\ i \in 1 .. Len(d) /\ i + 1 \in 1 .. Len(d)
                                       /\ i + Pieces \in 1 .. Len(s) - 1
                                       /\ (i + 1) + Pieces = (i + Pieces) + 1
        BY <1>0, <1>1
      <3> QED
        BY <1>1, <1>5, <3>1 DEF Framed
    <2>3. ASSUME NEW i \in 1 .. Len(d), NEW j \in 1 .. Len(d), i < j
          PROVE IF d[i].piece + (j - i) <= Pieces
                THEN d[j].piece = d[i].piece + (j - i) /\ d[j].frame = d[i].frame
                ELSE d[i].frame.id < d[j].frame.id
      <3>1. /\ i + Pieces \in 1 .. Len(s) /\ j + Pieces \in 1 .. Len(s) /\ i + Pieces < j + Pieces
            /\ (j + Pieces) - (i + Pieces) = j - i
        BY <1>0, <1>2, <2>3
      <3>2. d[i] = s[i + Pieces] /\ d[j] = s[j + Pieces]
        BY <1>1
      <3> QED
        BY <1>5, <3>1, <3>2 DEF Framed
    <2> QED
      BY <2>1, <2>2, <2>3 DEF Framed
  <1> QED
    BY <1>0, <1>1, <1>2, <1>3, <1>4, <1>5

\* Taking the first frame of what is buffered takes it off the whole stream.
LEMMA DropJoined ==
  ASSUME NEW s \in Seq(Items), NEW t \in Seq(Items), Len(s) >= Pieces
  PROVE WithoutFirst(s) \o t = WithoutFirst(s \o t)
  <1> SUFFICES ASSUME NEW w, w = s \o t, NEW d, d = WithoutFirst(s),
                      NEW l, l = d \o t, NEW r, r = WithoutFirst(w)
               PROVE l = r
    OBVIOUS
  <1>1. /\ d \in Seq(Items) /\ Len(d) = Len(s) - Pieces
        /\ \A i \in 1 .. Len(d) : d[i] = s[i + Pieces]
    BY FramedDrop
  <1>2. /\ w \in Seq(Items) /\ Len(w) = Len(s) + Len(t) /\ Len(s) \in Nat /\ Len(t) \in Nat
        /\ \A i \in 1 .. Len(s) : w[i] = s[i]
        /\ \A i \in 1 .. Len(t) : w[Len(s) + i] = t[i]
    BY Joined
  <1>3. /\ r \in Seq(Items) /\ Len(r) = Len(s) + Len(t) - Pieces
        /\ \A i \in 1 .. Len(r) : r[i] = w[i + Pieces]
    <2>1. Len(w) >= Pieces
      BY <1>2, PiecesPositive
    <2>2. /\ WithoutFirst(w) \in Seq(Items) /\ Len(WithoutFirst(w)) = Len(w) - Pieces
          /\ \A i \in 1 .. Len(WithoutFirst(w)) : WithoutFirst(w)[i] = w[i + Pieces]
      BY <1>2, <2>1, FramedDrop
    <2>3. /\ r \in Seq(Items) /\ Len(r) = Len(w) - Pieces
          /\ \A i \in 1 .. Len(r) : r[i] = w[i + Pieces]
      BY <2>2, Zenon
    <2>4. Len(w) - Pieces = Len(s) + Len(t) - Pieces
      BY <1>2, PiecesPositive
    <2> QED
      BY <2>3, <2>4, Zenon
  <1>4. /\ l \in Seq(Items) /\ Len(l) = (Len(s) - Pieces) + Len(t)
        /\ \A i \in 1 .. Len(s) - Pieces : l[i] = s[i + Pieces]
        /\ \A i \in 1 .. Len(t) : l[(Len(s) - Pieces) + i] = t[i]
    <2>1. /\ l \in Seq(Items) /\ Len(l) = Len(d) + Len(t)
          /\ \A i \in 1 .. Len(d) : l[i] = d[i]
          /\ \A i \in 1 .. Len(t) : l[Len(d) + i] = t[i]
      <3>1. d \in Seq(Items) /\ t \in Seq(Items)
        BY <1>1
      <3>2. /\ d \o t \in Seq(Items) /\ Len(d \o t) = Len(d) + Len(t)
            /\ \A i \in 1 .. Len(d) : (d \o t)[i] = d[i]
            /\ \A i \in 1 .. Len(t) : (d \o t)[Len(d) + i] = t[i]
        BY <3>1, Joined
      <3> QED
        BY <3>2, Zenon
    <2> QED
      BY <1>1, <2>1
  <1>5. ASSUME NEW i \in 1 .. Len(l) PROVE l[i] = r[i]
    <2>1. i \in 1 .. Len(r)
      BY <1>2, <1>3, <1>4, PiecesPositive
    <2>2. CASE i <= Len(s) - Pieces
      <3>1. i \in 1 .. Len(s) - Pieces /\ i + Pieces \in 1 .. Len(s)
        BY <1>2, <1>4, <2>2, PiecesPositive
      <3> QED
        BY <1>2, <1>3, <1>4, <2>1, <3>1
    <2>3. CASE ~(i <= Len(s) - Pieces)
      <3> DEFINE k == i - (Len(s) - Pieces)
      <3>1. k \in 1 .. Len(t) /\ (Len(s) - Pieces) + k = i /\ Len(s) + k = i + Pieces
        BY <1>2, <1>4, <2>3, PiecesPositive
      <3>2. l[i] = t[k]
        BY <1>4, <3>1
      <3>3. r[i] = t[k]
        BY <1>2, <1>3, <2>1, <3>1
      <3> QED
        BY <3>2, <3>3
    <2> QED
      BY <2>2, <2>3
  <1>6. Len(l) = Len(r)
    BY <1>2, <1>3, <1>4, PiecesPositive
  <1> QED
    BY <1>3, <1>4, <1>5, <1>6, SeqEqual

\* One more piece of the last frame, or the first piece of a new one.
LEMMA FramedAppend ==
  ASSUME NEW s \in Seq(Items), NEW f \in Frames, NEW n \in 1 .. Pieces, Framed(s),
         IF n = 1 THEN EndsWhole(s) /\ \A i \in 1 .. Len(s) : s[i].frame.id < f.id
                  ELSE Len(s) > 0 /\ s[Len(s)] = Piece(f, n - 1)
  PROVE /\ Append(s, Piece(f, n)) \in Seq(Items) /\ Framed(Append(s, Piece(f, n)))
        /\ Len(Append(s, Piece(f, n))) = Len(s) + 1 /\ Len(s) \in Nat
        /\ \A i \in 1 .. Len(s) : Append(s, Piece(f, n))[i] = s[i]
        /\ Append(s, Piece(f, n))[Len(s) + 1] = Piece(f, n)
  <1> DEFINE e == Piece(f, n)
             w == Append(s, e)
             m == Len(s)
  <1>0. /\ m \in Nat /\ Pieces \in Nat /\ n \in Nat /\ n >= 1 /\ n <= Pieces
        /\ e \in Items /\ e.frame = f /\ e.piece = n
    BY LenProperties, PiecesPositive DEF Piece, Items
  <1>1. /\ w \in Seq(Items) /\ Len(w) = m + 1
        /\ \A i \in 1 .. m : w[i] = s[i]
        /\ w[m + 1] = e
    BY <1>0, AppendProperties
  <1> HIDE DEF w, e
  <1>a. \A i \in 1 .. m : s[i].piece \in Nat /\ s[i].piece >= 1 /\ s[i].piece <= Pieces /\ s[i].frame.id \in Nat
    BY ItemFields, <1>0
  <1>b. n # 1 => m \in 1 .. m /\ s[m].piece = n - 1 /\ s[m].frame = f
    BY <1>0 DEF Piece
  <1>c. n = 1 => \A i \in 1 .. m : s[i].frame.id < f.id
    OBVIOUS
  <1>d. n = 1 /\ m > 0 => m \in 1 .. m /\ s[m].piece = Pieces
    BY <1>0 DEF EndsWhole
  <1>2. w[1].piece = 1
    <2>1. CASE m = 0
      BY <1>0, <1>1, <1>b, <2>1
    <2>2. CASE m > 0
      BY <1>0, <1>1, <2>2 DEF Framed
    <2> QED
      BY <1>0, <2>1, <2>2
  <1>3. ASSUME NEW i \in 1 .. Len(w) - 1, w[i].piece = Pieces PROVE w[i + 1].piece = 1
    <2>1. CASE i = m
      <3>1. i \in 1 .. m /\ s[m].piece = Pieces
        BY <1>0, <1>1, <1>3, <2>1
      <3>2. n = 1
        BY <1>0, <1>b, <3>1
      <3> QED
        BY <1>0, <1>1, <2>1, <3>2
    <2>2. CASE i # m
      <3>1. i \in 1 .. m - 1 /\ i \in 1 .. m /\ i + 1 \in 1 .. m
        BY <1>0, <1>1, <2>2
      <3> QED
        BY <1>1, <1>3, <3>1 DEF Framed
    <2> QED
      BY <2>1, <2>2
  <1>4. ASSUME NEW i \in 1 .. Len(w), NEW j \in 1 .. Len(w), i < j
        PROVE IF w[i].piece + (j - i) <= Pieces
              THEN w[j].piece = w[i].piece + (j - i) /\ w[j].frame = w[i].frame
              ELSE w[i].frame.id < w[j].frame.id
    <2>0. i \in 1 .. m /\ w[i] = s[i] /\ m > 0 /\ m \in 1 .. m /\ s[i].piece \in Nat /\ s[i].piece >= 1
      BY <1>0, <1>1, <1>4, <1>a
    <2>1. CASE j <= m
      <3>1. i \in 1 .. m /\ j \in 1 .. m /\ w[i] = s[i] /\ w[j] = s[j]
        BY <1>0, <1>1, <2>0, <2>1
      <3> QED
        BY <1>4, <3>1 DEF Framed
    <2>2. CASE j = m + 1 /\ i = m
      <3>1. CASE n = 1
        BY <1>0, <1>1, <1>c, <1>d, <2>0, <2>2, <3>1
      <3>2. CASE n # 1
        BY <1>0, <1>1, <1>b, <2>0, <2>2, <3>2
      <3> QED
        BY <3>1, <3>2
    <2>3. CASE j = m + 1 /\ i < m
      <3>1. IF s[i].piece + (m - i) <= Pieces
            THEN s[m].piece = s[i].piece + (m - i) /\ s[m].frame = s[i].frame
            ELSE s[i].frame.id < s[m].frame.id
        BY <2>0, <2>3 DEF Framed
      <3>2. CASE n = 1
        BY <1>0, <1>1, <1>c, <1>d, <2>0, <2>3, <3>1, <3>2
      <3>3. CASE n # 1
        <4>1. s[m].piece = n - 1 /\ s[m].frame = f /\ w[j].piece = n /\ w[j].frame = f
          BY <1>0, <1>1, <1>b, <2>3, <3>3
        <4>2. CASE s[i].piece + (m - i) <= Pieces
          <5>1. s[m].piece = s[i].piece + (m - i) /\ s[m].frame = s[i].frame
            BY <3>1, <4>2
          <5>a. i \in Nat /\ m \in Nat /\ n \in Nat /\ s[i].piece \in Nat /\ j = m + 1
            BY <1>0, <2>0, <2>3
          <5>b. n - 1 = s[i].piece + (m - i)
            BY <4>1, <5>1
          <5>2. n = s[i].piece + (j - i)
            BY <5>a, <5>b
          <5> QED
            BY <1>0, <2>0, <4>1, <5>1, <5>2
        <4>3. CASE ~(s[i].piece + (m - i) <= Pieces)
          <5>1. ~(s[i].piece + (j - i) <= Pieces)
            BY <1>0, <2>0, <2>3, <4>3
          <5> QED
            BY <2>0, <3>1, <4>1, <4>3, <5>1
        <4> QED
          BY <4>2, <4>3
      <3> QED
        BY <3>2, <3>3
    <2> QED
      BY <1>0, <1>1, <1>4, <2>0, <2>1, <2>2, <2>3
  <1>5. Framed(w)
    BY <1>2, <1>3, <1>4 DEF Framed
  <1> QED
    BY <1>0, <1>1, <1>5 DEF w, e

\* The pieces of one frame, as the session sends them.
Block(f) == [n \in 1 .. Pieces |-> Piece(f, n)]

LEMMA BlockIsFrame ==
  ASSUME NEW f \in Frames
  PROVE /\ Block(f) \in Seq(Items) /\ Len(Block(f)) = Pieces
        /\ \A n \in 1 .. Pieces : Block(f)[n].frame = f /\ Block(f)[n].piece = n
        /\ EndsWhole(Block(f))
  <1>1. \A n \in 1 .. Pieces : Piece(f, n) \in Items /\ Piece(f, n).frame = f /\ Piece(f, n).piece = n
    BY DEF Piece, Items
  <1>2. Block(f) \in [1 .. Pieces -> Items]
    BY <1>1 DEF Block
  <1>3. Block(f) \in Seq(Items)
    BY <1>2, PiecesPositive, SeqDef
  <1>4. Len(Block(f)) = Pieces
    BY <1>2, <1>3, PiecesPositive, LenProperties
  <1> QED
    BY <1>1, <1>3, <1>4, PiecesPositive DEF Block, EndsWhole

\* A whole frame behind whole frames of smaller ids.
LEMMA FramedBlock ==
  ASSUME NEW s \in Seq(Items), NEW f \in Frames, Framed(s), EndsWhole(s),
         \A i \in 1 .. Len(s) : s[i].frame.id < f.id
  PROVE Framed(s \o Block(f))
  <1> DEFINE m == Len(s)
             w == s \o Block(f)
  <1>1. /\ m \in Nat /\ Pieces \in Nat /\ Pieces >= 1 /\ Len(w) = m + Pieces
        /\ \A i \in 1 .. m : w[i] = s[i]
        /\ \A i \in 1 .. Pieces : w[m + i].frame = f /\ w[m + i].piece = i
    <2> DEFINE b == Block(f)
    <2>1. b \in Seq(Items) /\ Len(b) = Pieces /\ \A n \in 1 .. Pieces : b[n].frame = f /\ b[n].piece = n
      BY BlockIsFrame
    <2> HIDE DEF b
    <2>2. /\ Len(s \o b) = Len(s) + Len(b) /\ Len(s) \in Nat
          /\ \A i \in 1 .. Len(s) : (s \o b)[i] = s[i]
          /\ \A i \in 1 .. Len(b) : (s \o b)[Len(s) + i] = b[i]
      BY <2>1, Joined
    <2> QED
      BY <2>1, <2>2, PiecesPositive DEF b
  <1> HIDE DEF w
  <1>a. \A i \in 1 .. m : s[i].piece \in Nat /\ s[i].piece >= 1 /\ s[i].piece <= Pieces /\ s[i].frame.id \in Nat
    BY ItemFields, <1>1
  <1>b. m > 0 => m \in 1 .. m /\ s[m].piece = Pieces
    BY <1>1 DEF EndsWhole
  <1>c. \A i \in m + 1 .. m + Pieces : w[i].frame = f /\ w[i].piece = i - m
    <2>1. \A i \in m + 1 .. m + Pieces : i - m \in 1 .. Pieces /\ m + (i - m) = i
      BY <1>1
    <2> QED
      BY <1>1, <2>1
  <1>2. w[1].piece = 1
    <2>1. CASE m = 0
      BY <1>1, <1>c, <2>1
    <2>2. CASE m > 0
      BY <1>1, <2>2 DEF Framed
    <2> QED
      BY <1>1, <2>1, <2>2
  <1>3. ASSUME NEW i \in 1 .. Len(w) - 1, w[i].piece = Pieces PROVE w[i + 1].piece = 1
    <2>1. CASE i < m
      <3>1. i \in 1 .. m - 1 /\ i \in 1 .. m /\ i + 1 \in 1 .. m
        BY <1>1, <2>1
      <3>2. s[i].piece = Pieces /\ w[i + 1] = s[i + 1]
        BY <1>1, <1>3, <3>1
      <3> QED
        BY <3>1, <3>2 DEF Framed
    <2>2. CASE i = m
      BY <1>1, <1>c, <2>2
    <2>3. CASE i > m
      BY <1>1, <1>3, <1>c, <2>3
    <2> QED
      BY <1>1, <2>1, <2>2, <2>3
  <1>4. ASSUME NEW i \in 1 .. Len(w), NEW j \in 1 .. Len(w), i < j
        PROVE IF w[i].piece + (j - i) <= Pieces
              THEN w[j].piece = w[i].piece + (j - i) /\ w[j].frame = w[i].frame
              ELSE w[i].frame.id < w[j].frame.id
    <2>1. CASE j <= m
      <3>1. i \in 1 .. m /\ j \in 1 .. m /\ w[i] = s[i] /\ w[j] = s[j]
        BY <1>1, <1>4, <2>1
      <3> QED
        BY <1>4, <3>1 DEF Framed
    <2>2. CASE i > m
      <3>1. i \in m + 1 .. m + Pieces /\ j \in m + 1 .. m + Pieces
        BY <1>1, <1>4, <2>2
      <3>2. w[i].frame = f /\ w[i].piece = i - m /\ w[j].frame = f /\ w[j].piece = j - m
        BY <1>c, <3>1
      <3>3. (i - m) + (j - i) = j - m /\ j - m <= Pieces
        BY <1>1, <3>1
      <3> QED
        BY <3>2, <3>3
    <2>3. CASE i <= m /\ j > m
      <3>1. i \in 1 .. m /\ w[i] = s[i] /\ w[j].frame = f /\ s[i].frame.id < f.id
        BY <1>1, <1>c, <2>3
      <3>2. ~(s[i].piece + (j - i) <= Pieces)
        <4>1. CASE i = m
          BY <1>1, <1>b, <2>3, <4>1
        <4>2. CASE i < m
          <5>1. ~(s[i].piece + (m - i) < Pieces)
            <6>1. i \in 1 .. m /\ m \in 1 .. m /\ i < m /\ s[m].piece = Pieces
              BY <1>1, <1>b, <3>1, <4>2
            <6>2. s[i].piece + (m - i) <= Pieces => s[m].piece = s[i].piece + (m - i)
              BY <6>1 DEF Framed
            <6> QED
              BY <1>1, <1>a, <6>1, <6>2
          <5> QED
            BY <1>1, <1>a, <2>3, <3>1, <5>1
        <4> QED
          BY <1>1, <2>3, <4>1, <4>2
      <3> QED
        BY <3>1, <3>2
    <2> QED
      BY <1>1, <2>1, <2>2, <2>3
  <1>5. Framed(w)
    BY <1>2, <1>3, <1>4 DEF Framed
  <1> QED
    BY <1>5 DEF w
-----------------------------------------------------------------------------
(* The kinds of step *)

Begins(u) ==
  /\ pc[u] = "lock" /\ mutex = Nobody
  /\ \E k \in Admitted(u) : Begin(u, k)
  /\ UNCHANGED <<inbox, told, server, world, up, down>>

Closes(u) ==
  /\ pc[u] = "lock" /\ mutex = Nobody
  /\ phase' = "closed" /\ Return(u)
  /\ UNCHANGED <<nextId, inbox, told, server, world, up, down>>

\* A request ends: with the answer that carries its id, or in a failure.
Ends(u, answer) ==
  /\ pc[u] \in {"send", "await"} /\ (pc[u] = "send" => lost \/ session = "closed")
  /\ End(u, answer)
  /\ \/ inbox' = inbox /\ answer = "failure"
     \/ Complete(inbox) /\ inbox' = WithoutFirst(inbox)
  /\ answer # "failure" => FirstFrame(inbox).id = id /\ FirstFrame(inbox).kind = answer
  /\ errors' \in {errors, errors + 1} /\ (errors' # errors => errors < MaxErrors)
  /\ UNCHANGED <<server, lost, up, down>>

Skips(u) ==
  /\ pc[u] = "await" /\ Complete(inbox) /\ FirstFrame(inbox).id # id
  /\ inbox' = WithoutFirst(inbox)
  /\ skipped < MaxSkipped /\ skipped' = skipped + 1
  /\ UNCHANGED <<phase, pc, mutex, kind, id, progress, nextId, told, server, world, up, down>>

Stops == ReceiveEnds \/ Expire

LEMMA Kinds ==
  ASSUME [Next]_vars
  PROVE \/ \E u \in Users : \/ Call(u) \/ Begins(u) \/ Closes(u) \/ SendPiece(u) \/ Read(u) \/ Skips(u)
                            \/ \E answer : Ends(u, answer)
        \/ ReceivePieces \/ Handle \/ Stops \/ EndSession \/ Lose \/ UNCHANGED vars
  <1>1. ASSUME NEW u \in Users, UserStep(u) \/ ReadFails(u)
        PROVE \/ Begins(u) \/ Closes(u) \/ SendPiece(u) \/ Read(u) \/ Skips(u)
              \/ \E answer : Ends(u, answer)
    <2>1. CASE Lock(u)
      BY <2>1 DEF Lock, Begins, Closes
    <2>2. CASE SendFails(u)
      BY <2>2 DEF SendFails, Ends, SessionGone, world
    <2>3. CASE TakeAnswer(u)
      <3>1. \/ Skips(u)
            \/ \E answer : /\ answer # "failure" => FirstFrame(inbox).id = id /\ FirstFrame(inbox).kind = answer
                           /\ End(u, answer)
        BY <2>3 DEF TakeAnswer, Skips
      <3>2. ASSUME NEW answer, End(u, answer),
                   answer # "failure" => FirstFrame(inbox).id = id /\ FirstFrame(inbox).kind = answer
            PROVE Ends(u, answer)
        BY <2>3, <3>2 DEF TakeAnswer, Ends, world
      <3> QED
        BY <3>1, <3>2
    <2>4. CASE RefuseFrame(u)
      BY <2>4 DEF RefuseFrame, Ends, world
    <2>5. CASE ReadEnds(u)
      BY <2>5 DEF ReadEnds, Ends, world
    <2>6. CASE ReadFails(u)
      BY <2>6 DEF ReadFails, Ends
    <2> QED
      BY <1>1, <2>1, <2>2, <2>3, <2>4, <2>5, <2>6 DEF UserStep
  <1> QED
    BY <1>1 DEF Next, SessionStep, Stops

\* The streams as sequences of pieces.
LEMMA Streams ==
  ASSUME TypeOK
  PROVE /\ inbox \in Seq(Items) /\ down \in Seq(Items) /\ inbound \in Seq(Items) /\ up \in Seq(Items)
        /\ Up \in Seq(Items) /\ Down \in Seq(Items)
        /\ Len(Up) \in Nat /\ Len(Down) \in Nat /\ Len(inbox) \in Nat /\ Len(inbound) \in Nat
  <1>1. inbox \in Seq(Items) /\ down \in Seq(Items) /\ inbound \in Seq(Items) /\ up \in Seq(Items)
    BY DEF TypeOK, Buffers, Items
  <1> QED
    BY <1>1, Joined, LenProperties DEF Up, Down

\* A complete frame in a buffer is the first of the whole stream.
LEMMA FirstOfStream ==
  ASSUME TypeOK
  PROVE /\ Complete(inbox) => /\ Len(Down) >= Pieces /\ FirstFrame(inbox) = Down[1].frame
                              /\ WithoutFirst(inbox) \o down = WithoutFirst(Down)
                              /\ 1 \in 1 .. Len(Down) /\ Pieces \in 1 .. Len(Down)
        /\ Complete(inbound) => /\ Len(Up) >= Pieces /\ FirstFrame(inbound) = Up[1].frame
                                /\ WithoutFirst(inbound) \o up = WithoutFirst(Up)
                                /\ 1 \in 1 .. Len(Up) /\ Pieces \in 1 .. Len(Up)
  <1>1. ASSUME NEW s \in Seq(Items), NEW t \in Seq(Items), NEW w, w = s \o t, Len(s) >= Pieces
        PROVE /\ Len(w) >= Pieces /\ s[1] = w[1] /\ WithoutFirst(s) \o t = WithoutFirst(w)
              /\ 1 \in 1 .. Len(w) /\ Pieces \in 1 .. Len(w)
    <2>1. /\ Len(w) = Len(s) + Len(t) /\ Len(s) \in Nat /\ Len(t) \in Nat
          /\ \A i \in 1 .. Len(s) : w[i] = s[i]
      BY <1>1, Joined
    <2>2. 1 \in 1 .. Len(s)
      BY <1>1, <2>1, PiecesPositive
    <2>3. WithoutFirst(s) \o t = WithoutFirst(w)
      BY <1>1, DropJoined
    <2> QED
      BY <1>1, <2>1, <2>2, <2>3, PiecesPositive
  <1> QED
    BY <1>1, Streams DEF Complete, FirstFrame, Up, Down

\* The requests that have committed, and one more.
LEMMA Commits ==
  ASSUME TypeOK
  PROVE /\ committed \subseteq Nat
        /\ commits' = commits => committed' = committed
        /\ \A n \in Nat : commits' = Append(commits, n) => committed' = committed \cup {n} /\ commits' \in Seq(Nat)
  <1>1. commits \in Seq(Nat) /\ Len(commits) \in Nat /\ DOMAIN commits = 1 .. Len(commits)
    BY LenProperties DEF TypeOK
  <1>2. committed \subseteq Nat
    BY <1>1, ElementOfSeq DEF committed
  <1>3. ASSUME NEW n \in Nat, commits' = Append(commits, n)
        PROVE committed' = committed \cup {n} /\ commits' \in Seq(Nat)
    <2>1. /\ commits' \in Seq(Nat) /\ Len(commits') = Len(commits) + 1
          /\ DOMAIN commits' = 1 .. Len(commits')
          /\ \A i \in 1 .. Len(commits) : commits'[i] = commits[i]
          /\ commits'[Len(commits) + 1] = n
      BY <1>1, <1>3, AppendProperties, LenProperties
    <2>2. 1 .. Len(commits') = 1 .. Len(commits) \cup {Len(commits) + 1}
      BY <1>1, <2>1
    <2> QED
      BY <1>1, <2>1, <2>2 DEF committed
  <1> QED
    BY <1>2, <1>3 DEF committed

\* Ids that a caller may take are typed, whatever the threads that wait.
LEMMA IdsTyped ==
  ASSUME TypeOK, OneCaller, mutex # Nobody, NEW d \in Damages, NEW k \in Requests \cup Answers
  PROVE [id |-> id, kind |-> k, damage |-> d] \in Frames
  <1>1. /\ Cardinality(Users) \in Nat
        /\ Cardinality({u \in Users : pc[u] = "lock"}) \in Nat
    BY ExchangeAssumption, FS_CardinalityType, FS_Subset
  <1>2. id < nextId /\ nextId <= MaxRequests + 1 + Cardinality(Users) /\ id \in Nat /\ nextId \in Nat
    BY <1>1, ExchangeAssumption DEF OneCaller, TypeOK
  <1>3. id \in 0 .. MaxRequests + Cardinality(Users)
    BY <1>1, <1>2, ExchangeAssumption
  <1> QED
    BY <1>3 DEF Frames

\* A thread that comes to wait for the mutex, and one that stops to.
LEMMA LockCount ==
  ASSUME NEW u \in Users, NEW q, NEW r, r = {x \in Users : q[x] = "lock"}
  PROVE /\ Cardinality(r) \in Nat /\ Cardinality(Users) \in Nat /\ Cardinality(r) <= Cardinality(Users)
        /\ q[u] # "lock" => Cardinality(r) + 1 <= Cardinality(Users) /\ Cardinality(r \cup {u}) = Cardinality(r) + 1
        /\ q[u] = "lock" => Cardinality(r \ {u}) = Cardinality(r) - 1
  <1>1. IsFiniteSet(r) /\ r \subseteq Users /\ IsFiniteSet(Users) /\ (u \in r <=> q[u] = "lock")
    BY ExchangeAssumption, FS_Subset
  <1>2. Cardinality(r) \in Nat /\ Cardinality(Users) \in Nat /\ Cardinality(r) <= Cardinality(Users)
    BY <1>1, FS_CardinalityType, FS_Subset
  <1>3. ASSUME q[u] # "lock"
        PROVE Cardinality(r) + 1 <= Cardinality(Users) /\ Cardinality(r \cup {u}) = Cardinality(r) + 1
    <2>1. Cardinality(r \cup {u}) = Cardinality(r) + 1
      BY <1>1, <1>3, FS_AddElement
    <2>2. Cardinality(r \cup {u}) <= Cardinality(Users)
      BY <1>1, FS_Subset
    <2> QED
      BY <2>1, <2>2
  <1>4. q[u] = "lock" => Cardinality(r \ {u}) = Cardinality(r) - 1
    BY <1>1, FS_RemoveElement
  <1> QED
    BY <1>2, <1>3, <1>4
-----------------------------------------------------------------------------
(* The steps *)

\* Every step keeps the types.
LEMMA StepTyped == ASSUME XInv, [Next]_vars PROVE TypeOK'
  <1>0. /\ inbox \in Seq(Items) /\ down \in Seq(Items) /\ inbound \in Seq(Items) /\ up \in Seq(Items)
        /\ Buffers = Seq(Items)
        /\ Complete(inbox) => WithoutFirst(inbox) \in Seq(Items)
        /\ Complete(inbound) => WithoutFirst(inbound) \in Seq(Items)
    BY Streams, FramedDrop DEF XInv, Complete, Buffers, Items
  <1> USE DEF XInv, TypeOK, server, world
  <1>1. ASSUME NEW u \in Users, Call(u) PROVE TypeOK'
    BY <1>1 DEF Call, call
  <1>2. ASSUME NEW u \in Users, Begins(u) PROVE TypeOK'
    BY <1>2 DEF Begins, Begin, Admitted, Requests
  <1>3. ASSUME NEW u \in Users, Closes(u) PROVE TypeOK'
    BY <1>3, ExchangeAssumption DEF Closes, Return
  <1>4. ASSUME NEW u \in Users, SendPiece(u) PROVE TypeOK'
    <2>1. mutex = u /\ mutex # Nobody /\ progress < Pieces /\ kind \in Requests
      BY <1>4, ExchangeAssumption DEF SendPiece, OneCaller, Sending
    <2>2. progress + 1 \in 0 .. Pieces /\ progress + 1 \in 1 .. Pieces
      BY <2>1, PiecesPositive
    <2>3. [id |-> id, kind |-> kind, damage |-> "none"] \in Frames
      BY <2>1, IdsTyped DEF Damages
    <2>4. Piece([id |-> id, kind |-> kind, damage |-> "none"], progress + 1) \in Items
      BY <2>2, <2>3 DEF Piece, Items
    <2>5. up' \in Seq(Items)
      <3>1. CASE session = "closed"
        BY <1>0, <1>4, <3>1 DEF SendPiece
      <3>2. CASE session # "closed"
        <4>1. up' = Append(up, Piece([id |-> id, kind |-> kind, damage |-> "none"], progress + 1))
          BY <1>4, <3>2 DEF SendPiece
        <4> QED
          BY <1>0, <2>4, <4>1, AppendProperties
      <3> QED
        BY <3>1, <3>2
    <2> QED
      BY <1>0, <1>4, <2>2, <2>5 DEF SendPiece
  <1>5. ASSUME NEW u \in Users, Read(u) PROVE TypeOK'
    <2>1. inbox \o down \in Seq(Items) /\ <<>> \in Seq(Items)
      BY <1>0, Joined, EmptySeq
    <2> QED
      BY <1>0, <1>5, <2>1 DEF Read, call
  <1>6. ASSUME NEW u \in Users, Skips(u) PROVE TypeOK'
    BY <1>0, <1>6, ExchangeAssumption DEF Skips
  <1>7. ASSUME NEW u \in Users, NEW answer, Ends(u, answer) PROVE TypeOK'
    <2>1. mutex # Nobody /\ id \in Nat
      BY <1>7, ExchangeAssumption DEF Ends, OneCaller
    <2>2. answer \in Answers \cup {"failure"}
      <3>1. CASE answer = "failure"
        BY <3>1
      <3>2. CASE answer # "failure"
        <4>1. Complete(inbox) /\ FirstFrame(inbox).kind = answer
          BY <1>7, <3>2 DEF Ends
        <4>2. Down[1].frame.kind \in Answers
          BY <4>1, FirstOfStream DEF AnswersFramed
        <4> QED
          BY <4>1, <4>2, FirstOfStream
      <3> QED
        BY <3>1, <3>2
    <2>3. told' \subseteq [id : Nat, answer : Answers \cup {"failure"}, mutation : BOOLEAN]
      <3>1. told' = told \cup {[id |-> id, answer |-> answer, mutation |-> kind = "mutation"]}
        BY <1>7 DEF Ends, End
      <3>3. (kind = "mutation") \in BOOLEAN
        OBVIOUS
      <3>4. [id |-> id, answer |-> answer, mutation |-> kind = "mutation"]
              \in [id : Nat, answer : Answers \cup {"failure"}, mutation : BOOLEAN]
        BY <2>1, <2>2, <3>3
      <3> QED
        BY <3>1, <3>4
    <2>4. phase' \in {"new", "open", "closed"}
      BY <1>7 DEF Ends, End
    <2>5. /\ mutex' \in Users \cup {Nobody} /\ pc' \in [Users -> {"idle", "lock", "send", "await"}]
          /\ kind' \in Requests \cup {"none"} /\ id' \in Nat /\ nextId' \in Nat \ {0}
          /\ progress' \in 0 .. Pieces /\ skipped' \in 0 .. MaxSkipped
      BY <1>7, ExchangeAssumption DEF Ends, End, Return
    <2>6. errors' \in 0 .. MaxErrors
      BY <1>7, ExchangeAssumption DEF Ends
    <2> QED
      BY <1>0, <1>7, <2>3, <2>4, <2>5, <2>6 DEF Ends
  <1>8. ASSUME ReceivePieces PROVE TypeOK'
    <2>1. inbound \o up \in Seq(Items) /\ <<>> \in Seq(Items)
      BY <1>0, Joined, EmptySeq
    <2> QED
      BY <1>0, <1>8, <2>1 DEF ReceivePieces, client, call
  <1>9. ASSUME Handle PROVE TypeOK'
    <2>1. PICK answer \in PossibleAnswers(FirstFrame(inbound).kind) :
            LET request == FirstFrame(inbound)
            IN /\ authority' = IF answer = "ack" /\ request.kind # "mutation"
                               THEN request.kind = "attach" ELSE authority
               /\ commits' = IF answer = "ack" /\ request.kind = "mutation"
                             THEN Append(commits, request.id) ELSE commits
               /\ Send([request EXCEPT !.kind = answer])
      BY <1>9 DEF Handle
    <2>2. /\ FirstFrame(inbound) \in Frames /\ FirstFrame(inbound).id \in Nat /\ answer \in Answers
      BY <1>9, Streams, FirstOfStream, ItemFields DEF Handle, PossibleAnswers
    <2>3. [FirstFrame(inbound) EXCEPT !.kind = answer] \in Frames
      BY <2>2 DEF Frames
    <2>4. down' \in Seq(Items) /\ errors' \in 0 .. MaxErrors
      <3>1. ASSUME NEW f \in Frames, Send(f) PROVE down' \in Seq(Items) /\ errors' \in 0 .. MaxErrors
        <4>1. CASE UNCHANGED <<down, errors>>
          BY <1>0, <4>1
        <4>2. CASE ~UNCHANGED <<down, errors>>
          <5>1. PICK damage \in Damages :
                  /\ damage # "none" => errors < MaxErrors
                  /\ errors' = IF damage = "none" THEN errors ELSE errors + 1
                  /\ down' = down \o [n \in 1 .. Pieces |-> Piece([f EXCEPT !.damage = damage], n)]
            BY <3>1, <4>2 DEF Send
          <5>2. [f EXCEPT !.damage = damage] \in Frames
            BY DEF Frames
          <5>3. down' = down \o Block([f EXCEPT !.damage = damage])
            BY <5>1 DEF Block
          <5>4. Block([f EXCEPT !.damage = damage]) \in Seq(Items)
            BY <5>2, BlockIsFrame
          <5>5. down' \in Seq(Items)
            BY <1>0, <5>3, <5>4, Joined
          <5>6. errors \in 0 .. MaxErrors /\ (errors' = errors \/ (errors' = errors + 1 /\ errors < MaxErrors))
            BY <5>1
          <5>7. errors' \in 0 .. MaxErrors
            BY <5>6, ExchangeAssumption
          <5> QED
            BY <5>5, <5>7
        <4> QED
          BY <4>1, <4>2
      <3> QED
        BY <2>1, <2>3, <3>1
    <2>5. authority' \in BOOLEAN
      BY <2>1, <2>2
    <2>6. commits' \in Seq(Nat)
      <3>1. \A n \in Nat : Append(commits, n) \in Seq(Nat)
        BY AppendProperties
      <3> QED
        BY <2>1, <2>2, <3>1
    <2> QED
      BY <1>0, <1>9, <2>4, <2>5, <2>6 DEF Handle, client, call
  <1>10. ASSUME Stops \/ EndSession \/ Lose PROVE TypeOK'
    BY <1>0, <1>10, EmptySeq DEF Stops, ReceiveEnds, Expire, EndSession, Lose, client, call
  <1>11. CASE UNCHANGED vars
    BY <1>0, <1>11 DEF vars, client, call
  <1> QED
    BY <1>1, <1>2, <1>3, <1>4, <1>5, <1>6, <1>7, <1>8, <1>9, <1>10, <1>11, Kinds

\* The caller has the mutex from its first piece to its end, and no id is taken
\* twice.
LEMMA StepOneCaller == ASSUME XInv, [Next]_vars PROVE OneCaller'
  <1> DEFINE waiting == {u \in Users : pc[u] = "lock"}
  <1> USE DEF XInv, TypeOK, OneCaller, Sending
  <1>a. nextId \in Nat /\ Cardinality(waiting) \in Nat /\ Cardinality(Users) \in Nat /\ MaxRequests \in Nat
    BY ExchangeAssumption, FS_CardinalityType, FS_Subset
  <1>1. ASSUME NEW u \in Users, Call(u) PROVE OneCaller'
    <2>1. waiting' = waiting \cup {u} /\ pc[u] # "lock" /\ nextId <= MaxRequests
      BY <1>1 DEF Call
    <2>2. Cardinality(waiting') = Cardinality(waiting) + 1 /\ Cardinality(waiting) + 1 <= Cardinality(Users)
      BY <2>1, LockCount
    <2>3. nextId' + Cardinality(waiting') <= MaxRequests + 1 + Cardinality(Users)
      BY <1>1, <1>a, <2>1, <2>2 DEF Call
    <2> QED
      BY <1>1, <2>3, ExchangeAssumption DEF Call, call
  <1>2. ASSUME NEW u \in Users, Begins(u) PROVE OneCaller'
    <2>1. waiting' = waiting \ {u} /\ pc[u] = "lock" /\ nextId' = nextId + 1
      BY <1>2 DEF Begins, Begin
    <2>2. Cardinality(waiting') = Cardinality(waiting) - 1
      BY <2>1, LockCount
    <2>3. nextId' + Cardinality(waiting') <= MaxRequests + 1 + Cardinality(Users)
      BY <1>a, <2>1, <2>2
    <2>4. kind' \in Requests /\ id' < nextId'
      BY <1>2, <1>a DEF Begins, Begin, Admitted, Requests
    <2> QED
      BY <1>2, <2>3, <2>4, ExchangeAssumption DEF Begins, Begin
  <1>3. ASSUME NEW u \in Users, Closes(u) PROVE OneCaller'
    <2>1. waiting' = waiting \ {u} /\ pc[u] = "lock" /\ nextId' = nextId
      BY <1>3 DEF Closes, Return
    <2>2. Cardinality(waiting') = Cardinality(waiting) - 1
      BY <2>1, LockCount
    <2>3. nextId' + Cardinality(waiting') <= MaxRequests + 1 + Cardinality(Users)
      BY <1>a, <2>1, <2>2
    <2> QED
      BY <1>3, <2>3, ExchangeAssumption DEF Closes, Return
  <1>4. ASSUME NEW u \in Users, SendPiece(u) PROVE OneCaller'
    <2>1. waiting' = waiting /\ mutex = u
      BY <1>4 DEF SendPiece
    <2>2. pc'[u] = "send" => progress' < Pieces
      BY <1>4, <2>1, PiecesPositive, ExchangeAssumption DEF SendPiece
    <2> QED
      BY <1>4, <2>1, <2>2, ExchangeAssumption DEF SendPiece
  <1>5. ASSUME NEW u \in Users, Read(u) \/ Skips(u) PROVE OneCaller'
    BY <1>5, ExchangeAssumption DEF Read, Skips, call
  <1>6. ASSUME NEW u \in Users, NEW answer, Ends(u, answer) PROVE OneCaller'
    <2>1. waiting' = waiting /\ mutex = u
      BY <1>6 DEF Ends, End, Return
    <2> QED
      BY <1>6, <2>1, ExchangeAssumption DEF Ends, End, Return
  <1>7. ASSUME ReceivePieces \/ Handle \/ Stops \/ EndSession \/ Lose PROVE OneCaller'
    BY <1>7 DEF ReceivePieces, Handle, Stops, ReceiveEnds, Expire, EndSession, Lose, client, call
  <1>8. CASE UNCHANGED vars
    BY <1>8 DEF vars, client, call
  <1> QED
    BY <1>1, <1>2, <1>3, <1>4, <1>5, <1>6, <1>7, <1>8, Kinds

\* What the streams and the histories say to each other.
Rest ==
  /\ RequestsFramed /\ HandledInOrder /\ AnswersFramed
  /\ Outstanding(Up) /\ Outstanding(Down) /\ AnswerTellsTruth

\* A step that adds nothing to a stream, takes at most whole frames off it, and
\* neither begins nor ends a request.
LEMMA NothingNew ==
  ASSUME XInv, UNCHANGED <<mutex, nextId, commits, told>>,
         mutex # Nobody => UNCHANGED <<id, kind, progress>>,
         Sending' <=> Sending,
         Framed(Up'), Framed(Down'), EndsWhole(inbox'), EndsWhole(down'),
         \A j \in 1 .. Len(Up') : \E i \in 1 .. Len(Up) : Up'[j] = Up[i],
         \A j \in 1 .. Len(Down') : \E i \in 1 .. Len(Down) : Down'[j] = Down[i],
         ~lost' /\ session' # "closed" => Up' = Up /\ ~lost /\ session # "closed"
  PROVE Rest'
  <1> USE DEF XInv
  <1>0. (Sending => mutex # Nobody) /\ committed' = committed
    BY Commits DEF Sending
  <1>1. RequestsFramed'
    <2>1. ASSUME NEW j \in 1 .. Len(Up')
          PROVE /\ Up'[j].frame.id < nextId'
                /\ Sending' => Up'[j].frame.id < id' \/ (Up'[j].frame.id = id' /\ Up'[j].piece <= progress')
                /\ mutex' # Nobody /\ Up'[j].frame.id = id' => Up'[j].frame.kind = kind'
      <3>1. PICK i \in 1 .. Len(Up) : Up'[j] = Up[i]
        OBVIOUS
      <3> QED
        BY <1>0, <3>1 DEF RequestsFramed
    <2>2. ASSUME ~lost', session' # "closed"
          PROVE IF Sending' /\ progress' > 0
                THEN Len(Up') > 0 /\ Up'[Len(Up')] = Piece([id |-> id', kind |-> kind', damage |-> "none"], progress')
                ELSE EndsWhole(Up')
      BY <1>0, <2>2 DEF RequestsFramed
    <2> QED
      BY <2>1, <2>2 DEF RequestsFramed
  <1>2. ASSUME NEW n, Handled(n) PROVE Handled(n)'
    BY <1>0, <1>2 DEF Handled
  <1>3. HandledInOrder'
    BY <1>0, <1>2 DEF HandledInOrder
  <1>4. AnswersFramed'
    <2>1. ASSUME NEW j \in 1 .. Len(Down')
          PROVE /\ Down'[j].frame.kind \in Answers
                /\ mutex' # Nobody /\ kind' = "mutation" /\ Down'[j].frame.id = id' =>
                     (Down'[j].frame.kind = "ack" <=> id' \in committed')
      <3>1. PICK i \in 1 .. Len(Down) : Down'[j] = Down[i]
        OBVIOUS
      <3> QED
        BY <1>0, <3>1 DEF AnswersFramed
    <2> QED
      BY <2>1 DEF AnswersFramed
  <1>5. Outstanding(Up)' /\ Outstanding(Down)'
    <2>1. mutex # Nobody => id' = id
      OBVIOUS
    <2>2. ASSUME NEW f, (mutex # Nobody /\ f.id = id) \/ \E t \in told : t.id = f.id /\ t.answer = "failure"
          PROVE (mutex' # Nobody /\ f.id = id') \/ \E t \in told' : t.id = f.id /\ t.answer = "failure"
      BY <2>1, <2>2
    <2>3. Outstanding(Up)'
      BY <2>2 DEF Outstanding
    <2>4. Outstanding(Down)'
      BY <2>2 DEF Outstanding
    <2> QED
      BY <2>3, <2>4
  <1>6. AnswerTellsTruth'
    BY <1>0 DEF AnswerTellsTruth
  <1> QED
    BY <1>1, <1>3, <1>4, <1>5, <1>6 DEF Rest

\* The steps that add nothing: a call waits for the mutex or finds the client
\* closed, pieces move into a buffer, an answer is skipped, the session ends, the
\* connection breaks.
LEMMA StepNothingNew ==
  ASSUME XInv,
         \/ \E u \in Users : Call(u) \/ Closes(u) \/ Read(u) \/ Skips(u)
         \/ ReceivePieces \/ Stops \/ EndSession \/ Lose \/ UNCHANGED vars
  PROVE Rest'
  <1> USE DEF XInv
  <1>0. /\ inbox \in Seq(Items) /\ down \in Seq(Items) /\ inbound \in Seq(Items) /\ up \in Seq(Items)
        /\ Up \in Seq(Items) /\ Down \in Seq(Items) /\ Len(Up) \in Nat /\ Len(Down) \in Nat
        /\ Framed(Up) /\ Framed(Down) /\ EndsWhole(inbox) /\ EndsWhole(down)
    BY Streams DEF RequestsFramed, AnswersFramed
  <1>a. Framed(<<>>) /\ EndsWhole(<<>>)
    BY DEF Framed, EndsWhole
  <1>1. ASSUME NEW u \in Users, Call(u) PROVE Rest'
    <2>1. Up' = Up /\ Down' = Down /\ UNCHANGED <<inbox, down, mutex, id, kind, progress, nextId, commits, told, lost, session>>
      BY <1>1 DEF Call, call, server, world, Up, Down
    <2>2. Sending' <=> Sending
      BY <1>1, <2>1, ExchangeAssumption DEF Call, Sending, OneCaller, TypeOK
    <2> QED
      BY <1>0, <2>1, <2>2, NothingNew
  <1>2. ASSUME NEW u \in Users, Closes(u) PROVE Rest'
    <2>1. /\ Up' = Up /\ Down' = Down /\ UNCHANGED <<inbox, down, mutex, nextId, commits, told, lost, session>>
          /\ mutex = Nobody
      BY <1>2 DEF Closes, Return, server, world, Up, Down
    <2>2. Sending' <=> Sending
      BY <2>1 DEF Sending
    <2> QED
      BY <1>0, <2>1, <2>2, NothingNew
  <1>3. ASSUME NEW u \in Users, Read(u) PROVE Rest'
    <2>1. Up' = Up /\ UNCHANGED <<mutex, id, kind, progress, nextId, commits, told, lost, session, pc>>
      BY <1>3 DEF Read, call, server, world, Up
    <2>2. inbox' = Down /\ down' = <<>> /\ Down' = Down
      <3>1. inbox' = Down /\ down' = <<>>
        BY <1>3 DEF Read, Down
      <3>2. Down \o <<>> = Down
        BY <1>0, ConcatEmptySeq
      <3> QED
        BY <3>1, <3>2 DEF Down
    <2>3. EndsWhole(inbox')
      <3>1. /\ Len(Down) = Len(inbox) + Len(down) /\ Len(inbox) \in Nat /\ Len(down) \in Nat
            /\ \A i \in 1 .. Len(down) : Down[Len(inbox) + i] = down[i]
        BY <1>0, Joined DEF Down
      <3>2. Len(down) > 0
        BY <1>0, <1>3, <3>1, EmptySeq DEF Read
      <3>3. Down[Len(Down)] = down[Len(down)] /\ down[Len(down)].piece = Pieces
        BY <1>0, <3>1, <3>2 DEF EndsWhole
      <3> QED
        BY <2>2, <3>3 DEF EndsWhole
    <2>4. Sending' <=> Sending
      BY <2>1 DEF Sending
    <2> QED
      BY <1>0, <1>a, <2>1, <2>2, <2>3, <2>4, NothingNew
  <1>4. ASSUME NEW u \in Users, Skips(u) PROVE Rest'
    <2>1. Up' = Up /\ UNCHANGED <<mutex, id, kind, progress, nextId, commits, told, lost, session, pc, down>>
      BY <1>4 DEF Skips, server, world, Up
    <2>2. Down' = WithoutFirst(Down) /\ inbox' = WithoutFirst(inbox) /\ Len(Down) >= Pieces /\ Len(inbox) >= Pieces
      BY <1>4, FirstOfStream DEF Skips, Down, Complete
    <2>3. /\ Framed(Down') /\ EndsWhole(inbox')
          /\ \A j \in 1 .. Len(Down') : \E i \in 1 .. Len(Down) : Down'[j] = Down[i]
      <3>1. /\ Framed(WithoutFirst(Down))
            /\ \A j \in 1 .. Len(WithoutFirst(Down)) : \E i \in 1 .. Len(Down) : WithoutFirst(Down)[j] = Down[i]
        BY <1>0, <2>2, FramedDrop
      <3>2. EndsWhole(WithoutFirst(inbox))
        BY <1>0, <2>2, FramedDrop
      <3> QED
        BY <2>2, <3>1, <3>2
    <2>4. Sending' <=> Sending
      BY <2>1 DEF Sending
    <2> QED
      BY <1>0, <2>1, <2>2, <2>3, <2>4, NothingNew
  <1>5. CASE ReceivePieces
    <2>1. Down' = Down /\ UNCHANGED <<inbox, down, mutex, id, kind, progress, nextId, commits, told, lost, session, pc>>
      BY <1>5 DEF ReceivePieces, client, call, world, Down
    <2>2. Up' = Up
      <3>1. Up \o <<>> = Up
        BY <1>0, ConcatEmptySeq
      <3> QED
        BY <1>5, <3>1 DEF ReceivePieces, Up
    <2>3. Sending' <=> Sending
      BY <2>1 DEF Sending
    <2> QED
      BY <1>0, <2>1, <2>2, <2>3, NothingNew
  <1>6. CASE Stops
    <2>1. /\ Up' = Up /\ Down' = Down
          /\ UNCHANGED <<inbox, down, mutex, id, kind, progress, nextId, commits, told, lost, pc>>
          /\ session # "closed"
      BY <1>6 DEF Stops, ReceiveEnds, Expire, client, call, world, Up, Down
    <2>2. Sending' <=> Sending
      BY <2>1 DEF Sending
    <2> QED
      BY <1>0, <2>1, <2>2, NothingNew
  <1>7. CASE EndSession
    <2>1. /\ Down' = Down /\ Up' = <<>> /\ session' = "closed"
          /\ UNCHANGED <<inbox, down, mutex, id, kind, progress, nextId, commits, told, lost, pc>>
      <3>1. <<>> \o <<>> = <<>>
        BY EmptySeq, ConcatEmptySeq
      <3> QED
        BY <1>7, <3>1 DEF EndSession, client, call, world, Down, Up
    <2>2. Sending' <=> Sending
      BY <2>1 DEF Sending
    <2> QED
      BY <1>0, <1>a, <2>1, <2>2, NothingNew
  <1>8. CASE Lose
    <2>1. /\ down' = <<>> /\ inbox' = inbox /\ lost'
          /\ UNCHANGED <<mutex, id, kind, progress, nextId, commits, told, session, pc>>
      BY <1>8 DEF Lose, client, server, call
    <2>2. Up' = inbound /\ Down' = inbox
      <3>1. inbound \o <<>> = inbound /\ inbox \o <<>> = inbox
        BY <1>0, ConcatEmptySeq
      <3> QED
        BY <1>8, <3>1 DEF Lose, client, server, Up, Down
    <2>3. /\ Framed(inbound) /\ Framed(inbox)
          /\ \A j \in 1 .. Len(inbound) : \E i \in 1 .. Len(Up) : inbound[j] = Up[i]
          /\ \A j \in 1 .. Len(inbox) : \E i \in 1 .. Len(Down) : inbox[j] = Down[i]
      <3>1. Framed(inbound) /\ Framed(inbox)
        BY <1>0, FramedPrefix DEF Up, Down
      <3>2. \A j \in 1 .. Len(inbound) : j \in 1 .. Len(Up) /\ Up[j] = inbound[j]
        BY <1>0, Joined DEF Up
      <3>3. \A j \in 1 .. Len(inbox) : j \in 1 .. Len(Down) /\ Down[j] = inbox[j]
        BY <1>0, Joined DEF Down
      <3> QED
        BY <3>1, <3>2, <3>3
    <2>4. Sending' <=> Sending
      BY <2>1 DEF Sending
    <2> QED
      BY <1>0, <1>a, <2>1, <2>2, <2>3, <2>4, NothingNew
  <1>9. CASE UNCHANGED vars
    <2>1. /\ Up' = Up /\ Down' = Down
          /\ UNCHANGED <<inbox, down, mutex, id, kind, progress, nextId, commits, told, lost, session, pc>>
      BY <1>9 DEF vars, client, server, call, world, Up, Down
    <2>2. Sending' <=> Sending
      BY <2>1 DEF Sending
    <2> QED
      BY <1>0, <2>1, <2>2, NothingNew
  <1> QED
    BY <1>1, <1>2, <1>3, <1>4, <1>5, <1>6, <1>7, <1>8, <1>9

\* A request begins: its id is greater than all that are known.
LEMMA StepBegins == ASSUME XInv, NEW u \in Users, Begins(u) PROVE Rest'
  <1> USE DEF XInv
  <1>0. /\ Up \in Seq(Items) /\ Down \in Seq(Items) /\ nextId \in Nat /\ committed \subseteq Nat
        /\ \A t \in told : t.id \in Nat
        /\ \A j \in 1 .. Len(Up) : Up[j].frame.id \in Nat
        /\ \A j \in 1 .. Len(Down) : Down[j].frame.id \in Nat
    BY Streams, ItemFields, Commits DEF TypeOK
  <1>1. /\ Up' = Up /\ Down' = Down /\ UNCHANGED <<inbox, down, told, committed, lost, session, progress>>
        /\ mutex = Nobody /\ id' = nextId /\ nextId' = nextId + 1
    BY Commits DEF Begins, Begin, server, world, Up, Down
  <1>2. progress = 0 /\ ~Sending
    BY <1>1 DEF OneCaller, Sending
  <1>3. RequestsFramed'
    <2>1. ASSUME NEW j \in 1 .. Len(Up) PROVE Up[j].frame.id < nextId' /\ Up[j].frame.id < id' /\ Up[j].frame.id # id'
      BY <1>0, <1>1 DEF RequestsFramed
    <2>2. ~(progress' > 0)
      BY <1>1, <1>2
    <2>3. Framed(Up) /\ (~lost /\ session # "closed" => EndsWhole(Up))
      BY <1>2 DEF RequestsFramed
    <2> QED
      BY <1>1, <2>1, <2>2, <2>3 DEF RequestsFramed
  <1>4. ASSUME NEW n \in Nat, Handled(n) PROVE Handled(n)'
    <2>1. n < nextId /\ \A j \in 1 .. Len(Up) : n < Up[j].frame.id
      BY <1>4 DEF Handled
    <2>2. n < nextId' /\ n < id'
      BY <1>0, <1>1, <2>1
    <2> QED
      BY <1>1, <2>1, <2>2 DEF Handled
  <1>5. HandledInOrder'
    <2>1. \A t \in told : t.id < nextId' /\ t.id < id'
      <3>1. \A t \in told : t.id < nextId
        BY DEF HandledInOrder
      <3> QED
        BY <1>0, <1>1, <3>1
    <2> QED
      BY <1>0, <1>1, <1>4, <2>1 DEF HandledInOrder
  <1>6. AnswersFramed'
    <2>1. \A j \in 1 .. Len(Down) : Down[j].frame.id # id'
      BY <1>0, <1>1 DEF HandledInOrder, Handled
    <2> QED
      BY <1>1, <2>1 DEF AnswersFramed
  <1>7. Outstanding(Up)' /\ Outstanding(Down)'
    BY <1>1 DEF Outstanding
  <1>8. AnswerTellsTruth'
    BY <1>1 DEF AnswerTellsTruth
  <1> QED
    BY <1>3, <1>5, <1>6, <1>7, <1>8 DEF Rest

\* A piece is sent: the stream grows by it, unless the session has gone.
LEMMA StepSendPiece == ASSUME XInv, NEW u \in Users, SendPiece(u) PROVE Rest'
  <1> DEFINE f == [id |-> id, kind |-> kind, damage |-> "none"]
             e == Piece(f, progress + 1)
  <1> USE DEF XInv
  <1>0. /\ Up \in Seq(Items) /\ inbound \in Seq(Items) /\ up \in Seq(Items) /\ Len(Up) \in Nat
        /\ id \in Nat /\ nextId \in Nat /\ progress \in Nat /\ Pieces \in Nat
        /\ \A j \in 1 .. Len(Up) : Up[j].frame.id \in Nat /\ Up[j].piece \in Nat /\ Up[j].piece >= 1
    BY Streams, ItemFields, PiecesPositive DEF TypeOK
  <1>1. /\ mutex = u /\ mutex # Nobody /\ Sending /\ progress < Pieces /\ kind \in Requests /\ id < nextId
        /\ Sending' => Sending
    BY ExchangeAssumption DEF SendPiece, OneCaller, Sending
  <1>2. /\ Down' = Down /\ UNCHANGED <<mutex, id, kind, nextId, inbox, down, told, committed, lost, session>>
        /\ ~lost /\ progress' = progress + 1
        /\ up' = IF session = "closed" THEN up ELSE Append(up, e)
    BY Commits DEF SendPiece, server, world, Down
  <1>3. Sending' <=> progress' # Pieces
    BY <1>1, <1>2, ExchangeAssumption DEF SendPiece, Sending, TypeOK
  <1>4. f \in Frames /\ progress + 1 \in 1 .. Pieces /\ e.frame.id = id /\ e.piece = progress + 1 /\ e.frame.kind = kind
    BY <1>0, <1>1, IdsTyped DEF Piece, Damages
  <1>5. session = "closed" => Up' = Up
    BY <1>2 DEF SendPiece, server, Up
  <1>6. ASSUME session # "closed"
        PROVE /\ Framed(Up') /\ Len(Up') = Len(Up) + 1 /\ Up'[Len(Up) + 1] = e
              /\ \A j \in 1 .. Len(Up) : Up'[j] = Up[j]
    <2>1. e \in Items
      BY <1>4 DEF Items, Piece
    <2>2. Up' = Append(Up, e)
      <3>1. Up' = inbound \o Append(up, e)
        BY <1>2, <1>6 DEF SendPiece, server, Up
      <3>2. inbound \o Append(up, e) = Append(inbound \o up, e)
        <4>1. inbound \o Append(up, e) = inbound \o (up \o <<e>>)
          BY <1>0, <2>1, AppendIsConcat
        <4>2. inbound \o (up \o <<e>>) = (inbound \o up) \o <<e>>
          BY <1>0, <2>1, ConcatAssociative
        <4>3. (inbound \o up) \o <<e>> = Append(inbound \o up, e)
          BY <1>0, <2>1, AppendIsConcat, Joined
        <4> QED
          BY <4>1, <4>2, <4>3
      <3> QED
        BY <3>1, <3>2 DEF Up
    <2>3. Framed(Up)
      BY DEF RequestsFramed
    <2>4. IF progress + 1 = 1 THEN EndsWhole(Up) /\ \A i \in 1 .. Len(Up) : Up[i].frame.id < f.id
                              ELSE Len(Up) > 0 /\ Up[Len(Up)] = Piece(f, (progress + 1) - 1)
      <3>1. CASE progress = 0
        <4>1. EndsWhole(Up)
          BY <1>1, <1>2, <1>6, <3>1 DEF RequestsFramed
        <4>2. \A i \in 1 .. Len(Up) : Up[i].frame.id < f.id
          <5>1. ASSUME NEW i \in 1 .. Len(Up) PROVE Up[i].frame.id < id
            <6>1. Up[i].frame.id < id \/ Up[i].piece <= progress
              BY <1>1 DEF RequestsFramed
            <6>2. Up[i].piece \in Nat /\ Up[i].piece >= 1
              BY <1>0
            <6> QED
              BY <3>1, <6>1, <6>2
          <5> QED
            BY <5>1
        <4> QED
          BY <3>1, <4>1, <4>2
      <3>2. CASE progress # 0
        <4>1. Len(Up) > 0 /\ Up[Len(Up)] = Piece(f, progress)
          BY <1>0, <1>1, <1>2, <1>6, <3>2 DEF RequestsFramed
        <4>2. (progress + 1) - 1 = progress /\ progress + 1 # 1
          BY <1>0, <3>2
        <4> QED
          BY <4>1, <4>2
      <3> QED
        BY <3>1, <3>2
    <2> HIDE DEF f
    <2>5. /\ Framed(Append(Up, e)) /\ Len(Append(Up, e)) = Len(Up) + 1
          /\ \A i \in 1 .. Len(Up) : Append(Up, e)[i] = Up[i]
          /\ Append(Up, e)[Len(Up) + 1] = e
      BY <1>0, <1>4, <2>3, <2>4, FramedAppend
    <2> QED
      BY <2>2, <2>5
  <1> HIDE DEF e, f
  <1>7. \A j \in 1 .. Len(Up') : \/ j \in 1 .. Len(Up) /\ Up'[j] = Up[j]
                                 \/ Up'[j] = e /\ session # "closed"
    <2>1. CASE session = "closed"
      BY <1>5, <2>1
    <2>2. CASE session # "closed"
      BY <1>0, <1>6, <2>2
    <2> QED
      BY <2>1, <2>2
  <1>8. RequestsFramed'
    <2>1. Framed(Up')
      BY <1>5, <1>6 DEF RequestsFramed
    <2>2. ASSUME NEW j \in 1 .. Len(Up')
          PROVE /\ Up'[j].frame.id < nextId
                /\ Up'[j].frame.id < id \/ (Up'[j].frame.id = id /\ Up'[j].piece <= progress + 1)
                /\ Up'[j].frame.id = id => Up'[j].frame.kind = kind
      <3>1. CASE Up'[j] = e
        BY <1>0, <1>1, <1>4, <3>1
      <3>2. CASE j \in 1 .. Len(Up) /\ Up'[j] = Up[j]
        BY <1>0, <1>1, <3>2 DEF RequestsFramed
      <3> QED
        BY <1>7, <3>1, <3>2
    <2>3. ASSUME session # "closed"
          PROVE IF Sending' /\ progress' > 0
                THEN Len(Up') > 0 /\ Up'[Len(Up')] = Piece([id |-> id, kind |-> kind, damage |-> "none"], progress')
                ELSE EndsWhole(Up')
      <3>1. Len(Up') > 0 /\ Up'[Len(Up')] = e
        BY <1>0, <1>6, <2>3
      <3>2. e = Piece([id |-> id, kind |-> kind, damage |-> "none"], progress')
        BY <1>2 DEF e, f
      <3>3. CASE Sending'
        BY <1>0, <1>2, <3>1, <3>2, <3>3
      <3>4. CASE ~Sending'
        BY <1>2, <1>3, <1>4, <3>1, <3>4 DEF EndsWhole
      <3> QED
        BY <3>3, <3>4
    <2> QED
      BY <1>2, <2>1, <2>2, <2>3 DEF RequestsFramed
  <1>9. ASSUME NEW n, Handled(n) PROVE Handled(n)'
    BY <1>1, <1>2, <1>4, <1>7, <1>9 DEF Handled
  <1>10. HandledInOrder'
    BY <1>2, <1>9 DEF HandledInOrder
  <1>11. AnswersFramed'
    BY <1>2 DEF AnswersFramed
  <1>12. Outstanding(Up)' /\ Outstanding(Down)'
    BY <1>1, <1>2, <1>4, <1>7 DEF Outstanding
  <1>13. AnswerTellsTruth'
    BY <1>2 DEF AnswerTellsTruth
  <1> QED
    BY <1>8, <1>10, <1>11, <1>12, <1>13 DEF Rest

\* A request ends: its caller is told what the session did, or that it failed.
LEMMA StepEnds == ASSUME XInv, NEW u \in Users, NEW answer, Ends(u, answer) PROVE Rest'
  <1> DEFINE r == [id |-> id, answer |-> answer, mutation |-> kind = "mutation"]
  <1> USE DEF XInv
  <1>0. /\ Up \in Seq(Items) /\ Down \in Seq(Items) /\ inbox \in Seq(Items)
        /\ id \in Nat /\ Nobody \notin Users
        /\ \A j \in 1 .. Len(Up) : Up[j].frame.id \in Nat
        /\ \A j \in 1 .. Len(Down) : Down[j].frame.id \in Nat
    BY Streams, ItemFields, ExchangeAssumption DEF TypeOK
  <1>1. mutex = u /\ mutex # Nobody /\ id < nextId
    BY <1>0 DEF Ends, OneCaller
  <1>2. /\ Up' = Up /\ UNCHANGED <<nextId, down, committed, lost, session>>
        /\ mutex' = Nobody /\ told' = told \cup {r}
    BY Commits DEF Ends, End, Return, server, Up
  <1>3. ~Sending'
    BY <1>2 DEF Sending
  <1>4. answer # "failure" =>
          /\ 1 \in 1 .. Len(Down) /\ Down[1].frame.id = id /\ Down[1].frame.kind = answer
          /\ Len(Down) >= Pieces /\ Down' = WithoutFirst(Down)
    BY FirstOfStream DEF Ends, Down
  <1>5. /\ Framed(Down') /\ EndsWhole(inbox') /\ EndsWhole(down')
        /\ \A j \in 1 .. Len(Down') : \E i \in 1 .. Len(Down) : Down'[j] = Down[i]
        /\ answer # "failure" => \A j \in 1 .. Len(Down') : Down'[j].frame.id # id
    <2>1. Framed(Down) /\ EndsWhole(inbox) /\ EndsWhole(down)
      BY DEF AnswersFramed
    <2>2. CASE inbox' = inbox /\ answer = "failure"
      <3>1. Down' = Down
        BY <1>2, <2>2 DEF Down
      <3> QED
        BY <1>2, <2>1, <2>2, <3>1
    <2>3. CASE Complete(inbox) /\ inbox' = WithoutFirst(inbox)
      <3>1. Down' = WithoutFirst(Down) /\ Len(Down) >= Pieces /\ Len(inbox) >= Pieces
        BY <1>2, <2>3, FirstOfStream DEF Down, Complete
      <3>2. EndsWhole(WithoutFirst(inbox))
        BY <1>0, <2>1, <3>1, FramedDrop
      <3>3. /\ Framed(WithoutFirst(Down))
            /\ \A j \in 1 .. Len(WithoutFirst(Down)) : /\ \E i \in 1 .. Len(Down) : WithoutFirst(Down)[j] = Down[i]
                                                       /\ Down[1].frame.id < WithoutFirst(Down)[j].frame.id
        BY <1>0, <2>1, <3>1, FramedDrop
      <3>4. \A j \in 1 .. Len(Down') : /\ \E i \in 1 .. Len(Down) : Down'[j] = Down[i]
                                       /\ Down[1].frame.id < Down'[j].frame.id
        BY <3>1, <3>3
      <3>5. answer # "failure" => \A j \in 1 .. Len(Down') : Down'[j].frame.id # id
        BY <1>0, <1>4, <3>4
      <3> QED
        BY <1>2, <2>1, <2>3, <3>1, <3>2, <3>3, <3>4, <3>5
    <2> QED
      BY <2>2, <2>3 DEF Ends
  <1>6. answer # "failure" => Handled(id)
    BY <1>4 DEF HandledInOrder
  <1>7. RequestsFramed'
    <2>1. ~lost /\ session # "closed" => EndsWhole(Up)
      BY <1>0, <1>1 DEF RequestsFramed, Ends, Sending
    <2> QED
      BY <1>2, <1>3, <2>1 DEF RequestsFramed
  <1>8. ASSUME NEW n, Handled(n) PROVE Handled(n)'
    BY <1>2, <1>3, <1>8 DEF Handled
  <1>9. HandledInOrder'
    <2>1. r.id = id /\ r.answer = answer
      OBVIOUS
    <2> HIDE DEF r
    <2>2. \A t \in told' : t.id < nextId /\ (t.answer # "failure" => Handled(t.id))
      BY <1>1, <1>2, <1>6, <2>1 DEF HandledInOrder
    <2> QED
      BY <1>2, <1>5, <1>8, <2>2 DEF HandledInOrder
  <1>10. AnswersFramed'
    BY <1>2, <1>5 DEF AnswersFramed
  <1>11. Outstanding(Up)' /\ Outstanding(Down)'
    <2>1. ASSUME NEW n, n # id \/ answer = "failure",
                 n = id \/ \E t \in told : t.id = n /\ t.answer = "failure"
          PROVE \E t \in told' : t.id = n /\ t.answer = "failure"
      <3>1. CASE n = id /\ answer = "failure"
        <4>1. r.id = n /\ r.answer = "failure"
          BY <3>1
        <4> QED
          BY <1>2, <4>1
      <3>2. CASE \E t \in told : t.id = n /\ t.answer = "failure"
        BY <1>2, <3>2
      <3> QED
        BY <2>1, <3>1, <3>2
    <2>2. ASSUME NEW j \in 1 .. Len(Up) PROVE \E t \in told' : t.id = Up[j].frame.id /\ t.answer = "failure"
      <3>1. Up[j].frame.id # id \/ answer = "failure"
        BY <1>0, <1>6 DEF Handled
      <3> QED
        BY <2>1, <3>1 DEF Outstanding
    <2>3. ASSUME NEW j \in 1 .. Len(Down') PROVE \E t \in told' : t.id = Down'[j].frame.id /\ t.answer = "failure"
      <3>1. PICK i \in 1 .. Len(Down) : Down'[j] = Down[i]
        BY <1>5
      <3>2. Down[i].frame.id # id \/ answer = "failure"
        BY <1>5, <3>1
      <3>3. Down[i].frame.id = id \/ \E t \in told : t.id = Down[i].frame.id /\ t.answer = "failure"
        BY DEF Outstanding
      <3>4. \E t \in told' : t.id = Down[i].frame.id /\ t.answer = "failure"
        BY <2>1, <3>2, <3>3
      <3> QED
        BY <3>1, <3>4
    <2> QED
      BY <1>2, <2>2, <2>3 DEF Outstanding
  <1>12. AnswerTellsTruth'
    <2>1. ASSUME kind = "mutation", answer # "failure"
          PROVE (answer = "ack" => id \in committed) /\ (answer = "refusal" => id \notin committed)
      BY <1>1, <1>4, <2>1 DEF AnswersFramed
    <2>2. r.id = id /\ r.answer = answer /\ (r.mutation <=> kind = "mutation")
      OBVIOUS
    <2> HIDE DEF r
    <2>3. ASSUME NEW t \in told', t.mutation
          PROVE CASE t.answer = "ack" -> t.id \in committed
                  [] t.answer = "refusal" -> t.id \notin committed
                  [] OTHER -> TRUE
      <3>1. CASE t \in told
        BY <2>3, <3>1 DEF AnswerTellsTruth
      <3>2. CASE t = r
        BY <2>1, <2>2, <2>3, <3>2
      <3> QED
        BY <1>2, <3>1, <3>2
    <2> QED
      BY <1>2, <2>3 DEF AnswerTellsTruth
  <1> QED
    BY <1>7, <1>9, <1>10, <1>11, <1>12 DEF Rest

\* A stream of two parts, both of whole frames.
LEMMA EndsWholeJoined ==
  ASSUME NEW s \in Seq(Items), NEW t \in Seq(Items), EndsWhole(s), EndsWhole(t)
  PROVE EndsWhole(s \o t)
  <1> SUFFICES ASSUME NEW w, w = s \o t PROVE EndsWhole(w)
    OBVIOUS
  <1>1. /\ Len(w) = Len(s) + Len(t) /\ Len(s) \in Nat /\ Len(t) \in Nat
        /\ \A i \in 1 .. Len(s) : w[i] = s[i]
        /\ \A i \in 1 .. Len(t) : w[Len(s) + i] = t[i]
    BY Joined
  <1>2. CASE Len(t) > 0
    <2>1. Len(t) \in 1 .. Len(t) /\ w[Len(w)] = t[Len(t)]
      BY <1>1, <1>2
    <2> QED
      BY <1>2, <2>1 DEF EndsWhole
  <1>3. CASE Len(t) = 0 /\ Len(s) > 0
    <2>1. Len(s) \in 1 .. Len(s) /\ Len(w) = Len(s) /\ w[Len(w)] = s[Len(s)]
      BY <1>1, <1>3
    <2> QED
      BY <1>3, <2>1 DEF EndsWhole
  <1>4. CASE Len(t) = 0 /\ Len(s) = 0
    BY <1>1, <1>4 DEF EndsWhole
  <1> QED
    BY <1>1, <1>2, <1>3, <1>4

\* The session answers a request: it is behind all that the session has done, and
\* before all that is still to come.
LEMMA StepHandle == ASSUME XInv, Handle PROVE Rest'
  <1> USE DEF XInv
  <1>r. PICK request : request = FirstFrame(inbound)
    OBVIOUS
  <1>1. PICK answer \in PossibleAnswers(request.kind) :
          /\ commits' = IF answer = "ack" /\ request.kind = "mutation"
                        THEN Append(commits, request.id) ELSE commits
          /\ Send([request EXCEPT !.kind = answer])
    BY <1>r DEF Handle
  <1>0. /\ Up \in Seq(Items) /\ Down \in Seq(Items) /\ inbox \in Seq(Items) /\ down \in Seq(Items)
        /\ Len(Up) \in Nat /\ Pieces \in Nat /\ Pieces >= 1
        /\ \A j \in 1 .. Len(Up) : Up[j].frame.id \in Nat
        /\ \A j \in 1 .. Len(Down) : Down[j].frame.id \in Nat
    BY Streams, ItemFields, PiecesPositive
  <1>a. /\ id \in Nat /\ progress \in Nat /\ nextId \in Nat /\ committed \subseteq Nat
        /\ \A t \in told : t.id \in Nat
    BY PiecesPositive, Commits DEF TypeOK
  <1>b. /\ Len(Up) >= Pieces /\ request = Up[1].frame /\ 1 \in 1 .. Len(Up) /\ Pieces \in 1 .. Len(Up)
        /\ Up' = WithoutFirst(Up)
    BY <1>r, FirstOfStream DEF Handle, Up
  <1>c. UNCHANGED <<mutex, pc, id, kind, progress, nextId, inbox, told, lost, session>>
    BY DEF Handle, client, call
  <1>2. request \in Frames /\ request.id \in Nat /\ answer \in Answers
    BY <1>0, <1>b, ItemFields DEF PossibleAnswers
  <1>d. committed' = IF answer = "ack" /\ request.kind = "mutation"
                     THEN committed \cup {request.id} ELSE committed
    BY <1>1, <1>2, Commits
  <1>3. Sending' <=> Sending
    BY <1>c DEF Sending
  <1>4. /\ Framed(Up') /\ Len(Up') = Len(Up) - Pieces
        /\ \A j \in 1 .. Len(Up') : /\ j + Pieces \in 1 .. Len(Up) /\ Up'[j] = Up[j + Pieces]
                                    /\ request.id < Up'[j].frame.id
        /\ Up[Pieces].piece = Pieces /\ Up[Pieces].frame = request
        /\ EndsWhole(Up) => EndsWhole(Up')
    <2>1. Framed(Up)
      BY DEF RequestsFramed
    <2>2. /\ Framed(WithoutFirst(Up)) /\ Len(WithoutFirst(Up)) = Len(Up) - Pieces
          /\ \A j \in 1 .. Len(WithoutFirst(Up)) :
               /\ j + Pieces \in 1 .. Len(Up) /\ WithoutFirst(Up)[j] = Up[j + Pieces]
               /\ Up[1].frame.id < WithoutFirst(Up)[j].frame.id
          /\ Up[Pieces].piece = Pieces /\ Up[Pieces].frame = Up[1].frame
          /\ EndsWhole(Up) => EndsWhole(WithoutFirst(Up))
      BY <1>0, <1>b, <2>1, FramedDrop
    <2> QED
      BY <1>b, <2>2
  <1>5. request.id < nextId /\ (Sending => request.id < id)
        /\ (mutex # Nobody /\ request.id = id => request.kind = kind)
    <2>1. Sending => progress < Pieces
      BY DEF OneCaller
    <2>2. request.id < nextId /\ (Sending => request.id < id \/ Pieces <= progress)
          /\ (mutex # Nobody /\ request.id = id => request.kind = kind)
      BY <1>b, <1>4 DEF RequestsFramed
    <2> QED
      BY <1>0, <1>a, <2>1, <2>2
  <1>6. /\ \A c \in committed : c < request.id
        /\ \A t \in told : t.answer # "failure" => t.id < request.id
        /\ \A j \in 1 .. Len(Down) : Down[j].frame.id < request.id
    BY <1>b DEF HandledInOrder, Handled
  <1>7. Handled(request.id)'
    BY <1>c, <1>3, <1>4, <1>5 DEF Handled
  <1>8. ASSUME NEW n, Handled(n) PROVE Handled(n)'
    BY <1>c, <1>3, <1>4, <1>8 DEF Handled
  <1>9. /\ Framed(Down') /\ EndsWhole(down')
        /\ \A j \in 1 .. Len(Down') : \/ j \in 1 .. Len(Down) /\ Down'[j] = Down[j]
                                      \/ Down'[j].frame.id = request.id /\ Down'[j].frame.kind = answer
    <2>1. Framed(Down) /\ EndsWhole(inbox) /\ EndsWhole(down) /\ EndsWhole(Down)
      BY <1>0, EndsWholeJoined DEF AnswersFramed, Down
    <2>2. CASE UNCHANGED <<down, errors>>
      <3>1. Down' = Down
        BY <1>c, <2>2 DEF Down
      <3> QED
        BY <2>1, <2>2, <3>1
    <2>3. CASE ~UNCHANGED <<down, errors>>
      <3>1. PICK damage \in Damages :
              down' = down \o [n \in 1 .. Pieces |-> Piece([[request EXCEPT !.kind = answer] EXCEPT !.damage = damage], n)]
        BY <1>1, <2>3 DEF Send
      <3> DEFINE f == [[request EXCEPT !.kind = answer] EXCEPT !.damage = damage]
      <3>2. f \in Frames /\ f.id = request.id /\ f.kind = answer
        BY <1>2 DEF Frames
      <3>3. down' = down \o Block(f)
        BY <3>1 DEF Block
      <3> HIDE DEF f
      <3> DEFINE b == Block(f)
      <3>4. b \in Seq(Items) /\ Len(b) = Pieces /\ EndsWhole(b) /\ \A n \in 1 .. Pieces : b[n].frame = f
        BY <3>2, BlockIsFrame
      <3>5. EndsWhole(down \o b)
        BY <1>0, <2>1, <3>4, EndsWholeJoined
      <3>6. Framed(Down \o b)
        BY <1>0, <1>6, <2>1, <3>2, FramedBlock
      <3> HIDE DEF b
      <3>7. Down' = Down \o b
        <4>1. Down' = inbox \o (down \o b)
          BY <1>c, <3>3 DEF Down, b
        <4>2. inbox \o (down \o b) = (inbox \o down) \o b
          <5>1. inbox \in Seq(Items) /\ down \in Seq(Items) /\ b \in Seq(Items)
            BY <1>0, <3>4
          <5> QED
            BY <5>1, ConcatAssociative
        <4> QED
          BY <4>1, <4>2 DEF Down
      <3>8. \A j \in 1 .. Len(Down') : (j \in 1 .. Len(Down) /\ Down'[j] = Down[j]) \/ Down'[j].frame = f
        <4>1. ASSUME NEW w, w = Down \o b, NEW j \in 1 .. Len(w)
              PROVE (j \in 1 .. Len(Down) /\ w[j] = Down[j]) \/ w[j].frame = f
          <5>1. /\ Len(w) = Len(Down) + Len(b) /\ Len(Down) \in Nat /\ Len(b) \in Nat
                /\ \A i \in 1 .. Len(Down) : w[i] = Down[i]
                /\ \A i \in 1 .. Len(b) : w[Len(Down) + i] = b[i]
            <6>1. Down \in Seq(Items) /\ b \in Seq(Items)
              BY <1>0, <3>4
            <6>2. /\ Len(Down \o b) = Len(Down) + Len(b) /\ Len(Down) \in Nat /\ Len(b) \in Nat
                  /\ \A i \in 1 .. Len(Down) : (Down \o b)[i] = Down[i]
                  /\ \A i \in 1 .. Len(b) : (Down \o b)[Len(Down) + i] = b[i]
              BY <6>1, Joined
            <6> QED
              BY <4>1, <6>2, Zenon
          <5>2. j \in 1 .. Len(Down) \/ (j - Len(Down) \in 1 .. Len(b) /\ Len(Down) + (j - Len(Down)) = j)
            BY <5>1
          <5> QED
            BY <3>4, <5>1, <5>2
        <4> QED
          BY <3>7, <4>1
      <3> QED
        BY <3>2, <3>3, <3>5, <3>6, <3>7, <3>8 DEF b
    <2> QED
      BY <2>2, <2>3
  <1>10. RequestsFramed'
    <2>1. ASSUME ~lost, session # "closed"
          PROVE IF Sending /\ progress > 0
                THEN Len(Up') > 0 /\ Up'[Len(Up')] = Piece([id |-> id, kind |-> kind, damage |-> "none"], progress)
                ELSE EndsWhole(Up')
      <3>1. CASE Sending /\ progress > 0
        <4>1. Len(Up) > 0 /\ Up[Len(Up)] = Piece([id |-> id, kind |-> kind, damage |-> "none"], progress)
          BY <2>1, <3>1 DEF RequestsFramed
        <4>2. Len(Up) # Pieces
          BY <1>0, <1>a, <1>4, <1>5, <3>1, <4>1 DEF Piece
        <4>3. Len(Up') > 0 /\ Len(Up') \in 1 .. Len(Up') /\ Len(Up') + Pieces = Len(Up)
          <5>1. Len(Up') = Len(Up) - Pieces /\ Len(Up) \in Nat /\ Pieces \in Nat /\ Len(Up) >= Pieces
            BY <1>0, <1>4, <1>b
          <5> QED
            BY <4>2, <5>1
        <4> QED
          BY <1>4, <3>1, <4>1, <4>3
      <3>2. CASE ~(Sending /\ progress > 0)
        BY <1>4, <2>1, <3>2 DEF RequestsFramed
      <3> QED
        BY <3>1, <3>2
    <2>2. ASSUME NEW j \in 1 .. Len(Up')
          PROVE /\ Up'[j].frame.id < nextId
                /\ Sending => Up'[j].frame.id < id \/ (Up'[j].frame.id = id /\ Up'[j].piece <= progress)
                /\ mutex # Nobody /\ Up'[j].frame.id = id => Up'[j].frame.kind = kind
      BY <1>4 DEF RequestsFramed
    <2> QED
      BY <1>c, <1>3, <1>4, <2>1, <2>2 DEF RequestsFramed
  <1>11. HandledInOrder'
    <2>1. \A c \in committed' : c \in committed \/ c = request.id
      BY <1>d
    <2>2. \A j \in 1 .. Len(Down') : Down'[j].frame.id = request.id \/ \E i \in 1 .. Len(Down) : Down'[j] = Down[i]
      BY <1>9
    <2>3. \A j \in 1 .. Len(Down') : Handled(Down[j].frame.id)'
      BY <1>7, <1>8, <2>2 DEF HandledInOrder
    <2>4. \A c \in committed' : Handled(c)'
      BY <1>7, <1>8, <2>1 DEF HandledInOrder
    <2>5. \A t \in told : /\ t.id < nextId /\ (mutex # Nobody => t.id < id)
                          /\ t.answer # "failure" => Handled(t.id)'
      BY <1>8 DEF HandledInOrder
    <2> QED
      BY <1>c, <2>3, <2>4, <2>5 DEF HandledInOrder
  <1>12. AnswersFramed'
    <2>1. ASSUME NEW j \in 1 .. Len(Down')
          PROVE /\ Down'[j].frame.kind \in Answers
                /\ mutex # Nobody /\ kind = "mutation" /\ Down'[j].frame.id = id =>
                     (Down'[j].frame.kind = "ack" <=> id \in committed')
      <3>1. CASE j \in 1 .. Len(Down) /\ Down'[j] = Down[j]
        <4>1. Down[j].frame.id # request.id
          BY <1>0, <1>2, <1>6, <3>1
        <4>2. Down[j].frame.id \in committed' <=> Down[j].frame.id \in committed
          BY <1>d, <4>1
        <4> QED
          BY <3>1, <4>2 DEF AnswersFramed
      <3>2. CASE Down'[j].frame.id = request.id /\ Down'[j].frame.kind = answer
        <4>1. request.id \notin committed
          BY <1>2, <1>6
        <4> QED
          BY <1>d, <1>2, <1>5, <3>2, <4>1
      <3> QED
        BY <1>9, <3>1, <3>2
    <2>2. EndsWhole(inbox')
      BY <1>c DEF AnswersFramed
    <2> QED
      BY <1>c, <1>9, <2>1, <2>2 DEF AnswersFramed
  <1>13. Outstanding(Up)' /\ Outstanding(Down)'
    <2>1. \A j \in 1 .. Len(Up) : (mutex # Nobody /\ Up[j].frame.id = id)
                                  \/ \E t \in told : t.id = Up[j].frame.id /\ t.answer = "failure"
      BY DEF Outstanding
    <2>2. (mutex # Nobody /\ request.id = id) \/ \E t \in told : t.id = request.id /\ t.answer = "failure"
      BY <1>b, <2>1
    <2>3. \A j \in 1 .. Len(Down) : (mutex # Nobody /\ Down[j].frame.id = id)
                                    \/ \E t \in told : t.id = Down[j].frame.id /\ t.answer = "failure"
      BY DEF Outstanding
    <2>4. Outstanding(Up)'
      BY <1>c, <1>4, <2>1 DEF Outstanding
    <2>5. Outstanding(Down)'
      BY <1>c, <1>9, <2>2, <2>3 DEF Outstanding
    <2> QED
      BY <2>4, <2>5
  <1>14. AnswerTellsTruth'
    <2>1. ASSUME NEW t \in told, t.mutation
          PROVE CASE t.answer = "ack" -> t.id \in committed'
                  [] t.answer = "refusal" -> t.id \notin committed'
                  [] OTHER -> TRUE
      <3>1. t.answer = "ack" => t.id \in committed
        BY <2>1 DEF AnswerTellsTruth
      <3>2. t.answer = "refusal" => t.id \notin committed /\ t.id # request.id
        <4>1. t.answer = "refusal" => t.id < request.id
          BY <1>6
        <4>2. t.id \in Nat
          BY <1>a
        <4>3. t.answer = "refusal" => t.id \notin committed
          BY <2>1 DEF AnswerTellsTruth
        <4> QED
          BY <1>2, <4>1, <4>2, <4>3
      <3> QED
        BY <1>d, <3>1, <3>2
    <2> QED
      BY <1>c, <2>1 DEF AnswerTellsTruth
  <1> QED
    BY <1>10, <1>11, <1>12, <1>13, <1>14 DEF Rest
-----------------------------------------------------------------------------
(* The theorems *)

LEMMA InitXInv == Init => XInv
  <1> SUFFICES ASSUME Init PROVE XInv
    OBVIOUS
  <1> USE DEF Init
  <1>1. TypeOK
    <2>1. <<>> \in Buffers
      BY EmptySeq DEF Buffers
    <2>2. inbox \in Buffers /\ inbound \in Buffers /\ up \in Buffers /\ down \in Buffers
      BY <2>1
    <2>3. pc \in [Users -> {"idle", "lock", "send", "await"}] /\ mutex \in Users \cup {Nobody}
      OBVIOUS
    <2>4. progress \in 0 .. Pieces /\ skipped \in 0 .. MaxSkipped /\ errors \in 0 .. MaxErrors
      BY ExchangeAssumption, PiecesPositive
    <2>5. told \subseteq [id : Nat, answer : Answers \cup {"failure"}, mutation : BOOLEAN]
      BY Zenon
    <2>9. commits \in Seq(Nat)
      BY EmptySeq
    <2>6. /\ phase \in {"new", "open", "closed"} /\ kind \in Requests \cup {"none"}
          /\ session \in {"receive", "end", "closed"}
      BY Zenon
    <2>7. id \in Nat /\ nextId \in Nat \ {0}
      OBVIOUS
    <2>8. authority \in BOOLEAN /\ lost \in BOOLEAN
      BY Zenon
    <2> QED
      BY <2>2, <2>3, <2>4, <2>5, <2>6, <2>7, <2>8, <2>9, Zenon DEF TypeOK
  <1>2. OneCaller
    <2>1. {u \in Users : pc[u] = "lock"} = {} /\ Cardinality({}) = 0 /\ Cardinality(Users) \in Nat
      BY ExchangeAssumption, FS_CardinalityType, FS_EmptySet
    <2>2. nextId + Cardinality({u \in Users : pc[u] = "lock"}) <= MaxRequests + 1 + Cardinality(Users)
      <3>1. ASSUME NEW n, n = Cardinality({u \in Users : pc[u] = "lock"}) PROVE n = 0
        BY <2>1, <3>1, Zenon
      <3>2. ASSUME NEW n, n = 0 PROVE nextId + n <= MaxRequests + 1 + Cardinality(Users)
        BY <2>1, <3>2, ExchangeAssumption
      <3> QED
        BY <3>1, <3>2
    <2> QED
      BY <2>2, ExchangeAssumption DEF OneCaller, Sending
  <1>3. Up = <<>> /\ Down = <<>> /\ Len(Up) = 0 /\ Len(Down) = 0
    <2>1. <<>> \o <<>> = <<>> /\ Len(<<>>) = 0
      BY EmptySeq, ConcatEmptySeq
    <2> QED
      BY <2>1 DEF Up, Down
  <1>4. Framed(<<>>) /\ EndsWhole(<<>>)
    BY EmptySeq DEF Framed, EndsWhole
  <1>5. ~Sending /\ committed = {}
    BY EmptySeq DEF Sending, committed
  <1>6. RequestsFramed
    BY <1>3, <1>4, <1>5 DEF RequestsFramed
  <1>7. HandledInOrder /\ AnswersFramed /\ Outstanding(Up) /\ Outstanding(Down)
    BY <1>3, <1>4, <1>5 DEF HandledInOrder, AnswersFramed, Outstanding
  <1>8. AnswerTellsTruth
    BY DEF AnswerTellsTruth
  <1> QED
    BY <1>1, <1>2, <1>6, <1>7, <1>8 DEF XInv

LEMMA StepXInv == XInv /\ [Next]_vars => XInv'
  <1> SUFFICES ASSUME XInv, [Next]_vars PROVE XInv'
    OBVIOUS
  <1>1. Rest'
    BY Kinds, StepNothingNew, StepBegins, StepSendPiece, StepEnds, StepHandle
  <1> QED
    BY <1>1, StepTyped, StepOneCaller DEF XInv, Rest

LEMMA XInvariant == Spec => []XInv
  BY InitXInv, StepXInv, PTL DEF Spec

\* Every variable has its type, so no round trip skips more answers than its bound
\* and no frame is sent beyond its pieces (round_trip).
THEOREM ExchangeTyped == Spec => []TypeOK
  <1>1. XInv => TypeOK
    BY DEF XInv
  <1> QED
    BY <1>1, XInvariant, PTL

\* A caller that is told that its mutation committed, or was refused, is told what
\* the session did (round_trip compares the request id).
THEOREM CallersAreToldTheTruth == Spec => []AnswerTellsTruth
  <1>1. XInv => AnswerTellsTruth
    BY DEF XInv
  <1> QED
    BY <1>1, XInvariant, PTL

\* Nobody who was told the outcome of a request has a second answer to it coming.
THEOREM StaleAnswersAlwaysFailed == Spec => []StaleAnswersFailed
  <1>1. ASSUME XInv PROVE StaleAnswersFailed
    <2>1. inbox \in Seq(Items) /\ down \in Seq(Items)
      BY <1>1, Streams DEF XInv
    <2>2. \A j \in 1 .. Len(Down) : \/ mutex # Nobody /\ Down[j].frame.id = id
                                    \/ \E t \in told : t.id = Down[j].frame.id /\ t.answer = "failure"
      BY <1>1 DEF XInv, Outstanding
    <2>3. \A i \in 1 .. Len(inbox) : \E j \in 1 .. Len(Down) : inbox[i] = Down[j]
      <3>1. \A i \in 1 .. Len(inbox) : i \in 1 .. Len(Down) /\ Down[i] = inbox[i]
        BY <2>1, Joined DEF Down
      <3> QED
        BY <3>1
    <2>4. \A i \in 1 .. Len(down) : \E j \in 1 .. Len(Down) : down[i] = Down[j]
      <3>1. \A i \in 1 .. Len(down) : Len(inbox) + i \in 1 .. Len(Down) /\ Down[Len(inbox) + i] = down[i]
        BY <2>1, Joined DEF Down
      <3> QED
        BY <3>1
    <2>5. ASSUME NEW b \in {down, inbox}, NEW i \in DOMAIN b
          PROVE \/ mutex # Nobody /\ b[i].frame.id = id
                \/ \E t \in told : t.id = b[i].frame.id /\ t.answer = "failure"
      <3>1. i \in 1 .. Len(b)
        BY <2>1, LenProperties
      <3>2. PICK j \in 1 .. Len(Down) : b[i] = Down[j]
        BY <2>3, <2>4, <3>1
      <3> QED
        BY <2>2, <3>2
    <2> QED
      BY <2>5 DEF StaleAnswersFailed
  <1> QED
    BY <1>1, XInvariant, PTL

\* Every step is a step of RemoteCalls: a request takes a number, a mutation takes
\* effect, its caller is told, or nothing of that changes.
LEMMA StepCalls == ASSUME XInv, [Next]_vars PROVE [Calls!Next]_(Calls!vars)
  <1> USE DEF XInv
  <1>0. /\ nextId \in Nat /\ commits \in Seq(Nat) /\ \A t \in told : t.id \in Nat
        /\ \A n \in Nat : n < nextId => n \in 0 .. nextId - 1
    BY DEF TypeOK
  <1>1. told' = told => outcomes' = outcomes
    BY DEF outcomes
  <1>2. \A x \in outcomes : \E t \in told : t.id = x.id /\ t.answer = x.answer
    BY DEF outcomes
  <1>a. ASSUME UNCHANGED <<nextId, commits, told>> PROVE UNCHANGED Calls!vars
    BY <1>1, <1>a DEF Calls!vars
  <1>3. ASSUME NEW u \in Users, Begins(u) PROVE Calls!Issue
    <2>1. nextId' = nextId + 1 /\ commits' = commits /\ told' = told
      BY <1>3 DEF Begins, Begin, server
    <2> QED
      BY <1>1, <2>1 DEF Calls!Issue
  <1>4. ASSUME Handle PROVE UNCHANGED Calls!vars \/ \E n \in Calls!Made : Calls!Apply(n)
    <2>1. nextId' = nextId /\ told' = told
      BY <1>4 DEF Handle, client
    <2>2. CASE commits' = commits
      BY <1>a, <2>1, <2>2
    <2>3. CASE commits' # commits
      <3>1. PICK n : n = FirstFrame(inbound).id
        OBVIOUS
      <3>2. commits' = Append(commits, n)
        BY <1>4, <2>3, <3>1 DEF Handle
      <3>3. n = Up[1].frame.id /\ 1 \in 1 .. Len(Up)
        BY <1>4, <3>1, FirstOfStream DEF Handle
      <3>4. n \in Nat /\ n < nextId
        BY <3>3, Streams, ItemFields DEF RequestsFramed
      <3>5. \A c \in committed : c < n
        BY <3>3 DEF HandledInOrder, Handled
      <3>6. \A i \in DOMAIN commits : commits[i] < n
        BY <3>5 DEF committed
      <3>7. \A t \in told : t.answer # "failure" => t.id < n
        BY <3>3 DEF HandledInOrder, Handled
      <3>8. \A x \in outcomes : x.answer # "failure" => x.id < n
        BY <1>2, <3>7
      <3>9. n \in Calls!Made
        BY <1>0, <3>4 DEF Calls!Made
      <3> QED
        BY <1>1, <2>1, <3>2, <3>6, <3>8, <3>9 DEF Calls!Apply
    <2> QED
      BY <2>2, <2>3
  <1>5. ASSUME NEW u \in Users, NEW answer, Ends(u, answer)
        PROVE UNCHANGED Calls!vars \/ \E n \in Calls!Made, a \in Calls!Outcomes : Calls!Tell(n, a)
    <2>1. PICK r : r = [id |-> id, answer |-> answer, mutation |-> kind = "mutation"]
      OBVIOUS
    <2>2. nextId' = nextId /\ commits' = commits /\ told' = told \cup {r}
      BY <1>5, <2>1 DEF Ends, End, server
    <2>3. r.id = id /\ r.answer = answer /\ (r.mutation <=> kind = "mutation")
      BY <2>1
    <2>4. CASE kind # "mutation"
      <3>1. outcomes' = outcomes
        BY <2>2, <2>3, <2>4 DEF outcomes
      <3> QED
        BY <2>2, <3>1 DEF Calls!vars
    <2>5. CASE kind = "mutation"
      <3>1. outcomes' = outcomes \cup {[id |-> id, answer |-> answer]}
        BY <2>2, <2>3, <2>5 DEF outcomes
      <3>2. mutex = u /\ mutex # Nobody /\ id \in Nat /\ id < nextId
        BY <1>5, ExchangeAssumption DEF Ends, OneCaller, TypeOK
      <3>3. \A x \in outcomes : x.id < id
        BY <1>2, <3>2 DEF HandledInOrder
      <3>4. answer # "failure" => /\ answer \in Answers
                                  /\ answer = "ack" <=> id \in committed
        <4>1. answer # "failure" =>
                1 \in 1 .. Len(Down) /\ Down[1].frame.id = id /\ Down[1].frame.kind = answer
          BY <1>5, FirstOfStream DEF Ends
        <4> QED
          BY <2>5, <3>2, <4>1 DEF AnswersFramed
      <3>5. id \in committed <=> Calls!HasEffect(id)
        BY DEF committed, Calls!HasEffect
      <3>6. answer \in Calls!Outcomes /\ (answer = "ack" => id \in committed) /\ (answer = "refusal" => id \notin committed)
        BY <3>4 DEF Answers, Calls!Outcomes
      <3>7. Calls!Tell(id, answer)
        BY <2>2, <3>1, <3>3, <3>5, <3>6 DEF Calls!Tell
      <3>8. id \in Calls!Made
        BY <1>0, <3>2 DEF Calls!Made
      <3> QED
        BY <3>6, <3>7, <3>8
    <2> QED
      BY <2>4, <2>5
  <1>6. ASSUME NEW u \in Users, Call(u) \/ Closes(u) \/ SendPiece(u) \/ Read(u) \/ Skips(u)
        PROVE UNCHANGED Calls!vars
    BY <1>6, <1>a DEF Call, Closes, SendPiece, Read, Skips, server
  <1>7. ASSUME ReceivePieces \/ Stops \/ EndSession \/ Lose \/ UNCHANGED vars
        PROVE UNCHANGED Calls!vars
    BY <1>7, <1>a DEF ReceivePieces, Stops, ReceiveEnds, Expire, EndSession, Lose, vars, client, server
  <1>8. \/ UNCHANGED Calls!vars \/ Calls!Issue
        \/ \E n \in Calls!Made : Calls!Apply(n)
        \/ \E n \in Calls!Made, a \in Calls!Outcomes : Calls!Tell(n, a)
    BY <1>3, <1>4, <1>5, <1>6, <1>7, Kinds
  <1> QED
    BY <1>8 DEF Calls!Next

\* A mutation takes effect at most once and in the order of the requests, each
\* caller is told once, and nothing takes effect behind an answer.
THEOREM ExchangeImplementsCalls == Spec => ImplementsCalls
  <1>1. Init => Calls!Init
    BY DEF Init, Calls!Init, outcomes
  <1>2. XInv /\ [Next]_vars => [Calls!Next]_(Calls!vars)
    BY StepCalls
  <1> QED
    BY <1>1, <1>2, XInvariant, PTL DEF Spec, ImplementsCalls, Calls!Spec
=============================================================================
