------------------------------ MODULE Exchange ------------------------------
(***************************************************************************)
(* One publisher client and the session that serves it.  Several threads   *)
(* of a program share the client; its mutex makes their requests take      *)
(* turns.  A request and an answer are frames that travel through a byte   *)
(* stream in pieces, either end may go away at any point, an answer may be *)
(* too large to be sent, and a failed read leaves its answer in the stream *)
(* for the next request to find.                                           *)
(***************************************************************************)
EXTENDS Naturals, Sequences, FiniteSets

CONSTANTS
  Users,          \* threads that share the client
  Connector,      \* the one of them that connects it
  Nobody,
  Pieces,         \* pieces of a frame
  MaxSkipped,     \* kMaxSkippedResponses
  MaxRequests, MaxErrors   \* bounds of the model

ASSUME ExchangeAssumption ==
  /\ IsFiniteSet(Users) /\ Connector \in Users /\ Nobody \notin Users
  /\ Pieces \in Nat \ {0} /\ MaxSkipped \in Nat /\ MaxRequests \in Nat /\ MaxErrors \in Nat

VARIABLES
  phase,          \* of the client: "new", "open" or "closed"
  pc,             \* where each thread is: "idle", "lock", "send" or "await"
  mutex,          \* the thread that holds the client's mutex, and its call:
  kind,           \*   what it asks for
  id,             \*   the request id it took
  progress,       \*   pieces of the request that are sent
  skipped,        \*   answers to other requests met in this round trip
  nextId,         \* next_request
  inbox,          \* the client's inbound buffer
  up, down,       \* the stream, towards the session and towards the client
  inbound,        \* the session's inbound buffer
  session,        \* "receive", "end" or "closed"
  authority,      \* has_authority
  lost,           \* the connection broke
  errors,         \* failed reads and damaged frames so far
  commits,        \* history: request ids of the mutations that committed, in order
  told            \* history: what the caller of each request was told

call == <<mutex, kind, id, progress, skipped>>
client == <<phase, pc, call, nextId, inbox, told>>
server == <<inbound, session, authority, commits>>
world == <<lost, errors>>
vars == <<client, server, world, up, down>>

Requests == {"attach", "mutation", "detach"}
Answers == {"ack", "refusal"}
Damages == {"none", "body", "header"}

\* The pieces of a frame are numbered; a frame is there when its last piece is.
Piece(f, n) == [frame |-> f, piece |-> n]
Complete(buffer) == Len(buffer) >= Pieces
FirstFrame(buffer) == buffer[1].frame
WithoutFirst(buffer) == SubSeq(buffer, Pieces + 1, Len(buffer))

committed == {commits[i] : i \in DOMAIN commits}

SessionGone == session = "closed"
ClientGone == lost \/ phase = "closed"
-----------------------------------------------------------------------------
(* The client *)

\* Which requests the state of the client admits: connect() attaches, and hands
\* the client out only then.  The greeting before it, an exchange that changes
\* nothing, is left out.
Admitted(u) ==
  CASE phase = "new" -> IF u = Connector THEN {"attach"} ELSE {}
    [] phase = "open" -> {"mutation", "detach"}
    [] phase = "closed" -> {}

Call(u) ==
  /\ pc[u] = "idle" /\ nextId <= MaxRequests /\ Admitted(u) # {}
  /\ pc' = [pc EXCEPT ![u] = "lock"]
  /\ UNCHANGED <<phase, call, nextId, inbox, told, server, world, up, down>>

\* The thread returns, with the variables of its call.
Return(u) ==
  /\ pc' = [pc EXCEPT ![u] = "idle"]
  /\ mutex' = Nobody /\ kind' = "none" /\ id' = 0 /\ progress' = 0 /\ skipped' = 0

\* The request is over.  A connect() that fails closes the connection, and so
\* does a detach whatever it was told.
End(u, answer) ==
  /\ Return(u)
  /\ told' = told \cup {[id |-> id, answer |-> answer, mutation |-> kind = "mutation"]}
  /\ phase' = CASE kind = "mutation" -> phase
                [] kind = "attach" /\ answer = "ack" -> "open"
                [] OTHER -> "closed"
  /\ UNCHANGED nextId

\* A request takes its number when it has the mutex.
Begin(u, k) ==
  /\ mutex' = u /\ kind' = k /\ id' = nextId /\ nextId' = nextId + 1
  /\ pc' = [pc EXCEPT ![u] = "send"]
  /\ UNCHANGED <<phase, progress, skipped>>

\* Mutant: the mutex does not make the threads wait.
LockShared(u) ==
  /\ pc[u] = "lock"
  /\ \E k \in Admitted(u) : Begin(u, k)
  /\ UNCHANGED <<inbox, told, server, world, up, down>>

\* close() and the requests take their turn at the mutex; a call that finds the
\* client closed returns at once.
Lock(u) ==
  /\ pc[u] = "lock" /\ mutex = Nobody
  /\ \/ \E k \in Admitted(u) : Begin(u, k)
     \/ phase # "new" /\ phase' = "closed" /\ Return(u) /\ UNCHANGED nextId
  /\ UNCHANGED <<inbox, told, server, world, up, down>>

\* What is sent to a session that has gone is dropped.
SendPiece(u) ==
  /\ pc[u] = "send" /\ ~lost
  /\ progress' = progress + 1
  /\ up' = IF session = "closed" THEN up
           ELSE Append(up, Piece([id |-> id, kind |-> kind, damage |-> "none"], progress'))
  /\ pc' = [pc EXCEPT ![u] = IF progress' = Pieces THEN "await" ELSE "send"]
  /\ UNCHANGED <<phase, mutex, kind, id, skipped, nextId, inbox, told, server, world, down>>

\* A send that meets a broken connection, or one the session has closed.
SendFails(u) ==
  /\ pc[u] = "send" /\ (lost \/ SessionGone)
  /\ End(u, "failure")
  /\ UNCHANGED <<inbox, server, world, up, down>>

\* A read takes what has arrived.
Read(u) ==
  /\ pc[u] = "await" /\ ~Complete(inbox) /\ down # <<>>
  /\ inbox' = inbox \o down /\ down' = <<>>
  /\ UNCHANGED <<phase, pc, call, nextId, told, server, world, up>>

\* Mutant: the first answer that arrives is taken.
TakeAnswerOfAny(u) ==
  /\ pc[u] = "await" /\ Complete(inbox) /\ FirstFrame(inbox).damage = "none"
  /\ inbox' = WithoutFirst(inbox)
  /\ End(u, FirstFrame(inbox).kind)
  /\ UNCHANGED <<server, world, up, down>>

\* Mutant: any number of answers to other requests is skipped.
TakeAnswerUnbounded(u) ==
  /\ pc[u] = "await" /\ Complete(inbox) /\ FirstFrame(inbox).damage = "none"
  /\ inbox' = WithoutFirst(inbox)
  /\ \/ /\ FirstFrame(inbox).id = id
        /\ End(u, FirstFrame(inbox).kind)
     \/ /\ FirstFrame(inbox).id # id
        /\ skipped' = skipped + 1
        /\ UNCHANGED <<phase, pc, mutex, kind, id, progress, nextId, told>>
  /\ UNCHANGED <<server, world, up, down>>

\* round_trip: the answer to this request ends it, unless its payload cannot be
\* decoded; an answer to another request is skipped, up to a bound.
TakeAnswer(u) ==
  /\ pc[u] = "await" /\ Complete(inbox) /\ FirstFrame(inbox).damage = "none"
  /\ inbox' = WithoutFirst(inbox)
  /\ \/ /\ FirstFrame(inbox).id = id
        /\ \E answer \in {FirstFrame(inbox).kind, "failure"} : End(u, answer)
     \/ /\ FirstFrame(inbox).id # id /\ skipped >= MaxSkipped
        /\ End(u, "failure")
     \/ /\ FirstFrame(inbox).id # id /\ skipped < MaxSkipped
        /\ skipped' = skipped + 1
        /\ UNCHANGED <<phase, pc, mutex, kind, id, progress, nextId, told>>
  /\ UNCHANGED <<server, world, up, down>>

\* A frame whose checksum is wrong is dropped; one whose header is wrong stays at
\* the front of the buffer, for every later read to fail on.
RefuseFrame(u) ==
  /\ pc[u] = "await" /\ Complete(inbox) /\ FirstFrame(inbox).damage # "none"
  /\ inbox' = IF FirstFrame(inbox).damage = "body" THEN WithoutFirst(inbox) ELSE inbox
  /\ End(u, "failure")
  /\ UNCHANGED <<server, world, up, down>>

\* The peer closed the connection, or it broke.
ReadEnds(u) ==
  /\ pc[u] = "await" /\ ~Complete(inbox) /\ down = <<>> /\ (lost \/ SessionGone)
  /\ End(u, "failure")
  /\ UNCHANGED <<inbox, server, world, up, down>>

\* receive() fails for a reason of its own, an allocation for one; the answer is
\* still to come.
ReadFails(u) ==
  /\ pc[u] = "await" /\ errors < MaxErrors
  /\ errors' = errors + 1
  /\ End(u, "failure")
  /\ UNCHANGED <<inbox, server, lost, up, down>>
-----------------------------------------------------------------------------
(* The session *)

ReceivePieces ==
  /\ session = "receive" /\ ~Complete(inbound) /\ up # <<>>
  /\ inbound' = inbound \o up /\ up' = <<>>
  /\ UNCHANGED <<client, session, authority, commits, world, down>>

\* What handle_frame and the registry can answer: only a publisher in force
\* commits, and a session carries one incarnation at a time.
PossibleAnswers(request) ==
  {a \in Answers : a = "ack" => CASE request = "attach" -> ~authority
                                  [] request = "mutation" -> authority
                                  [] OTHER -> TRUE}

\* send: an answer above the frame bound is not sent, nor one the client no longer
\* reads, and nobody is told of that; a frame may be damaged on its way.
Send(answer) ==
  \/ UNCHANGED <<down, errors>>
  \/ /\ ~ClientGone
     /\ \E damage \in Damages :
          /\ damage # "none" => errors < MaxErrors
          /\ errors' = IF damage = "none" THEN errors ELSE errors + 1
          /\ down' = down \o [n \in 1 .. Pieces |-> Piece([answer EXCEPT !.damage = damage], n)]

\* Mutant: a request whose answer was not sent is handled again.
HandleAgain ==
  /\ session = "receive" /\ Complete(inbound)
  /\ \E answer \in PossibleAnswers(FirstFrame(inbound).kind) :
       LET request == FirstFrame(inbound)
       IN /\ authority' = IF answer = "ack" /\ request.kind # "mutation"
                          THEN request.kind = "attach" ELSE authority
          /\ commits' = IF answer = "ack" /\ request.kind = "mutation"
                        THEN Append(commits, request.id) ELSE commits
          /\ Send([request EXCEPT !.kind = answer])
  /\ inbound' = IF down' = down THEN inbound ELSE WithoutFirst(inbound)
  /\ UNCHANGED <<client, session, lost, up>>

\* run_session receives a frame; handle_frame applies the request, unless it is
\* refused, and the answer carries its id.
Handle ==
  /\ session = "receive" /\ Complete(inbound)
  /\ inbound' = WithoutFirst(inbound)
  /\ \E answer \in PossibleAnswers(FirstFrame(inbound).kind) :
       LET request == FirstFrame(inbound)
       IN /\ authority' = IF answer = "ack" /\ request.kind # "mutation"
                          THEN request.kind = "attach" ELSE authority
          /\ commits' = IF answer = "ack" /\ request.kind = "mutation"
                        THEN Append(commits, request.id) ELSE commits
          /\ Send([request EXCEPT !.kind = answer])
  /\ UNCHANGED <<client, session, lost, up>>

\* The peer closed the connection or it broke.
ReceiveEnds ==
  /\ session = "receive" /\ ~Complete(inbound) /\ up = <<>> /\ ClientGone
  /\ session' = "end"
  /\ UNCHANGED <<client, inbound, authority, commits, world, up, down>>

\* Mutant: only a session that has heard part of a frame expires.
ExpireHalfHeard ==
  /\ session = "receive" /\ ~Complete(inbound) /\ inbound # <<>>
  /\ session' = "end"
  /\ UNCHANGED <<client, inbound, authority, commits, world, up, down>>

\* No frame was completed for heartbeat_timeout.
Expire ==
  /\ session = "receive" /\ ~Complete(inbound)
  /\ session' = "end"
  /\ UNCHANGED <<client, inbound, authority, commits, world, up, down>>

\* Mutant: the publisher is left in force.
EndSessionInForce ==
  /\ session = "end"
  /\ session' = "closed" /\ up' = <<>> /\ inbound' = <<>>
  /\ UNCHANGED <<client, authority, commits, world, down>>

\* The publisher of the session is fenced, and the connection closed.
EndSession ==
  /\ session = "end"
  /\ authority' = FALSE
  /\ session' = "closed" /\ up' = <<>> /\ inbound' = <<>>
  /\ UNCHANGED <<client, commits, world, down>>
-----------------------------------------------------------------------------
(* The world *)

\* A reset: what is on its way is gone.
Lose ==
  /\ ~lost /\ lost' = TRUE /\ up' = <<>> /\ down' = <<>>
  /\ UNCHANGED <<client, server, errors>>

Init ==
  /\ phase = "new" /\ mutex = Nobody
  /\ pc = [u \in Users |-> "idle"] /\ kind = "none" /\ id = 0
  /\ progress = 0 /\ skipped = 0 /\ nextId = 1
  /\ inbox = <<>> /\ up = <<>> /\ down = <<>> /\ inbound = <<>>
  /\ session = "receive" /\ authority = FALSE
  /\ lost = FALSE /\ errors = 0 /\ commits = <<>> /\ told = {}

UserStep(u) == Lock(u) \/ SendPiece(u) \/ SendFails(u) \/ Read(u)
               \/ TakeAnswer(u) \/ RefuseFrame(u) \/ ReadEnds(u)
SessionStep == ReceivePieces \/ Handle \/ ReceiveEnds \/ EndSession

Next ==
  \/ \E u \in Users : Call(u) \/ UserStep(u) \/ ReadFails(u)
  \/ SessionStep \/ Expire \/ Lose

\* The threads of the client keep running, and so do the session's and the clock.
\* Nothing obliges a program to make another call, or anything to fail.
Spec ==
  /\ Init /\ [][Next]_vars
  /\ WF_vars(\E u \in Users : UserStep(u)) /\ WF_vars(SessionStep) /\ WF_vars(Expire)
-----------------------------------------------------------------------------
(* Properties *)

Frames == [id : 0 .. MaxRequests + Cardinality(Users), kind : Requests \cup Answers, damage : Damages]
Buffers == Seq([frame : Frames, piece : 1 .. Pieces])

\* Every variable has its type.
TypeOK ==
  /\ phase \in {"new", "open", "closed"} /\ mutex \in Users \cup {Nobody}
  /\ pc \in [Users -> {"idle", "lock", "send", "await"}]
  /\ kind \in Requests \cup {"none"} /\ id \in Nat /\ nextId \in Nat \ {0}
  /\ progress \in 0 .. Pieces /\ skipped \in 0 .. MaxSkipped
  /\ inbox \in Buffers /\ inbound \in Buffers /\ up \in Buffers /\ down \in Buffers
  /\ session \in {"receive", "end", "closed"}
  /\ authority \in BOOLEAN /\ lost \in BOOLEAN
  /\ errors \in 0 .. MaxErrors
  /\ commits \in Seq(Nat)
  /\ told \subseteq [id : Nat, answer : Answers \cup {"failure"}, mutation : BOOLEAN]

\* A caller that is told its mutation committed, or was refused, is told the
\* truth, whatever answers of earlier requests were left in the stream
\* (round_trip compares the request id; publisher.cpp: "the response stream can
\* never be mis-associated").
AnswerTellsTruth ==
  \A t \in told :
    t.mutation => CASE t.answer = "ack" -> t.id \in committed
                    [] t.answer = "refusal" -> t.id \notin committed
                    [] OTHER -> TRUE

\* An answer on its way to the client, or waiting in its buffer, is the answer to
\* the request that holds the mutex or to one whose caller was told it failed:
\* nobody who was told the outcome has a second answer coming.
StaleAnswersFailed ==
  \A b \in {down, inbox} : \A i \in DOMAIN b :
    \/ mutex # Nobody /\ b[i].frame.id = id
    \/ \E t \in told : t.id = b[i].frame.id /\ t.answer = "failure"

\* What the callers of mutations were told.
outcomes == {[id |-> t.id, answer |-> t.answer] : t \in {x \in told : x.mutation}}

Calls == INSTANCE RemoteCalls WITH next <- nextId, applied <- commits, told <- outcomes

\* The connection makes remote calls of its mutations.  A mutation takes effect at
\* most once and in the order of the requests, those included whose callers were
\* told of a failure and went on; each caller is told once, and nothing takes
\* effect behind an answer (round_trip, run_session).
ImplementsCalls == Calls!Spec

\* A round trip has no deadline of its own, and still it ends, even when its
\* answer could not be sent: the session that hears nothing more expires, and
\* closing the connection ends the client's read.  So the mutex is free again and
\* again, for the other requests and for close().
RequestEnds == []<>(mutex = Nobody)

\* When the client is closed or the connection breaks, the session handles what
\* it had received, ends, and leaves no publisher in force.
AuthorityEnds == ClientGone ~> session = "closed" /\ ~authority
=============================================================================
