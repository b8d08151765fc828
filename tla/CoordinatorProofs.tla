------------------------- MODULE CoordinatorProofs -------------------------
(***************************************************************************)
(* Safety of the coordinator's threads, for every number of connections,   *)
(* slots and incarnations and every set of publishers: no authority        *)
(* without a session that is to end it, and nothing left when stop()       *)
(* returns.                                                                *)
(***************************************************************************)
EXTENDS Coordinator, TLAPS

Running(c) == thread[c] \notin {"none", "finished"}

\* What the acceptor has in hand is a connection; until its thread starts, it has
\* none, and once published it is in the table.
AcceptorHolds ==
  /\ \A c \in Conns : conn[c] = "none" => thread[c] = "none"
  /\ acceptor \in {"publish", "start", "assign"} => accepted \in Conns
  /\ acceptor \in {"publish", "start"} => thread[accepted] = "none" /\ conn[accepted] # "none"
  /\ acceptor = "start" => accepted \in sessions

\* A thread that runs is in the table or in the hands of stop(), and its handle
\* is assigned unless the acceptor is about to.
RunningIsTracked ==
  \A c \in Conns : Running(c) =>
    /\ c \in sessions \cup remaining
    /\ c \in handles \/ (acceptor = "assign" /\ accepted = c)

\* A handle can be found by whoever joins it; the reaper's batch has finished.
HandlesAreTracked ==
  /\ handles \subseteq sessions \cup batch \cup remaining
  /\ \A c \in batch : thread[c] = "finished"
  /\ reaper # "join" => batch = {}

\* How far stop() has come.
StopStages ==
  /\ stopper \in {"reaper", "join", "done"} => acceptor = "ended"
  /\ stopper \in {"join", "done"} => reaper = "ended" /\ sessions = {}
  /\ stopper # "join" => remaining = {}

CInv ==
  /\ TypeOK
  /\ AcceptorHolds
  /\ AuthorityIsCarried
  /\ RunningIsTracked
  /\ HandlesAreTracked
  /\ StopStages
-----------------------------------------------------------------------------
ClientStep(c) ==
  \/ Leave(c) \/ \E p \in Publishers : Attach(c, p)
  \/ Detach(c) \/ HandleOther(c) \/ Shutdown(c) \/ Answered(c) \/ ExpireSession(c) \/ Session(c)

\* Boots are numbers, and no incarnation is one of them.
LEMMA BootRange ==
  /\ 0 \in 0 .. MaxBoot
  /\ \A n \in 0 .. MaxBoot : n < MaxBoot => n + 1 \in 0 .. MaxBoot /\ n + 1 # 0
  BY CoordinatorAssumption

\* A session that carries nothing has an incarnation nobody has.
LEMMA NullIncarnation == NoIncarnation \in Incarnations
  BY CoordinatorAssumption DEF NoIncarnation, Incarnations

\* The invariant holds at the start.
LEMMA InitCInv == Init => CInv
  <1> SUFFICES ASSUME Init PROVE CInv
    OBVIOUS
  <1>1. /\ conn \in [Conns -> {"none", "open", "gone"}]
        /\ inForce \in [Publishers -> 0 .. MaxBoot] /\ lastBoot \in 0 .. MaxBoot
        /\ carried \in [Conns -> Incarnations]
    BY NullIncarnation, BootRange DEF Init
  <1>2. TypeOK
    BY <1>1 DEF Init, TypeOK
  <1> QED
    BY <1>2 DEF Init, CInv, AcceptorHolds, AuthorityIsCarried, RunningIsTracked, Running,
                HandlesAreTracked, StopStages

\* Every step keeps the types.
LEMMA TypeStep == ASSUME CInv, [Next]_vars PROVE TypeOK'
  <1> USE DEF CInv, TypeOK
  <1>1. CASE Acceptor \/ StartFails
    <2> USE <1>1 DEF AcceptorHolds
    <2>1. CASE Accept
      BY <2>1 DEF Accept, serving, registry, reaping, stopping
    <2>2. CASE Publish
      BY <2>2 DEF Publish, serving, registry, reaping, stopping
    <2>3. CASE StartThread
      BY <2>3 DEF StartThread, registry, reaping, stopping
    <2>4. CASE AssignThread
      BY <2>4 DEF AssignThread, serving, registry, reaping, stopping
    <2>5. CASE Terminate
      BY <2>5, NullIncarnation, BootRange DEF Terminate
    <2>6. CASE AcceptorEnds \/ StartFails
      BY <2>6 DEF AcceptorEnds, StartFails, serving, registry, reaping, stopping
    <2> QED
      BY <2>1, <2>2, <2>3, <2>4, <2>5, <2>6 DEF Acceptor
  <1>2. CASE Reaper \/ RaiseStop \/ CollectExpired \/ \E p \in Publishers : FenceExpired(p)
    <2> USE DEF accepting, serving, registry, reaping, stopping
    <2>1. CASE Reaper \/ RaiseStop
      BY <2>1 DEF Reaper, Collect, JoinFinished, ReaperEnds, RaiseStop
    <2>2. CASE CollectExpired
      <3>1. \A c \in Conns : carried[c].publisher \in Publishers
        BY DEF Incarnations
      <3>2. expired' \subseteq Publishers
        BY <2>2, <3>1 DEF CollectExpired
      <3> QED
        BY <2>2, <3>2 DEF CollectExpired
    <2>3. CASE \E p \in Publishers : FenceExpired(p)
      BY <2>3, BootRange DEF FenceExpired
    <2> QED
      BY <1>2, <2>1, <2>2, <2>3
  <1>3. CASE Stopper
    BY <1>3, BootRange DEF Stopper, Sweep, JoinAcceptor, JoinReaper, JoinRemaining, StopReturns,
                accepting, serving, registry, reaping, stopping
  <1>4. CASE \E c \in Conns : ClientStep(c)
    <2> PICK c \in Conns : ClientStep(c)
      BY <1>4
    <2> USE DEF accepting, registry, reaping, stopping, Goto
    <2>1. CASE Leave(c)
      BY <2>1 DEF Leave, serving
    <2>2. CASE \E p \in Publishers : Attach(c, p)
      <3> PICK p \in Publishers : Attach(c, p)
        BY <2>2
      <3>1. lastBoot + 1 \in 0 .. MaxBoot
        BY BootRange DEF Attach
      <3>2. [publisher |-> p, boot |-> lastBoot + 1] \in Incarnations
        BY <3>1 DEF Incarnations
      <3> QED
        BY <3>1, <3>2 DEF Attach
    <2>3. CASE Detach(c) \/ FenceCarried(c) \/ Finish(c)
      BY <2>3, NullIncarnation, BootRange DEF Detach, FenceCarried, Finish
    <2>4. CASE HandleOther(c) \/ Shutdown(c) \/ Answered(c) \/ ExpireSession(c)
      BY <2>4 DEF HandleOther, Shutdown, Answered, ExpireSession
    <2>5. CASE CheckStop(c) \/ PollEnds(c) \/ ReceiveEnds(c) \/ AnswerEnds(c)
      BY <2>5 DEF CheckStop, PollEnds, ReceiveEnds, AnswerEnds
    <2> QED
      BY <2>1, <2>2, <2>3, <2>4, <2>5 DEF ClientStep, Session
  <1>5. CASE UNCHANGED vars
    BY <1>5 DEF vars, accepting, serving, registry, reaping, stopping
  <1> QED
    BY <1>1, <1>2, <1>3, <1>4, <1>5 DEF Next, ClientStep

\* A session whose thread could be asked to fence what it carries.
Carrying(c, p) ==
  /\ c \in hasAuthority /\ carried[c] = [publisher |-> p, boot |-> inForce[p]]
  /\ thread[c] \in {"check", "receive", "answer", "fence"}

\* What the steps that end a claim, or a publisher, leave in force they leave
\* carried.
LEMMA CarriedStep == ASSUME CInv, [Next]_vars PROVE AuthorityIsCarried'
  <1> SUFFICES ASSUME NEW p \in Publishers, inForce'[p] # 0
               PROVE \E c \in Conns : Carrying(c, p)'
    BY TypeStep DEF AuthorityIsCarried, Carrying, TypeOK
  <1> USE DEF Carrying, TypeOK
  <1> USE DEF CInv
  <1>0. inForce[p] # 0 => \E d \in Conns : Carrying(d, p)
    BY DEF AuthorityIsCarried
  <1>a. CASE inForce'[p] # inForce[p]
    <2>1. PICK c \in Conns, q \in Publishers : Attach(c, q)
      BY <1>a DEF Next, vars, Acceptor, StartFails, Reaper, RaiseStop, Stopper, CollectExpired,
        FenceExpired, Session, Accept, Publish, StartThread, AssignThread, Terminate, AcceptorEnds,
        Collect, JoinFinished, ReaperEnds, Sweep, JoinAcceptor, JoinReaper, JoinRemaining,
        StopReturns, Leave, Detach, HandleOther, Shutdown, Answered, ExpireSession, CheckStop,
        PollEnds, ReceiveEnds, AnswerEnds, FenceCarried, Finish, registry, accepting, serving
    <2>2. Carrying(c, p)'
      BY <1>a, <2>1 DEF Attach, Goto
    <2> QED
      BY <2>2
  <1>b. CASE inForce'[p] = inForce[p]
    <2> PICK d \in Conns : Carrying(d, p)
      BY <1>0, <1>b
    <2>0. d \in hasAuthority /\ carried[d].publisher = p /\ carried[d].boot = inForce[p]
      OBVIOUS
    <2>1. CASE Acceptor \/ StartFails
      BY <2>1, <1>b DEF Acceptor, StartFails, Accept, Publish, StartThread, AssignThread, Terminate,
        AcceptorEnds, serving, registry
    <2>2. CASE Reaper \/ RaiseStop \/ CollectExpired \/ \E q \in Publishers : FenceExpired(q)
      BY <2>2, <1>b DEF Reaper, RaiseStop, CollectExpired, FenceExpired, Collect, JoinFinished,
        ReaperEnds, serving, registry
    <2>3. CASE Stopper
      BY <2>3, <1>b, <2>0 DEF Stopper, Sweep, JoinAcceptor, JoinReaper, JoinRemaining, StopReturns,
        serving, registry
    <2>4. CASE \E c \in Conns : ClientStep(c)
      <3> PICK c \in Conns : ClientStep(c)
        BY <2>4
      <3> USE DEF Goto
      <3>1. CASE Leave(c)
        BY <3>1, <1>b DEF Leave, serving, registry
      <3>2. CASE \E q \in Publishers : Attach(c, q)
        BY <3>2, <1>b DEF Attach
      <3>3. CASE Detach(c)
        BY <3>3, <1>b, <2>0 DEF Detach
      <3>4. CASE FenceCarried(c)
        BY <3>4, <1>b, <2>0 DEF FenceCarried
      <3>5. CASE Finish(c)
        BY <3>5, <1>b DEF Finish, registry
      <3>6. CASE HandleOther(c) \/ Shutdown(c) \/ Answered(c) \/ ExpireSession(c)
        BY <3>6, <1>b DEF HandleOther, Shutdown, Answered, ExpireSession, registry
      <3>7. CASE CheckStop(c) \/ PollEnds(c) \/ ReceiveEnds(c) \/ AnswerEnds(c)
        BY <3>7, <1>b DEF CheckStop, PollEnds, ReceiveEnds, AnswerEnds, registry
      <3> QED
        BY <3>1, <3>2, <3>3, <3>4, <3>5, <3>6, <3>7 DEF ClientStep, Session
    <2>5. CASE UNCHANGED vars
      BY <2>5 DEF vars, serving, registry
    <2> QED
      BY <2>1, <2>2, <2>3, <2>4, <2>5 DEF Next, ClientStep
  <1> QED
    BY <1>a, <1>b

\* Nobody runs a session thread before the acceptor starts it.
LEMMA AcceptorStep == ASSUME CInv, [Next]_vars PROVE AcceptorHolds'
  <1> USE DEF CInv, TypeOK, AcceptorHolds
  <1>1. CASE Acceptor \/ StartFails
    <2>1. CASE Accept
      BY <2>1 DEF Accept, serving
    <2>2. CASE Publish
      BY <2>2 DEF Publish, serving
    <2>3. CASE StartThread
      BY <2>3 DEF StartThread
    <2>4. CASE AssignThread \/ AcceptorEnds \/ StartFails
      BY <2>4 DEF AssignThread, AcceptorEnds, StartFails, serving
    <2>5. CASE Terminate
      BY <2>5 DEF Terminate
    <2> QED
      BY <1>1, <2>1, <2>2, <2>3, <2>4, <2>5 DEF Acceptor
  <1>2. CASE Reaper \/ RaiseStop \/ CollectExpired \/ \E p \in Publishers : FenceExpired(p)
    BY <1>2 DEF Reaper, RaiseStop, CollectExpired, FenceExpired, Collect, JoinFinished, ReaperEnds,
      accepting, serving
  <1>3. CASE Stopper
    BY <1>3 DEF StopStages, Stopper, Sweep, JoinAcceptor, JoinReaper, JoinRemaining, StopReturns,
      accepting, serving
  <1>4. CASE \E c \in Conns : ClientStep(c)
    <2> PICK c \in Conns : ClientStep(c)
      BY <1>4
    <2> USE DEF accepting, Goto
    <2>1. CASE Leave(c)
      BY <2>1 DEF Leave, serving
    <2>2. CASE \E p \in Publishers : Attach(c, p)
      BY <2>2 DEF Attach
    <2>3. CASE Detach(c) \/ HandleOther(c) \/ Shutdown(c) \/ Answered(c) \/ ExpireSession(c)
      BY <2>3 DEF Detach, HandleOther, Shutdown, Answered, ExpireSession
    <2>4. CASE Session(c)
      BY <2>4 DEF Session, CheckStop, PollEnds, ReceiveEnds, AnswerEnds, FenceCarried, Finish
    <2> QED
      BY <2>1, <2>2, <2>3, <2>4 DEF ClientStep
  <1>5. CASE UNCHANGED vars
    BY <1>5 DEF vars, accepting, serving
  <1> QED
    BY <1>1, <1>2, <1>3, <1>4, <1>5 DEF Next, ClientStep

\* No step loses a running thread: who drops a session from the table or clears a
\* handle has seen it finished, or is stop(), which keeps it.
LEMMA TrackingStep == ASSUME CInv, [Next]_vars PROVE RunningIsTracked' /\ HandlesAreTracked'
  <1> USE DEF CInv, TypeOK, RunningIsTracked, HandlesAreTracked, Running
  <1>1. CASE Acceptor \/ StartFails
    <2> USE DEF AcceptorHolds
    <2>1. CASE Accept
      BY <2>1 DEF Accept, serving, reaping, stopping
    <2>2. CASE Publish
      BY <2>2 DEF Publish, serving, reaping, stopping
    <2>3. CASE StartThread
      BY <2>3 DEF StartThread, reaping, stopping
    <2>4. CASE AssignThread
      BY <2>4 DEF AssignThread, serving, reaping, stopping
    <2>5. CASE AcceptorEnds \/ StartFails
      BY <2>5 DEF AcceptorEnds, StartFails, serving, reaping, stopping
    <2>6. CASE Terminate
      BY <2>6 DEF Terminate
    <2> QED
      BY <1>1, <2>1, <2>2, <2>3, <2>4, <2>5, <2>6 DEF Acceptor
  <1>2. CASE Reaper
    BY <1>2 DEF Reaper, Collect, JoinFinished, ReaperEnds, accepting, serving, stopping
  <1>3. CASE RaiseStop \/ CollectExpired \/ \E p \in Publishers : FenceExpired(p)
    BY <1>3 DEF RaiseStop, CollectExpired, FenceExpired, accepting, serving, reaping, stopping
  <1>4. CASE Stopper
    <2> USE DEF StopStages, accepting, serving, reaping
    <2>1. CASE Sweep \/ JoinAcceptor \/ StopReturns
      BY <2>1 DEF Sweep, JoinAcceptor, StopReturns
    <2>2. CASE JoinReaper
      BY <2>2 DEF JoinReaper
    <2>3. CASE \E c \in Conns : JoinRemaining(c)
      BY <2>3 DEF JoinRemaining
    <2> QED
      BY <1>4, <2>1, <2>2, <2>3 DEF Stopper
  <1>5. CASE \E c \in Conns : ClientStep(c)
    <2> PICK c \in Conns : ClientStep(c)
      BY <1>5
    <2> USE DEF accepting, reaping, stopping, Goto
    <2>1. CASE Leave(c)
      BY <2>1 DEF Leave, serving
    <2>2. CASE \E p \in Publishers : Attach(c, p)
      BY <2>2 DEF Attach
    <2>3. CASE Detach(c) \/ HandleOther(c) \/ Shutdown(c) \/ Answered(c) \/ ExpireSession(c)
      BY <2>3 DEF Detach, HandleOther, Shutdown, Answered, ExpireSession
    <2>4. CASE Session(c)
      BY <2>4 DEF Session, CheckStop, PollEnds, ReceiveEnds, AnswerEnds, FenceCarried, Finish
    <2> QED
      BY <2>1, <2>2, <2>3, <2>4 DEF ClientStep
  <1>6. CASE UNCHANGED vars
    BY <1>6 DEF vars, accepting, serving, reaping, stopping
  <1> QED
    BY <1>1, <1>2, <1>3, <1>4, <1>5, <1>6 DEF Next, ClientStep

\* stop() goes through its stages in order, and nobody takes a connection in or
\* reaps after it has waited for them.
LEMMA StageStep == ASSUME CInv, [Next]_vars PROVE StopStages'
  <1> USE DEF CInv, TypeOK, StopStages
  <1>1. CASE Acceptor \/ StartFails
    BY <1>1 DEF Acceptor, StartFails, Accept, Publish, StartThread, AssignThread, Terminate,
      AcceptorEnds, reaping, stopping
  <1>2. CASE Reaper \/ RaiseStop \/ CollectExpired \/ \E p \in Publishers : FenceExpired(p)
    BY <1>2 DEF Reaper, RaiseStop, CollectExpired, FenceExpired, Collect, JoinFinished, ReaperEnds,
      accepting, reaping, stopping
  <1>3. CASE Stopper
    BY <1>3 DEF Stopper, Sweep, JoinAcceptor, JoinReaper, JoinRemaining, StopReturns, accepting,
      reaping
  <1>4. CASE \E c \in Conns : ClientStep(c)
    BY <1>4 DEF ClientStep, Leave, Attach, Detach, HandleOther, Shutdown, Answered, ExpireSession,
      Session, CheckStop, PollEnds, ReceiveEnds, AnswerEnds, FenceCarried, Finish, accepting,
      reaping, stopping
  <1>5. CASE UNCHANGED vars
    BY <1>5 DEF vars, accepting, reaping, stopping
  <1> QED
    BY <1>1, <1>2, <1>3, <1>4, <1>5 DEF Next, ClientStep
-----------------------------------------------------------------------------
\* The invariant of the coordinator.
LEMMA CoordinatorInvariant == Spec => []CInv
  <1>1. ASSUME CInv, [Next]_vars PROVE CInv'
    BY <1>1, TypeStep, CarriedStep, AcceptorStep, TrackingStep, StageStep DEF CInv
  <1> QED
    BY <1>1, InitCInv, PTL DEF Spec

\* Every variable has its type, whatever the publishers and the bounds.
THEOREM CoordinatorTyped == Spec => []TypeOK
  BY CoordinatorInvariant, PTL DEF CInv

\* An incarnation in force is carried by a session whose thread is still to fence
\* it, whatever the order of the attachments, the ends of sessions, the sweeps of
\* the expired and stop().
THEOREM AuthorityIsAlwaysCarried == Spec => []AuthorityIsCarried
  BY CoordinatorInvariant, PTL DEF CInv

\* When stop() returns no thread runs or is left to be joined, the table is empty
\* and no publisher is in force: a running thread would be in a table or a hand
\* that is empty by then, and an incarnation in force would have such a thread.
THEOREM StopAlwaysLeavesNothing == Spec => []StopLeavesNothing
  <1>1. ASSUME CInv, stopper = "done" PROVE StopLeavesNothing
    <2> USE <1>1 DEF CInv, TypeOK, StopStages
    <2>1. /\ acceptor = "ended" /\ reaper = "ended" /\ sessions = {} /\ remaining = {}
          /\ batch = {} /\ handles = {}
      BY DEF HandlesAreTracked
    <2>2. \A c \in Conns : ~Running(c)
      BY <2>1 DEF RunningIsTracked
    <2>3. \A p \in Publishers : inForce[p] = 0
      BY <2>2 DEF AuthorityIsCarried, Running
    <2> QED
      BY <2>1, <2>2, <2>3 DEF StopLeavesNothing, Running
  <1>2. CInv => StopLeavesNothing
    BY <1>1 DEF StopLeavesNothing
  <1> QED
    BY <1>2, CoordinatorInvariant, PTL
-----------------------------------------------------------------------------
(* Publishers attached twice *)

\* A session's end fences the publisher it carries, and no other.
LEMMA FenceHitsCarried ==
  ASSUME CInv, [Next]_vars, NEW c \in Conns, thread[c] = "fence", thread'[c] = "clear",
         NEW p \in Publishers, inForce'[p] # inForce[p]
  PROVE  /\ c \in hasAuthority /\ carried[c].publisher = p
         /\ inForce'[p] = 0
  <1> USE DEF CInv, TypeOK
  <1>1. FenceCarried(c)
    BY DEF Next, vars, Acceptor, StartFails, Reaper, RaiseStop, Stopper, CollectExpired,
      FenceExpired, Session, Accept, Publish, StartThread, AssignThread, Terminate, AcceptorEnds,
      Collect, JoinFinished, ReaperEnds, Sweep, JoinAcceptor, JoinReaper, JoinRemaining,
      StopReturns, Leave, Attach, Detach, HandleOther, Shutdown, Answered, ExpireSession,
      CheckStop, PollEnds, ReceiveEnds, AnswerEnds, FenceCarried, Finish, Goto, serving
  <1> QED
    BY <1>1 DEF FenceCarried

\* What a session's end takes out of force is its own, or that of another session
\* that carries it and still runs.
LEMMA EndHitsACarrier ==
  ASSUME CInv, [Next]_vars, NEW c \in Conns, thread[c] = "fence", thread'[c] = "clear",
         NEW p \in Publishers, inForce'[p] # inForce[p]
  PROVE  \/ inForce[p] = carried[c].boot
         \/ \E d \in Conns \ {c} : Carrying(d, p)
  <1> USE DEF CInv, TypeOK
  <1>1. inForce'[p] = 0
    BY FenceHitsCarried
  <1>2. PICK d \in Conns : Carrying(d, p)
    BY <1>1 DEF AuthorityIsCarried, Carrying
  <1>3. CASE d = c
    BY <1>2, <1>3 DEF Carrying
  <1>4. CASE d # c
    BY <1>2, <1>4
  <1> QED
    BY <1>3, <1>4

\* Each publisher is attached by one session at a time.
AttachedOnce ==
  \A c, d \in hasAuthority : carried[c].publisher = carried[d].publisher => c = d

\* A session's end fences no incarnation but its own as long as no client attaches
\* a publisher that another session carries: attaching it again is all that the
\* run reattached needs, and what it shows can come from nothing else.
THEOREM OnlySharedPublishersAreHit == Spec /\ []AttachedOnce => FencesItsOwn
  <1> DEFINE EndsItsOwn ==
        \A c \in Conns : thread[c] = "fence" /\ thread'[c] = "clear" =>
          \A p \in Publishers : inForce'[p] # inForce[p] => inForce[p] = carried[c].boot
  <1>1. CInv /\ AttachedOnce /\ [Next]_vars => EndsItsOwn
    <2> SUFFICES ASSUME CInv, AttachedOnce, [Next]_vars,
                        NEW c \in Conns, thread[c] = "fence", thread'[c] = "clear",
                        NEW p \in Publishers, inForce'[p] # inForce[p]
                 PROVE  inForce[p] = carried[c].boot
      OBVIOUS
    <2>1. c \in hasAuthority /\ carried[c].publisher = p
      BY FenceHitsCarried
    <2>2. inForce[p] = carried[c].boot \/ \E d \in Conns \ {c} : Carrying(d, p)
      BY EndHitsACarrier
    <2>3. ASSUME NEW d \in Conns, Carrying(d, p) PROVE d = c
      <3>1. d \in hasAuthority /\ carried[d].publisher = p
        BY <2>3 DEF Carrying
      <3> QED
        BY <2>1, <3>1 DEF AttachedOnce
    <2> QED
      BY <2>2, <2>3
  <1> QED
    BY <1>1, CoordinatorInvariant, PTL DEF Spec, FencesItsOwn
=============================================================================
