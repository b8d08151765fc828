---------------------------- MODULE Coordinator ----------------------------
(***************************************************************************)
(* The threads of a coordinator: the acceptor, one session thread for each *)
(* connection it takes in, the reaper that joins the threads of finished   *)
(* sessions, and the program that calls reap_expired_publishers and stop().*)
(* They share the session table, whose mutex makes each use of it one      *)
(* step, and the registry, of which this module keeps the incarnation in   *)
(* force of each publisher.                                                *)
(***************************************************************************)
EXTENDS Naturals, FiniteSets

CONSTANTS
  Publishers,
  MaxSessions,
  MaxConns, MaxBoot   \* bounds of the model: connections, incarnations

ASSUME CoordinatorAssumption ==
  /\ Publishers # {}
  /\ MaxSessions \in Nat \ {0} /\ MaxConns \in Nat /\ MaxBoot \in Nat

\* Connections are numbered in the order in which the acceptor takes them in.
Conns == 1 .. MaxConns
NoConn == 0

VARIABLES
  conn,           \* each connection: "none", "open" or "gone"
  acceptor,       \* "accept", "publish", "start", "assign" or "ended"
  accepted,       \* the connection the acceptor works on
  sessions,       \* the session table
  thread,         \* each session thread: "none", "check", "receive", "answer",
                  \*   "fence", "clear" or "finished"
  handles,        \* sessions whose std::thread is assigned and not joined
  asked,          \* connections asked to stop
  hasAuthority,   \* sessions that carry a publisher
  carried,        \* the publisher and incarnation each session attached last
  inForce,        \* of the registry: each publisher's incarnation in force, or 0
  lastBoot,       \* incarnations handed out
  reaper,         \* "sleep", "join" or "ended"
  batch,          \* the finished sessions the reaper took out of the table
  expired,        \* publishers that reap_expired_publishers is about to fence
  stop,           \* the stop flag
  stopper,        \* "none", "sweep", "acceptor", "reaper", "join" or "done",
                  \*   or "terminated" when std::terminate was called
  remaining       \* the sessions stop() took out of the table

accepting == <<acceptor, accepted>>
serving == <<thread, hasAuthority, carried>>
registry == <<inForce, lastBoot>>
reaping == <<reaper, batch>>
stopping == <<stop, stopper, remaining>>
vars == <<conn, accepting, sessions, serving, handles, asked, registry, reaping, expired, stopping>>

Incarnations == [publisher : Publishers, boot : 0 .. MaxBoot]
NoIncarnation == [publisher |-> CHOOSE p \in Publishers : TRUE, boot |-> 0]
-----------------------------------------------------------------------------
(* The clients *)

\* The peer closes the connection, or its process dies, and what it had sent is
\* read.
Leave(c) ==
  /\ conn[c] = "open"
  /\ conn' = [conn EXCEPT ![c] = "gone"]
  /\ UNCHANGED <<accepting, sessions, serving, handles, asked, registry, reaping, expired, stopping>>
-----------------------------------------------------------------------------
(* run_acceptor *)

Accept ==
  /\ acceptor = "accept" /\ ~stop
  /\ \E c \in Conns :
       /\ conn[c] = "none" /\ \A d \in 1 .. c - 1 : conn[d] # "none"
       /\ conn' = [conn EXCEPT ![c] = "open"] /\ accepted' = c
  /\ acceptor' = "publish"
  /\ UNCHANGED <<sessions, serving, handles, asked, registry, reaping, expired, stopping>>

\* The session enters the table if there is room; otherwise it is closed.
Publish ==
  /\ acceptor = "publish"
  /\ \/ /\ Cardinality(sessions) < MaxSessions
        /\ sessions' = sessions \cup {accepted} /\ acceptor' = "start"
        /\ UNCHANGED <<conn, accepted>>
     \/ /\ Cardinality(sessions) >= MaxSessions
        /\ conn' = [conn EXCEPT ![accepted] = "gone"]
        /\ acceptor' = "accept" /\ accepted' = NoConn /\ UNCHANGED sessions
  /\ UNCHANGED <<serving, handles, asked, registry, reaping, expired, stopping>>

StartThread ==
  /\ acceptor = "start"
  /\ thread' = [thread EXCEPT ![accepted] = "check"] /\ acceptor' = "assign"
  /\ UNCHANGED <<conn, accepted, sessions, hasAuthority, carried, handles, asked, registry, reaping, expired, stopping>>

\* No thread could be created: the acceptor's catch ends it, and the session
\* stays in the table.
StartFails ==
  /\ acceptor = "start"
  /\ acceptor' = "ended" /\ accepted' = NoConn
  /\ UNCHANGED <<conn, sessions, serving, handles, asked, registry, reaping, expired, stopping>>

\* Mutant: the assignment goes through the slot that was already cleared.
AssignThreadCleared ==
  /\ acceptor = "assign" /\ accepted \in sessions \cup batch
  /\ acceptor' = "accept" /\ accepted' = NoConn
  /\ handles' = handles \cup {accepted'}
  /\ UNCHANGED <<conn, sessions, serving, asked, registry, reaping, expired, stopping>>

\* The thread is assigned to its session after it has started.
AssignThread ==
  /\ acceptor = "assign" /\ accepted \in sessions \cup batch
  /\ handles' = handles \cup {accepted}
  /\ acceptor' = "accept" /\ accepted' = NoConn
  /\ UNCHANGED <<conn, sessions, serving, asked, registry, reaping, expired, stopping>>

\* When the reaper has already dropped that session nobody joins the thread, and
\* the destructor of a thread that was never joined terminates the process.
Terminate ==
  /\ acceptor = "assign" /\ accepted \notin sessions \cup batch
  /\ acceptor' = "ended" /\ accepted' = NoConn /\ reaper' = "ended" /\ stopper' = "terminated"
  /\ conn' = [c \in Conns |-> "gone"] /\ thread' = [c \in Conns |-> "none"]
  /\ sessions' = {} /\ handles' = {} /\ asked' = {} /\ hasAuthority' = {} /\ batch' = {}
  /\ expired' = {} /\ remaining' = {}
  /\ inForce' = [p \in Publishers |-> 0]
  /\ carried' = [c \in Conns |-> NoIncarnation]
  /\ UNCHANGED <<lastBoot, stop>>

AcceptorEnds ==
  /\ acceptor = "accept" /\ stop
  /\ acceptor' = "ended"
  /\ UNCHANGED <<conn, accepted, sessions, serving, handles, asked, registry, reaping, expired, stopping>>
-----------------------------------------------------------------------------
(* run_session *)

Goto(c, pc) == thread' = [thread EXCEPT ![c] = pc]

\* The loop ends at a stop flag, the coordinator's or the connection's own.
CheckStop(c) ==
  /\ thread[c] = "check"
  /\ Goto(c, IF stop \/ c \in asked THEN "fence" ELSE "receive")
  /\ UNCHANGED <<conn, accepting, sessions, hasAuthority, carried, handles, asked, registry, reaping, expired, stopping>>

\* Nothing came for a poll interval.
PollEnds(c) ==
  /\ thread[c] = "receive" /\ conn[c] = "open" /\ c \notin asked
  /\ Goto(c, "check")
  /\ UNCHANGED <<conn, accepting, sessions, hasAuthority, carried, handles, asked, registry, reaping, expired, stopping>>

\* Mutant: the end of the stream is taken for a poll that found nothing.
ReceiveStops(c) ==
  /\ thread[c] = "receive" /\ c \in asked
  /\ Goto(c, "fence")
  /\ UNCHANGED <<conn, accepting, sessions, hasAuthority, carried, handles, asked, registry, reaping, expired, stopping>>

\* receive() reports that the peer has gone, or that the connection was asked to
\* stop.
ReceiveEnds(c) ==
  /\ thread[c] = "receive" /\ (conn[c] = "gone" \/ c \in asked)
  /\ Goto(c, "fence")
  /\ UNCHANGED <<conn, accepting, sessions, hasAuthority, carried, handles, asked, registry, reaping, expired, stopping>>

\* No frame came for heartbeat_timeout.
ExpireSession(c) ==
  /\ thread[c] = "receive" /\ conn[c] = "open"
  /\ Goto(c, "fence")
  /\ UNCHANGED <<conn, accepting, sessions, hasAuthority, carried, handles, asked, registry, reaping, expired, stopping>>

\* attach_publisher mints a fresh incarnation and fences the one before it,
\* whichever session carries that.
Attach(c, p) ==
  /\ thread[c] = "receive" /\ conn[c] = "open" /\ c \notin hasAuthority /\ lastBoot < MaxBoot
  /\ lastBoot' = lastBoot + 1
  /\ inForce' = [inForce EXCEPT ![p] = lastBoot']
  /\ carried' = [carried EXCEPT ![c] = [publisher |-> p, boot |-> lastBoot']]
  /\ hasAuthority' = hasAuthority \cup {c}
  /\ Goto(c, "answer")
  /\ UNCHANGED <<conn, accepting, sessions, handles, asked, reaping, expired, stopping>>

\* detach_publisher takes the client's claim, so it fences only the incarnation
\* that made it.
Detach(c) ==
  /\ thread[c] = "receive" /\ conn[c] = "open" /\ c \in hasAuthority
  /\ inForce[carried[c].publisher] = carried[c].boot
  /\ inForce' = [inForce EXCEPT ![carried[c].publisher] = 0]
  /\ hasAuthority' = hasAuthority \ {c} /\ carried' = [carried EXCEPT ![c] = NoIncarnation]
  /\ Goto(c, "answer")
  /\ UNCHANGED <<conn, accepting, sessions, handles, asked, lastBoot, reaping, expired, stopping>>

\* Every other frame, an attach or a detach that is refused among them.
HandleOther(c) ==
  /\ thread[c] = "receive" /\ conn[c] = "open"
  /\ Goto(c, "answer")
  /\ UNCHANGED <<conn, accepting, sessions, hasAuthority, carried, handles, asked, registry, reaping, expired, stopping>>

\* The peer has read the answer.  A send has no deadline ...
Answered(c) ==
  /\ thread[c] = "answer"
  /\ Goto(c, "check")
  /\ UNCHANGED <<conn, accepting, sessions, hasAuthority, carried, handles, asked, registry, reaping, expired, stopping>>

\* ... and ends otherwise only when the peer goes or the connection is asked to
\* stop.
AnswerEnds(c) ==
  /\ thread[c] = "answer" /\ (conn[c] = "gone" \/ c \in asked)
  /\ Goto(c, "check")
  /\ UNCHANGED <<conn, accepting, sessions, hasAuthority, carried, handles, asked, registry, reaping, expired, stopping>>

\* A client may ask for a shutdown.  Its own connection is stopped, and nothing
\* else, after an answer whose send is the one of any other frame: the loop ends.
Shutdown(c) ==
  /\ thread[c] = "receive" /\ conn[c] = "open"
  /\ Goto(c, "fence")
  /\ UNCHANGED <<conn, accepting, sessions, hasAuthority, carried, handles, asked, registry, reaping, expired, stopping>>

\* Mutant: a session that the coordinator stops leaves its publisher in force.
FenceCarriedUnlessStopped(c) ==
  /\ thread[c] = "fence"
  /\ inForce' = [p \in Publishers |->
       IF c \in hasAuthority /\ ~stop /\ p = carried[c].publisher THEN 0 ELSE inForce[p]]
  /\ Goto(c, "clear")
  /\ UNCHANGED <<conn, accepting, sessions, hasAuthority, carried, handles, asked, lastBoot, reaping, expired, stopping>>

\* A session that carries a publisher fences it, by its identity.
FenceCarried(c) ==
  /\ thread[c] = "fence"
  /\ inForce' = IF c \in hasAuthority THEN [inForce EXCEPT ![carried[c].publisher] = 0] ELSE inForce
  /\ Goto(c, "clear")
  /\ UNCHANGED <<conn, accepting, sessions, hasAuthority, carried, handles, asked, lastBoot, reaping, expired, stopping>>

\* The connection is closed and the session marked finished.
Finish(c) ==
  /\ thread[c] = "clear"
  /\ hasAuthority' = hasAuthority \ {c} /\ carried' = [carried EXCEPT ![c] = NoIncarnation]
  /\ conn' = [conn EXCEPT ![c] = "gone"] /\ asked' = asked \ {c}
  /\ Goto(c, "finished")
  /\ UNCHANGED <<accepting, sessions, handles, registry, reaping, expired, stopping>>
-----------------------------------------------------------------------------
(* run_reaper *)

\* Finished sessions leave the table under its mutex ...
Collect ==
  /\ reaper = "sleep" /\ ~stop
  /\ batch' = {c \in sessions : thread[c] = "finished"}
  /\ sessions' = sessions \ batch'
  /\ reaper' = "join"
  /\ UNCHANGED <<conn, accepting, serving, handles, asked, registry, expired, stopping>>

\* ... and those whose thread is assigned are joined outside it.
JoinFinished ==
  /\ reaper = "join"
  /\ handles' = handles \ batch /\ batch' = {}
  /\ reaper' = "sleep"
  /\ UNCHANGED <<conn, accepting, sessions, serving, asked, registry, expired, stopping>>

ReaperEnds ==
  /\ reaper = "sleep" /\ stop
  /\ reaper' = "ended"
  /\ UNCHANGED <<conn, accepting, sessions, serving, handles, asked, registry, batch, expired, stopping>>
-----------------------------------------------------------------------------
(* reap_expired_publishers *)

\* Sessions that carry a publisher and are past the timeout, whatever their
\* thread does; their publishers are collected under the table's mutex ...
CollectExpired ==
  /\ expired = {} /\ stopper = "none"
  /\ \E late \in SUBSET {c \in sessions \cap hasAuthority : thread[c] # "finished"} :
       /\ late # {}
       /\ expired' = {carried[c].publisher : c \in late}
  /\ UNCHANGED <<conn, accepting, sessions, serving, handles, asked, registry, reaping, stopping>>

\* ... and fenced outside it.
FenceExpired(p) ==
  /\ p \in expired
  /\ expired' = expired \ {p}
  /\ inForce' = [inForce EXCEPT ![p] = 0]
  /\ UNCHANGED <<conn, accepting, sessions, serving, handles, asked, lastBoot, reaping, stopping>>
-----------------------------------------------------------------------------
(* stop_internal *)

\* The program that owns the coordinator stops it, between two of its calls.
RaiseStop ==
  /\ stopper = "none" /\ expired = {}
  /\ stop' = TRUE /\ stopper' = "sweep"
  /\ UNCHANGED <<conn, accepting, sessions, serving, handles, asked, registry, reaping, expired, remaining>>

\* Mutant: only sessions that carry a publisher are asked to stop.
SweepCarriers ==
  /\ stopper = "sweep"
  /\ asked' = asked \cup (sessions \cap hasAuthority)
  /\ stopper' = "acceptor"
  /\ UNCHANGED <<conn, accepting, sessions, serving, handles, registry, reaping, expired, stop, remaining>>

\* The listener is closed and every connection in the table is asked to stop.
Sweep ==
  /\ stopper = "sweep"
  /\ asked' = asked \cup sessions
  /\ stopper' = "acceptor"
  /\ UNCHANGED <<conn, accepting, sessions, serving, handles, registry, reaping, expired, stop, remaining>>

\* Mutant: the acceptor is not waited for.
JoinNoAcceptor ==
  /\ stopper = "acceptor"
  /\ stopper' = "reaper"
  /\ UNCHANGED <<conn, accepting, sessions, serving, handles, asked, registry, reaping, expired, stop, remaining>>

JoinAcceptor ==
  /\ stopper = "acceptor" /\ acceptor = "ended"
  /\ stopper' = "reaper"
  /\ UNCHANGED <<conn, accepting, sessions, serving, handles, asked, registry, reaping, expired, stop, remaining>>

\* The reaper is joined, and the sessions that are left are taken out of the
\* table.
JoinReaper ==
  /\ stopper = "reaper" /\ reaper = "ended"
  /\ remaining' = sessions /\ sessions' = {}
  /\ stopper' = "join"
  /\ UNCHANGED <<conn, accepting, serving, handles, asked, registry, reaping, expired, stop>>

\* The remaining sessions in turn: the thread, if there is one, is joined, and a
\* publisher it left in force is fenced.
JoinRemaining(c) ==
  /\ stopper = "join" /\ c \in remaining
  /\ c \in handles => thread[c] = "finished"
  /\ handles' = handles \ {c} /\ remaining' = remaining \ {c}
  /\ inForce' = IF c \in hasAuthority THEN [inForce EXCEPT ![carried[c].publisher] = 0] ELSE inForce
  /\ hasAuthority' = hasAuthority \ {c}
  /\ conn' = [conn EXCEPT ![c] = "gone"]
  /\ UNCHANGED <<accepting, sessions, thread, carried, asked, lastBoot, reaping, expired, stop, stopper>>

StopReturns ==
  /\ stopper = "join" /\ remaining = {}
  /\ stopper' = "done"
  /\ UNCHANGED <<conn, accepting, sessions, serving, handles, asked, registry, reaping, expired, stop, remaining>>
-----------------------------------------------------------------------------
Init ==
  /\ conn = [c \in Conns |-> "none"]
  /\ acceptor = "accept" /\ accepted = NoConn
  /\ sessions = {} /\ thread = [c \in Conns |-> "none"]
  /\ handles = {} /\ asked = {} /\ hasAuthority = {}
  /\ carried = [c \in Conns |-> NoIncarnation]
  /\ inForce = [p \in Publishers |-> 0] /\ lastBoot = 0
  /\ reaper = "sleep" /\ batch = {} /\ expired = {}
  /\ stop = FALSE /\ stopper = "none" /\ remaining = {}

Acceptor == Accept \/ Publish \/ StartThread \/ AssignThread \/ Terminate \/ AcceptorEnds
Session(c) == CheckStop(c) \/ PollEnds(c) \/ ReceiveEnds(c) \/ AnswerEnds(c) \/ FenceCarried(c) \/ Finish(c)
Reaper == Collect \/ JoinFinished \/ ReaperEnds
Stopper == Sweep \/ JoinAcceptor \/ JoinReaper \/ (\E c \in Conns : JoinRemaining(c)) \/ StopReturns

Next ==
  \/ Acceptor \/ StartFails \/ Reaper \/ RaiseStop \/ Stopper
  \/ CollectExpired \/ \E p \in Publishers : FenceExpired(p)
  \/ \E c \in Conns :
       \/ Leave(c) \/ \E p \in Publishers : Attach(c, p)
       \/ Detach(c) \/ HandleOther(c) \/ Shutdown(c) \/ Answered(c) \/ ExpireSession(c) \/ Session(c)

\* The coordinator's threads keep running.  Nothing obliges a client to leave, a
\* peer to read, a timeout to come or anyone to call stop().
Spec ==
  /\ Init /\ [][Next]_vars
  /\ WF_vars(Acceptor) /\ WF_vars(Reaper) /\ WF_vars(Stopper)
  /\ \A c \in Conns : WF_vars(Session(c))
-----------------------------------------------------------------------------
(* Properties *)

\* Every variable has its type.
TypeOK ==
  /\ conn \in [Conns -> {"none", "open", "gone"}]
  /\ acceptor \in {"accept", "publish", "start", "assign", "ended"}
  /\ accepted \in Conns \cup {NoConn}
  /\ thread \in [Conns -> {"none", "check", "receive", "answer", "fence", "clear", "finished"}]
  /\ sessions \subseteq Conns /\ handles \subseteq Conns /\ asked \subseteq Conns
  /\ hasAuthority \subseteq Conns /\ batch \subseteq Conns /\ remaining \subseteq Conns
  /\ carried \in [Conns -> Incarnations]
  /\ inForce \in [Publishers -> 0 .. MaxBoot] /\ lastBoot \in 0 .. MaxBoot
  /\ reaper \in {"sleep", "join", "ended"}
  /\ expired \subseteq Publishers
  /\ stop \in BOOLEAN
  /\ stopper \in {"none", "sweep", "acceptor", "reaper", "join", "done", "terminated"}

\* An incarnation in force is carried by a session whose thread is still to fence
\* it: no authority outlives its session, whoever ends that and whatever else
\* happens at the time (coordinator.hpp: "A publisher is fenced when its session
\* ends for any reason").
AuthorityIsCarried ==
  \A p \in Publishers : inForce[p] # 0 =>
    \E c \in hasAuthority :
      /\ carried[c] = [publisher |-> p, boot |-> inForce[p]]
      /\ thread[c] \in {"check", "receive", "answer", "fence"}

\* When stop() returns, no thread runs, none is left to be joined, the table is
\* empty and no publisher is in force, however late a connection was taken in.
StopLeavesNothing ==
  stopper = "done" =>
    /\ acceptor = "ended" /\ reaper = "ended" /\ sessions = {} /\ handles = {}
    /\ \A c \in Conns : thread[c] \in {"none", "finished"}
    /\ \A p \in Publishers : inForce[p] = 0

\* stop() returns, even when a session thread is in a send that its peer does not
\* read: such a session was in the table when the connections were asked to stop.
StopEnds == stopper # "none" ~> stopper \in {"done", "terminated"}

\* Sessions whose client has gone give up their publisher and their slot in the
\* table: again and again none of them holds either, but one whose thread could
\* not be created.
GoneSessionsEnd ==
  []<>(\A c \in sessions \cup hasAuthority : conn[c] = "gone" => thread[c] = "none")

\* A publisher in force is fenced only in the end, the detach or the expiry of
\* the session that carries its current incarnation (coordinator.cpp: "A session
\* thread fences the publisher it carried").
FencesItsOwn ==
  [][\A c \in Conns : thread[c] = "fence" /\ thread'[c] = "clear" =>
       \A p \in Publishers : inForce'[p] # inForce[p] => inForce[p] = carried[c].boot]_vars
=============================================================================
