-------------------------------- MODULE Mesh --------------------------------
(***************************************************************************)
(* Both ends of the connections one server makes: its node list            *)
(* (HelloProtocol: the hello device and the tcpCmdClients) and, at every   *)
(* other node, the listener and the sessions that serve these connections  *)
(* (tcpConnSrv.c, tcpCmdSrv.c).  What HelloProtocol takes for environment  *)
(* (a session ends, a reset arrives, a node goes) happens here for its     *)
(* reason at the other end.  A close() changes only the end it is called   *)
(* on: what it sends is on its way, and in an outage it is lost.           *)
(*                                                                         *)
(* A session is reduced to what CmdService says of it: it takes what came, *)
(* executes it and answers, or it ends; what it says of a session that is  *)
(* sent pipelined lines, as pings are.  The connections the other nodes    *)
(* make are the same thing seen from there.                                *)
(***************************************************************************)
EXTENDS Integers, Sequences, FiniteSets

CONSTANTS
  Node, myIpAddr, HELLO_NODE_LIMIT, MaxWaiting,    \* as in HelloProtocol
  Slot,              \* bound: the connections a node holds at once
  NodesCrash,        \* TRUE: the other nodes may go and come back
  ServerCrashes,     \* TRUE: so may the server
  MaxLost            \* bound: the ends at one node that the server's end left without a word

ASSUME MeshAssumption ==
  /\ IsFiniteSet(Node) /\ myIpAddr \notin Node
  /\ HELLO_NODE_LIMIT \in Nat /\ MaxWaiting \in Nat \ {0}
  /\ IsFiniteSet(Slot) /\ Slot \subseteq Nat /\ Slot # {}
  /\ NodesCrash \in BOOLEAN /\ ServerCrashes \in BOOLEAN /\ MaxLost \in Nat

VARIABLES
  proc, clients, helloQ, tick, timer, devChangeFlag, up,     \* as in HelloProtocol
  sessions           \* per node: the connections of the server in its kernel

H == INSTANCE HelloProtocol
       WITH bcastAddr <- myIpAddr, ConnectFails <- FALSE, Crowded <- FALSE

serverVars == <<proc, clients, helloQ, tick, timer, devChangeFlag, up>>
meshVars == <<serverVars, sessions>>

\* A connection at a node.  conn is what its system knows: "open", "fin" when the
\* server's end was closed, "rst" when it was reset.  peer is the server's end: a
\* "client"; "closed", its FIN or reset on the way or there; or "lost", gone without
\* a word that will ever arrive.  Until the listener accepts the connection it waits in
\* the backlog and no session reads from it.
Session == [conn : {"open", "fin", "rst"}, peer : {"client", "closed", "lost"},
            accepted : BOOLEAN, unread : BOOLEAN]
NoSession == [conn |-> "none", peer |-> "none", accepted |-> FALSE, unread |-> FALSE]

Backlogged == [conn |-> "open", peer |-> "client", accepted |-> FALSE, unread |-> FALSE]

FreeSlots(n) == {s \in Slot : sessions[n][s] = NoSession}
ServedSlots(n) == {s \in Slot : sessions[n][s].peer = "client"}
LostSlots(n) == {s \in Slot : sessions[n][s].peer = "lost"}

-----------------------------------------------------------------------------
(* Turns of the server *)

\* The kernel of the node completes connect(); its process does not know yet.
helloProtocolInput ==
  /\ H!helloProtocolInput
  /\ LET added == {clients'[i].addr : i \in (Len(clients) + 1)..Len(clients')}
         connected == {n \in added : \E i \in 1..Len(clients') :
                                       clients'[i].addr = n /\ clients'[i].conn = "open"}
     IN  /\ \A n \in connected : FreeSlots(n) # {}
         /\ sessions' = [n \in Node |->
              IF n \in connected
              THEN [sessions[n] EXCEPT ![CHOOSE s \in FreeSlots(n) :
                                           \A t \in FreeSlots(n) : s <= t] = Backlogged]
              ELSE sessions[n]]

\* The server closes its end, or its system does for it; in an outage, or when the host
\* goes, nothing of that ever arrives.
Ending(n) == IF Cardinality(LostSlots(n)) < MaxLost THEN {"closed", "lost"} ELSE {"closed"}

\* The server's end of its connection to n is kept or becomes how[n]; a ping reaches the
\* node or it does not (yet).
ServerEnds(kept, how, reached) ==
  /\ \A n \in Node : how[n] \in Ending(n)
  /\ sessions' = [n \in Node |-> [s \in Slot |->
       IF s \notin ServedSlots(n) THEN sessions[n][s]
       ELSE [sessions[n][s] EXCEPT !.unread = sessions[n][s].unread \/ n \in reached,
                                   !.peer = IF n \in kept THEN "client" ELSE how[n]]]]

\* Mutant: a client is dropped, its socket is not closed.
helloProtocolTimerUnclosed ==
  /\ H!helloProtocolTimer
  /\ \E reached \in SUBSET Node, how \in [Node -> {"closed", "lost"}] :
       ServerEnds(IF proc' = "running" THEN Node ELSE {}, how, reached)

\* Every client is pinged, also the ones that are then dropped and closed.  A process
\* that is killed on the way may not have come to all of them.
helloProtocolTimer ==
  /\ H!helloProtocolTimer
  /\ LET kept == {n \in Node : proc' = "running"
                                 /\ \E i \in 1..Len(clients') : clients'[i].addr = n}
     IN  \E reached \in SUBSET Node, how \in [Node -> {"closed", "lost"}] :
           ServerEnds(kept, how, reached)

\* The connection of a client that shuts down is broken already; the other turns do
\* not send anything (answers are dropped by tcpCmdClientInput).
OtherTurn == H!OtherDevice /\ UNCHANGED sessions
ClientTurn(n) ==
  (H!tcpCmdClientInput(n) \/ H!tcpCmdClientShutdown(n)) /\ UNCHANGED sessions

-----------------------------------------------------------------------------
(* Turns of another node that concern the server's connections *)

\* Mutant: a connection that was closed while it waited is left in the backlog.
AcceptOpenOnly(n, s) ==
  /\ up[n] /\ sessions[n][s].conn = "open" /\ ~sessions[n][s].accepted
  /\ sessions' = [sessions EXCEPT ![n][s].accepted = TRUE]
  /\ UNCHANGED serverVars

\* tcpConnSrvAcceptConnection makes a session, whatever became of the connection.
Accept(n, s) ==
  /\ up[n] /\ sessions[n][s] # NoSession /\ ~sessions[n][s].accepted
  /\ sessions' = [sessions EXCEPT ![n][s].accepted = TRUE]
  /\ UNCHANGED serverVars

Accepted(n, s) == up[n] /\ sessions[n][s].accepted

\* A session takes what came and answers.  The first of its write()s on a closed
\* connection is answered by a reset, into which the next one may run; so is one to an
\* end that was lost, by a host that is there again.
Answer(n, s) ==
  /\ Accepted(n, s) /\ sessions[n][s].unread
  /\ sessions[n][s].conn # "rst"
  /\ \E peer \in {sessions[n][s].peer} \cup
                 (IF sessions[n][s].peer = "lost" THEN {"closed"} ELSE {}) :
       sessions' = [sessions EXCEPT ![n][s] =
         [sessions[n][s] EXCEPT !.unread = FALSE, !.peer = peer,
            !.conn = IF sessions[n][s].conn = "fin" THEN "rst" ELSE "open"]]
  /\ UNCHANGED serverVars

\* The process of node n ends, and its connections with it.  (What is lost of the
\* server's state there is the node's own matter.)
Ends(n) ==
  /\ H!Crash(n)
  /\ sessions' = [sessions EXCEPT ![n] = [s \in Slot |-> NoSession]]

\* SIGPIPE, for the answer to a line that the server sent before it closed.
DiesOfAnswer(n, s) ==
  /\ Accepted(n, s) /\ sessions[n][s].unread
  /\ sessions[n][s].conn \in {"fin", "rst"}
  /\ Ends(n)

\* Mutant: a reset connection is not noticed.
ShutdownFinOnly(n, s) ==
  /\ Accepted(n, s) /\ ~sessions[n][s].unread
  /\ sessions[n][s].conn = "fin"
  /\ sessions' = [sessions EXCEPT ![n][s] = NoSession]
  /\ UNCHANGED serverVars

\* recv() finds the end of the connection, and tcpCmdSrvShutdown frees the session.
ShutdownSession(n, s) ==
  /\ Accepted(n, s) /\ ~sessions[n][s].unread
  /\ sessions[n][s].conn \in {"fin", "rst"}
  /\ sessions' = [sessions EXCEPT ![n][s] = NoSession]
  /\ UNCHANGED serverVars

\* Mutant: the session is freed and its socket is not closed.
CloseSessionUnsaid(n, s) ==
  /\ Accepted(n, s) /\ sessions[n][s].conn = "open"
  /\ sessions' = [sessions EXCEPT ![n][s] = NoSession]
  /\ UNCHANGED serverVars

\* The wildcard row ends a session of a peer that did not close (see CmdService,
\* Lossy).  Its client, if there still is one, has yet to learn of it (H!EndArrives).
CloseSession(n, s) ==
  /\ Accepted(n, s) /\ sessions[n][s].conn = "open"
  /\ sessions' = [sessions EXCEPT ![n][s] = NoSession]
  /\ \/ s \in ServedSlots(n) /\ H!SessionEnds(n)
     \/ s \notin ServedSlots(n) /\ UNCHANGED serverVars

-----------------------------------------------------------------------------
(* The clock, the network, and the coming and going of the processes *)

\* What the server's system sent when the server closed: pings that were under way come
\* before it, and answers nobody read make it a reset.
EndReaches(n, s) ==
  /\ sessions[n][s].peer = "closed" /\ sessions[n][s].conn = "open"
  /\ \E conn \in {"fin", "rst"}, ping \in BOOLEAN :
       sessions' = [sessions EXCEPT ![n][s] =
         [sessions[n][s] EXCEPT !.conn = conn, !.unread = sessions[n][s].unread \/ ping]]
  /\ UNCHANGED serverVars

Tick == H!Tick /\ UNCHANGED sessions
Hello(n) == H!Hello(n) /\ UNCHANGED sessions
EndArrives(n) == H!EndArrives(n) /\ UNCHANGED sessions
ResetArrives(n) == H!ResetArrives(n) /\ UNCHANGED sessions
NodeRestart(n) == H!Restart(n) /\ UNCHANGED sessions

NodeCrash(n) == NodesCrash /\ Ends(n)

\* The server's program ends or its host does; what it knew is gone.
ServerCrash ==
  /\ ServerCrashes /\ proc = "running"
  /\ proc' = "killed" /\ clients' = <<>> /\ helloQ' = <<>>
  /\ tick' = "armed" /\ timer' = "off" /\ devChangeFlag' = TRUE
  /\ \E how \in [Node -> {"closed", "lost"}] : ServerEnds({}, how, {})
  /\ UNCHANGED up

ServerRestart ==
  /\ proc = "killed"
  /\ proc' = "running" /\ clients' = <<>> /\ helloQ' = <<>>
  /\ tick' = "armed" /\ timer' = "off" /\ devChangeFlag' = TRUE
  /\ UNCHANGED <<up, sessions>>

-----------------------------------------------------------------------------
Init ==
  /\ H!Init
  /\ sessions = [n \in Node |-> [s \in Slot |-> NoSession]]

SessionTurn(n, s) == Answer(n, s) \/ DiesOfAnswer(n, s) \/ ShutdownSession(n, s)

Next == \/ helloProtocolInput \/ helloProtocolTimer \/ OtherTurn \/ Tick
        \/ \E n \in Node :
             \/ ClientTurn(n) \/ Hello(n) \/ EndArrives(n) \/ ResetArrives(n)
             \/ NodeCrash(n) \/ NodeRestart(n)
             \/ \E s \in Slot : \/ Accept(n, s) \/ SessionTurn(n, s) \/ CloseSession(n, s)
                                \/ EndReaches(n, s)
        \/ ServerCrash \/ ServerRestart

Spec == Init /\ [][Next]_meshVars

\* The fairness of HelloProtocol for the server, and of the loop of every other node:
\* no device starves there either (PollLoop).  A client is kept for seconds and the
\* backlog waits for milliseconds, so that of the connections that come and go some are
\* accepted while they are open.
FairSpec ==
  /\ Spec /\ H!TimersIdleAgain
  /\ SF_meshVars(helloProtocolInput) /\ WF_meshVars(helloProtocolTimer) /\ WF_meshVars(Tick)
  /\ \A n \in Node :
       /\ WF_meshVars(ClientTurn(n)) /\ WF_meshVars(Hello(n))
       /\ WF_meshVars(up[n] /\ ResetArrives(n))
       /\ \A s \in Slot : /\ WF_meshVars(Accept(n, s)) /\ WF_meshVars(SessionTurn(n, s))
                       /\ WF_meshVars(EndReaches(n, s))
                       /\ SF_meshVars(Accept(n, s) /\ s \in ServedSlots(n))

-----------------------------------------------------------------------------
(* Properties *)

TypeOK == H!TypeOK /\ sessions \in [Node -> [Slot -> Session \cup {NoSession}]]

\* However many ends of dead connections are left at a node, the server keeps one
\* connection to it: before it connects anew its old socket was closed, by whichever of
\* the timer, the shutdown and a kill came first (the close() calls behind
\* helloProtocol.c:252-258 and tcpCmdClient.c:118, the lookup of :147-169).
OneConnectionPerNode == \A n \in Node : \A s, t \in ServedSlots(n) : s = t

\* A session whose client closed is freed, or its process ends: the end of the
\* connection arrives, also before the connection was accepted, and is read behind the
\* last ping (tcpCmdSrv.c:218-228).
ClosedIsFreed ==
  \A n \in Node, s \in Slot : sessions[n][s].peer = "closed" ~> sessions[n][s] = NoSession

\* A ping that was sent is answered, or the session has ended.
PingAnswered ==
  \A n \in Node, s \in Slot : sessions[n][s].unread ~> ~sessions[n][s].unread

\* While the server and a node stay up, the node again and again has a session that
\* serves the server's client, whatever was left over from earlier lives of both.
Reconnected ==
  \A n \in Node :
    <>[](up[n] /\ proc = "running") =>
      []<>(\E s \in ServedSlots(n) : sessions[n][s].accepted)
=============================================================================
