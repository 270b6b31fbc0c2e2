--------------------------- MODULE HelloProtocol ---------------------------
(***************************************************************************)
(* The node list of one server: the hello device (helloProtocol.c) and the *)
(* tcpCmdClient devices it makes (tcpCmdClient.c).  Every tick of the      *)
(* table timer broadcasts a hello, pings every client over its TCP         *)
(* connection and drops the clients of nodes that were silent for too      *)
(* long; every hello that arrives keeps a client or makes one.             *)
(*                                                                         *)
(* A turn of the main loop, with the rebuilding of the pollfd array it     *)
(* starts with, is one action; in which order devices are served is the    *)
(* subject of PollLoop.  The other nodes, the network and the clock are    *)
(* environment.  Left out: pongs (tcpCmdClientInput drops them,            *)
(* msgApiDevPtr being NULL), the clients' own timer (its routine does      *)
(* nothing), and socket() failing.                                         *)
(***************************************************************************)
EXTENDS Integers, Sequences, FiniteSets, Fifo

CONSTANTS
  Node,               \* the addresses of the other nodes
  myIpAddr,           \* the address getMyAddr found for this server
  bcastAddr,          \* the address its broadcasts carry as their source
  HELLO_NODE_LIMIT,   \* ticks a node may be silent
  MaxWaiting,         \* bound: unread hellos of one address
  ConnectFails,       \* TRUE: connect() to a node that is up can fail
  Crowded             \* TRUE: other devices may leave clients no room in the pollfd array

ASSUME HelloAssumption ==
  /\ IsFiniteSet(Node) /\ {myIpAddr, bcastAddr} \cap Node = {}
  /\ HELLO_NODE_LIMIT \in Nat /\ MaxWaiting \in Nat \ {0}
  /\ ConnectFails \in BOOLEAN /\ Crowded \in BOOLEAN

VARIABLES
  proc,            \* the process: "running", or "killed" by SIGPIPE
  clients,         \* the tcpCmdClient devices, in the order of devStructList
  helloQ,          \* the sources of the datagrams that wait in the UDP socket
  tick,            \* tableTimerFd: "armed" or "fired"; it recurs by itself
  timer,           \* timerFd, one-shot: "off", "armed" or "fired"
  devChangeFlag,
  up               \* per other node: it runs and accepts connections

helloVars == <<proc, clients, helloQ, tick, timer, devChangeFlag, up>>

Address == Node \cup {myIpAddr, bcastAddr}

\* The connection of a client, as its socket knows it: "failed" when connect() failed,
\* "open", "fin" when the node's end was closed, "rst" when it was reset, "dead" when
\* the error of the reset was reported.  A "gone" one is open for the socket, but the
\* node's end is no more: its FIN or reset is on the way, lost, or was never sent.
Conn == {"failed", "open", "gone", "fin", "rst", "dead"}

Client == [addr : Address, conn : Conn, activeCount : Nat,
           polled : BOOLEAN,     \* it is in the pollfd array
           closing : BOOLEAN,    \* evtSocketShutdown is queued on it
           pinged : BOOLEAN]     \* something was sent since the connection broke

Running == proc = "running"
Waiting(n) == Cardinality({i \in 1..Len(helloQ) : helloQ[i] = n})
ClientsOf(n) == {i \in 1..Len(clients) : clients[i].addr = n}

-----------------------------------------------------------------------------
(* The routines of the hello device *)

\* initPollFds, at the top of the loop.  The devices are added in the order of the
\* list, in which a client only moves forward: the first ones have room.
Polled(fit) == [i \in 1..Len(clients) |->
                  [clients[i] EXCEPT !.polled = @ \/ (devChangeFlag /\ i <= fit)]]

Rebuilt == {Polled(fit) : fit \in IF Crowded THEN 0..Len(clients) ELSE {Len(clients)}}

\* tcpCmdClientInit; connect() blocks until it knows.
NewClient(n, refused) ==
  [addr |-> n, conn |-> IF n \in refused THEN "failed" ELSE "open", activeCount |-> 0,
   polled |-> FALSE, closing |-> FALSE, pinged |-> FALSE]

\* Mutants: the node is not looked up; its count is decreased instead of reset.
HeardAlwaysNew(list, n, refused) ==
  IF n = myIpAddr THEN list ELSE Append(list, NewClient(n, refused))
HeardCountsDown(list, n, refused) ==
  LET known == {i \in 1..Len(list) : list[i].addr = n} IN
  IF n = myIpAddr THEN list
  ELSE IF known = {} THEN Append(list, NewClient(n, refused))
  ELSE [i \in 1..Len(list) |-> IF i \in known THEN [list[i] EXCEPT !.activeCount = @ - 1]
                               ELSE list[i]]

\* One hello from n: ours is ignored, a known node is kept alive (the first client
\* with its address), an unknown one gets a client.
Heard(list, n, refused) ==
  LET known == {i \in 1..Len(list) : list[i].addr = n}
      first == CHOOSE i \in known : \A j \in known : i <= j
  IN  CASE n = myIpAddr                  -> list
        [] n # myIpAddr /\ known # {}    -> [list EXCEPT ![first].activeCount = 0]
        [] n # myIpAddr /\ known = {}    -> Append(list, NewClient(n, refused))

\* All the hellos that wait, one after the other.
HeardAll(list, refused) ==
  LET heard[k \in 0..Len(helloQ)] ==
        IF k = 0 THEN list ELSE Heard(heard[k - 1], helloQ[k], refused)
  IN  heard[Len(helloQ)]

\* Only a client that connected sets the change flag.
ChangedBy(added) == \E i \in 1..Len(added) : added[i].conn = "open"

\* The socket comes after both timers (devGenericGetEvtType).  All the datagrams
\* that wait are read, one after the other; the row disarms the one-shot timer.
helloProtocolInput ==
  /\ Running /\ helloQ # <<>> /\ "fired" \notin {timer, tick}
  /\ helloQ' = <<>>
  /\ timer' = "off"
  /\ LET down == {n \in Node : ~up[n]} IN
     \E list \in Rebuilt, refused \in IF ConnectFails THEN SUBSET Node ELSE {down} :
       /\ down \subseteq refused
       /\ clients' = HeardAll(list, refused)
  /\ devChangeFlag' = ChangedBy(SubSeq(clients', Len(clients) + 1, Len(clients')))
  /\ UNCHANGED <<proc, tick, up>>

\* send() on a socket that never connected raises SIGPIPE.  After a reset it does,
\* unless the socket still has the error of the reset to report.
SendPings ==
  LET conns == {clients[i].conn : i \in 1..Len(clients)}
  IN  proc' \in IF conns \cap {"failed", "dead"} # {} THEN {"killed"}
                ELSE IF "rst" \in conns THEN {"running", "killed"} ELSE {"running"}

\* send() and recv() report the error of a reset once.
ErrorTaken(conn) == IF conn = "rst" THEN "dead" ELSE conn

\* Mutants: a ping does not reach a node that came back; the count stays.
PingedInVain(c) ==
  [c EXCEPT !.activeCount = @ + 1, !.conn = ErrorTaken(@), !.pinged = @ \/ c.conn = "fin"]
PingedUncounted(c) ==
  [c EXCEPT !.conn = ErrorTaken(@), !.pinged = @ \/ c.conn \in {"fin", "gone"}]

Pinged(c) == [c EXCEPT !.activeCount = @ + 1, !.conn = ErrorTaken(@),
                       !.pinged = @ \/ c.conn \in {"fin", "gone"}]

Silent(c) == c.activeCount > HELLO_NODE_LIMIT

\* The wildcard row is meant for the table timer.  Its seconds also arm the
\* one-shot timer, whose expiry matches the same row.  The broadcast, if it can be
\* sent, comes back to the server's own socket.
helloProtocolTimer ==
  /\ Running
  /\ \/ timer = "fired" /\ tick' = tick
     \/ timer # "fired" /\ tick = "fired" /\ tick' = "armed"
  /\ timer' = "armed"
  /\ helloQ' \in {helloQ} \cup (IF Waiting(bcastAddr) < MaxWaiting
                              THEN {Append(helloQ, bcastAddr)} ELSE {})
  /\ SendPings
  /\ \E list \in Rebuilt :
       LET pinged == [i \in 1..Len(clients) |-> Pinged(list[i])]
       IN  clients' = Sublist(pinged, {i \in 1..Len(clients) : ~Silent(pinged[i])})
  /\ devChangeFlag' = (Len(clients') < Len(clients))
  /\ UNCHANGED up

-----------------------------------------------------------------------------
(* The routines of a client *)

\* poll() reports input or a hang-up and recv() <= 0; it does so for a socket that
\* never connected, too.
Broken == {"fin", "rst", "dead", "failed"}

tcpCmdClientInput(n) ==
  \E i \in ClientsOf(n), list \in Rebuilt :
    /\ Running /\ list[i].polled /\ ~list[i].closing
    /\ list[i].conn \in Broken
    /\ clients' = [list EXCEPT ![i].closing = TRUE, ![i].conn = ErrorTaken(@)]
    /\ devChangeFlag' \in BOOLEAN        \* the scan may have passed the hang-up
    /\ UNCHANGED <<proc, helloQ, tick, timer, up>>

tcpCmdClientShutdown(n) ==
  \E i \in ClientsOf(n), list \in Rebuilt :
    /\ Running /\ list[i].polled /\ list[i].closing
    /\ clients' = Sublist(list, (1..Len(clients)) \ {i})
    /\ devChangeFlag' = TRUE
    /\ UNCHANGED <<proc, helloQ, tick, timer, up>>

\* A turn of another device: sessions come and go.
OtherDevice ==
  /\ Running
  /\ clients' \in Rebuilt
  /\ devChangeFlag' \in BOOLEAN
  /\ UNCHANGED <<proc, helloQ, tick, timer, up>>

-----------------------------------------------------------------------------
(* Environment: the clock, the other nodes and the network *)

\* Both timers run for the same two seconds, and the one-shot is armed anew after each
\* turn that reads the other (srvr.c:173): it never expires first.
Tick ==
  /\ Running
  /\ \/ tick = "armed" /\ tick' = "fired" /\ timer' = timer
     \/ tick = "fired" /\ timer = "armed" /\ timer' = "fired" /\ tick' = tick
  /\ UNCHANGED <<proc, clients, helloQ, devChangeFlag, up>>

\* A node that is up broadcasts; a datagram that is lost is no step.
Hello(n) ==
  /\ Running /\ up[n] /\ Waiting(n) < MaxWaiting
  /\ helloQ' = Append(helloQ, n)
  /\ UNCHANGED <<proc, clients, tick, timer, devChangeFlag, up>>

ConnBecomes(n, from, to) ==
  clients' = [i \in 1..Len(clients) |->
                IF i \in ClientsOf(n) /\ clients[i].conn = from
                THEN [clients[i] EXCEPT !.conn = to] ELSE clients[i]]

\* The program ends, or its host does.
Crash(n) ==
  /\ up[n]
  /\ up' = [up EXCEPT ![n] = FALSE]
  /\ ConnBecomes(n, "open", "gone")
  /\ UNCHANGED <<proc, helloQ, tick, timer, devChangeFlag>>

Restart(n) ==
  /\ ~up[n]
  /\ up' = [up EXCEPT ![n] = TRUE]
  /\ UNCHANGED <<proc, clients, helloQ, tick, timer, devChangeFlag>>

\* The session at the other end ends.
SessionEnds(n) ==
  /\ Running
  /\ \E i \in ClientsOf(n) : clients[i].conn = "open"
  /\ ConnBecomes(n, "open", "gone")
  /\ UNCHANGED <<proc, helloQ, tick, timer, devChangeFlag, up>>

\* What the node's system sent when its end went: a reset, if something was not read.
EndArrives(n) ==
  /\ Running
  /\ \E i \in ClientsOf(n) : clients[i].conn = "gone"
  /\ \E to \in {"fin", "rst"} : ConnBecomes(n, "gone", to)
  /\ UNCHANGED <<proc, helloQ, tick, timer, devChangeFlag, up>>

\* What was sent on a broken connection is answered with a reset, by a system that
\* is up again or never went down.
ResetArrives(n) ==
  /\ Running
  /\ \E i \in ClientsOf(n) :
       /\ clients[i].pinged
       /\ clients[i].conn = "fin" \/ (clients[i].conn = "gone" /\ up[n])
       /\ clients' = [clients EXCEPT ![i].conn = "rst"]
  /\ UNCHANGED <<proc, helloQ, tick, timer, devChangeFlag, up>>

-----------------------------------------------------------------------------
Init ==
  /\ proc = "running" /\ clients = <<>> /\ helloQ = <<>>
  /\ tick = "armed" /\ timer = "off" /\ devChangeFlag = TRUE
  /\ up \in [Node -> BOOLEAN]

Turn == \/ helloProtocolInput \/ helloProtocolTimer \/ OtherDevice
        \/ \E n \in Address : tcpCmdClientInput(n) \/ tcpCmdClientShutdown(n)

World == \/ Tick
         \/ \E n \in Node : \/ Hello(n) \/ Crash(n) \/ Restart(n)
                           \/ SessionEnds(n) \/ EndArrives(n) \/ ResetArrives(n)

Next == Turn \/ World

Spec == Init /\ [][Next]_helloVars

\* The timers take two seconds, turns do not: again and again both are idle, and the
\* socket, which comes after them, gets a turn.
TimersIdleAgain == []<>("fired" \notin {timer, tick})

\* No device starves (PollLoop), the timers expire, a node that is up is heard again
\* and again, and its system's answer to a ping arrives.  The end of a connection need
\* not arrive.
FairSpec ==
  /\ Spec /\ TimersIdleAgain
  /\ SF_helloVars(helloProtocolInput) /\ WF_helloVars(helloProtocolTimer)
  /\ WF_helloVars(Tick)
  /\ \A n \in Address : WF_helloVars(tcpCmdClientInput(n)) /\ WF_helloVars(tcpCmdClientShutdown(n))
  /\ \A n \in Node : WF_helloVars(Hello(n)) /\ WF_helloVars(up[n] /\ ResetArrives(n))

-----------------------------------------------------------------------------
(* Properties *)

TypeOK ==
  /\ proc \in {"running", "killed"}
  /\ clients \in Seq(Client)
  /\ helloQ \in Seq(Address)
  /\ tick \in {"armed", "fired"} /\ timer \in {"off", "armed", "fired"}
  /\ devChangeFlag \in BOOLEAN
  /\ up \in [Node -> BOOLEAN]

\* A node has one client, however its hellos, its crashes and the ends of its
\* connections fall: the list is searched before a client is made, also for the
\* second of two hellos read in one go (helloProtocol.c:147-169).  A server that takes
\* its own broadcasts for another node's, because they bear another address than
\* the one it asked for, becomes one client of itself, not one for each broadcast.
OneClientPerNode == \A i, j \in 1..Len(clients) : clients[i].addr = clients[j].addr => i = j

\* A node that stays down is forgotten, even when it died without a word or when
\* it was last heard of after it died.
DeadNodeForgotten ==
  \A n \in Node : <>[](~up[n]) => <>[](ClientsOf(n) = {}) \/ <>(proc = "killed")

\* A node that stays up is connected again and again, whatever became of the
\* connection of its client: "this should catch all dead TCP connections"
\* (helloProtocol.c:231-232), also the half-open ones of a crash.
LiveNodeConnected ==
  \A n \in Node : <>[](up[n]) =>
     []<>(\E i \in ClientsOf(n) : clients[i].conn = "open") \/ <>(proc = "killed")

-----------------------------------------------------------------------------
(* What a comment says and the code does not do *)

\* helloProtocol.c:231 "send a message to all cmd servers we are connected to":
\* a ping is not sent to a server to which the connection failed.
PingsOnlyConnected ==
  [][helloProtocolTimer => \A i \in 1..Len(clients) : clients[i].conn # "failed"]_helloVars
=============================================================================
