----------------------------- MODULE MeshProofs -----------------------------
(***************************************************************************)
(* One server has at most one live connection to each other node, for      *)
(* every number of nodes, of connections a node can hold and of ends that  *)
(* are lost on the way.  The node list is HelloProtocol's, and what a step *)
(* does to it is taken from there.                                         *)
(***************************************************************************)
EXTENDS Mesh, FifoTheorems

HP == INSTANCE HelloProtocolProofs
        WITH bcastAddr <- myIpAddr, ConnectFails <- FALSE, Crowded <- FALSE

\* A node serves one client of the server at most, which runs and has it in its list,
\* connected.  (The converse is not so: the end of a session may not have arrived.)
Paired(n) ==
  /\ \A s, t \in ServedSlots(n) : s = t
  /\ ServedSlots(n) # {} => proc = "running" /\ HP!HasOpen(clients, n)

SessionsOK == sessions \in [Node -> [Slot -> Session \cup {NoSession}]]

MInv == HP!HInv /\ SessionsOK /\ \A n \in Node : Paired(n)

-----------------------------------------------------------------------------
(* The steps of HelloProtocol, as Mesh and as the proofs about it name them *)

LEMMA NodeListAssumption ==
  /\ HP!IsFiniteSet(Node) /\ {myIpAddr, myIpAddr} \cap Node = {}
  /\ HELLO_NODE_LIMIT \in Nat /\ MaxWaiting \in Nat \ {0}
  /\ FALSE \in BOOLEAN
BY MeshAssumption DEF HP!IsFiniteSet, IsFiniteSet

LEMMA SameLists == H!Rebuilt = HP!Rebuilt /\ (H!Running <=> HP!Running)
BY DEF H!Rebuilt, HP!Rebuilt, H!Polled, HP!Polled, H!Running, HP!Running

LEMMA SameTypeOK == H!TypeOK <=> HP!TypeOK
BY DEF H!TypeOK, HP!TypeOK, H!Client, HP!Client, H!Address, HP!Address, H!Conn, HP!Conn

LEMMA SameInit == H!Init <=> HP!Init
BY DEF H!Init, HP!Init

LEMMA SameInput == H!helloProtocolInput <=> HP!helloProtocolInput
BY SameLists DEF H!helloProtocolInput, HP!helloProtocolInput,
       H!ChangedBy, HP!ChangedBy, H!HeardAll, HP!HeardAll, H!Heard, HP!Heard,
       H!NewClient, HP!NewClient

LEMMA SameTimer == H!helloProtocolTimer <=> HP!helloProtocolTimer
BY SameLists DEF H!helloProtocolTimer, HP!helloProtocolTimer, H!ErrorTaken, HP!ErrorTaken,
       H!Waiting, HP!Waiting, H!SendPings, HP!SendPings, H!Pinged, HP!Pinged, H!Silent, HP!Silent,
       H!Cardinality, HP!Cardinality, H!Sublist, HP!Sublist

LEMMA SameTurns ==
  /\ H!OtherDevice <=> HP!OtherDevice
  /\ \A n : H!tcpCmdClientInput(n) <=> HP!tcpCmdClientInput(n)
  /\ \A n : H!tcpCmdClientShutdown(n) <=> HP!tcpCmdClientShutdown(n)
BY SameLists DEF H!OtherDevice, HP!OtherDevice, H!ErrorTaken, HP!ErrorTaken,
       H!tcpCmdClientInput, HP!tcpCmdClientInput, H!tcpCmdClientShutdown, HP!tcpCmdClientShutdown,
       H!ClientsOf, HP!ClientsOf, H!Broken, HP!Broken, H!Sublist, HP!Sublist

LEMMA SameWorld ==
  /\ H!Tick <=> HP!Tick
  /\ \A n : H!Hello(n) <=> HP!Hello(n)
  /\ \A n : H!Crash(n) <=> HP!Crash(n)
  /\ \A n : H!Restart(n) <=> HP!Restart(n)
  /\ \A n : H!SessionEnds(n) <=> HP!SessionEnds(n)
  /\ \A n : H!EndArrives(n) <=> HP!EndArrives(n)
  /\ \A n : H!ResetArrives(n) <=> HP!ResetArrives(n)
BY DEF H!Tick, HP!Tick, H!Hello, HP!Hello, H!Crash, HP!Crash, H!Restart, HP!Restart,
       H!SessionEnds, HP!SessionEnds, H!EndArrives, HP!EndArrives, H!ResetArrives, HP!ResetArrives, H!Running, HP!Running,
       H!Waiting, HP!Waiting, H!Cardinality, HP!Cardinality, H!ConnBecomes, HP!ConnBecomes,
       H!ClientsOf, HP!ClientsOf

\* A step of the node list keeps its invariant.
LEMMA ListKeeps ==
  ASSUME HP!HInv,
         \/ H!helloProtocolInput \/ H!helloProtocolTimer \/ H!OtherDevice \/ H!Tick
         \/ \E n \in Node : \/ H!tcpCmdClientInput(n) \/ H!tcpCmdClientShutdown(n) \/ H!Hello(n)
                            \/ H!Crash(n) \/ H!Restart(n) \/ H!SessionEnds(n) \/ H!EndArrives(n)
                            \/ H!ResetArrives(n)
         \/ UNCHANGED serverVars
  PROVE  HP!HInv'
<1>1. HP!HInv /\ [HP!Next]_(HP!helloVars) => HP!HInv'
  BY NodeListAssumption, HP!StepKeeps
<1>2. \A n \in Node : n \in HP!Address
  BY DEF HP!Address
<1>3. CASE \/ H!helloProtocolInput \/ H!helloProtocolTimer \/ H!OtherDevice \/ H!Tick
  BY <1>1, <1>3, SameInput, SameTimer, SameTurns, SameWorld DEF HP!Next, HP!Turn, HP!World
<1>4. ASSUME NEW n \in Node, H!tcpCmdClientInput(n) \/ H!tcpCmdClientShutdown(n) PROVE HP!HInv'
  BY <1>1, <1>2, <1>4, SameTurns, Zenon DEF HP!Next, HP!Turn
<1>5. ASSUME NEW n \in Node,
             \/ H!Hello(n) \/ H!Crash(n) \/ H!Restart(n) \/ H!SessionEnds(n)
             \/ H!EndArrives(n) \/ H!ResetArrives(n)
      PROVE  HP!HInv'
  BY <1>1, <1>5, SameWorld, Zenon DEF HP!Next, HP!World
<1>6. CASE UNCHANGED serverVars
  BY <1>1, <1>6 DEF serverVars, HP!helloVars
<1> QED
  BY <1>3, <1>4, <1>5, <1>6

-----------------------------------------------------------------------------
(* The slots *)

\* A step that makes no connection, and breaks none that is still served.
LEMMA FewerKeep ==
  ASSUME MInv, HP!HInv', SessionsOK',
         \A n \in Node : \A s \in Slot :
           sessions'[n][s].peer = "client" =>
             /\ sessions[n][s].peer = "client"
             /\ proc' = proc /\ HP!HasOpen(clients', n)
  PROVE  MInv'
<1>1. ASSUME NEW n \in Node PROVE Paired(n)'
  <2>1. Paired(n)
    BY DEF MInv
  <2>2. ServedSlots(n)' \subseteq ServedSlots(n)
    BY DEF ServedSlots
  <2>3. ServedSlots(n)' # {} => proc' = proc /\ HP!HasOpen(clients', n)
    BY DEF ServedSlots
  <2>4. HP!HasOpen(clients, n)' <=> HP!HasOpen(clients', n)
    BY DEF HP!HasOpen
  <2> QED
    BY <2>1, <2>2, <2>3, <2>4 DEF Paired
<1> QED
  BY <1>1 DEF MInv

\* A step of the server's side alone.
LEMMA ServerKeeps ==
  ASSUME MInv, HP!HInv', UNCHANGED <<sessions, proc>>,
         \A n \in Node : HP!HasOpen(clients, n) => HP!HasOpen(clients', n)
  PROVE  MInv'
<1>1. SessionsOK'
  BY DEF MInv, SessionsOK
<1>2. ASSUME NEW n \in Node, NEW s \in Slot, sessions[n][s].peer = "client"
      PROVE  HP!HasOpen(clients', n)
  BY <1>2 DEF MInv, Paired, ServedSlots
<1> QED
  BY <1>1, <1>2, FewerKeep

\* A step of one session's side alone.
LEMMA OneSlotKeeps ==
  ASSUME MInv, UNCHANGED serverVars, NEW n \in Node, NEW s \in Slot,
         NEW v \in Session \cup {NoSession},
         v.peer = "client" => sessions[n][s].peer = "client",
         sessions' = [sessions EXCEPT ![n][s] = v]
  PROVE  MInv'
<1>1. HP!HInv' /\ UNCHANGED <<proc, clients>>
  BY ListKeeps DEF MInv, serverVars
<1>2. SessionsOK'
  BY DEF MInv, SessionsOK
<1>3. \A m \in Node : \A t \in Slot :
        sessions'[m][t] = IF m = n /\ t = s THEN v ELSE sessions[m][t]
  BY DEF MInv, SessionsOK
<1>4. \A m \in Node : \A t \in Slot :
        sessions'[m][t].peer = "client" => sessions[m][t].peer = "client"
  BY <1>3
<1>5. ASSUME NEW m \in Node, NEW t \in Slot, sessions[m][t].peer = "client"
      PROVE  HP!HasOpen(clients', m)
  <2>1. HP!HasOpen(clients, m)
    BY <1>5 DEF MInv, Paired, ServedSlots
  <2> QED
    BY <1>1, <2>1
<1> QED
  BY <1>1, <1>2, <1>4, <1>5, FewerKeep

\* A node goes, or the session that served the client ends: the connection to it
\* breaks, and it serves none.
LEMMA BreakKeeps ==
  ASSUME MInv, HP!HInv', SessionsOK', proc' = proc, NEW n \in Node,
         HP!ConnBecomes(n, "open", "gone"),
         \A m \in Node : m # n => sessions'[m] = sessions[m],
         \A s \in Slot : sessions'[n][s].peer # "client"
  PROVE  MInv'
<1>1. clients \in Seq(HP!Client)
  BY DEF MInv, HP!HInv, HP!TypeOK
<1>2. \A m : HP!HasOpen(clients', m) <=> HP!HasOpen(clients, m) /\ m # n
  BY <1>1, NodeListAssumption, HP!BreakOpens
<1>3. ASSUME NEW m \in Node, NEW s \in Slot, sessions'[m][s].peer = "client"
      PROVE  sessions[m][s].peer = "client" /\ HP!HasOpen(clients', m)
  <2>1. m # n /\ sessions[m][s].peer = "client"
    BY <1>3
  <2>2. HP!HasOpen(clients, m)
    BY <2>1 DEF MInv, Paired, ServedSlots
  <2> QED
    BY <1>2, <2>1, <2>2
<1> QED
  BY <1>3, FewerKeep

\* What the server's closing does to the slots.
LEMMA ServerEndsSlots ==
  ASSUME SessionsOK, NEW kept, NEW reached, NEW how \in [Node -> {"closed", "lost"}],
         ServerEnds(kept, how, reached)
  PROVE  /\ SessionsOK'
         /\ \A n \in Node : \A s \in Slot :
              sessions'[n][s].peer = "client" => n \in kept /\ sessions[n][s].peer = "client"
<1> DEFINE to(n, s) ==
             IF s \notin ServedSlots(n) THEN sessions[n][s]
             ELSE [sessions[n][s] EXCEPT !.unread = sessions[n][s].unread \/ n \in reached,
                                         !.peer = IF n \in kept THEN "client" ELSE how[n]]
<1>1. sessions' = [n \in Node |-> [s \in Slot |-> to(n, s)]]
  BY Zenon DEF ServerEnds
<1>2. ASSUME NEW n \in Node, NEW s \in Slot
      PROVE  /\ to(n, s) \in Session \cup {NoSession}
             /\ to(n, s).peer = "client" => n \in kept /\ sessions[n][s].peer = "client"
  <2>1. sessions[n][s] \in Session \cup {NoSession}
    BY DEF SessionsOK
  <2>2. CASE s \notin ServedSlots(n)
    BY <2>1, <2>2 DEF ServedSlots
  <2>3. CASE s \in ServedSlots(n)
    <3> DEFINE c == sessions[n][s]
               u == c.unread \/ n \in reached
               p == IF n \in kept THEN "client" ELSE how[n]
               d == [c EXCEPT !.unread = u]
    <3>1. c \in Session /\ c.peer = "client"
      BY <2>1, <2>3 DEF ServedSlots, NoSession
    <3>2. u \in BOOLEAN
      BY <3>1 DEF Session
    <3>3. p \in {"client", "closed", "lost"} /\ (p = "client" => n \in kept)
      OBVIOUS
    <3>4. to(n, s) = [d EXCEPT !.peer = p]
      BY <2>3
    <3> HIDE DEF u, p, to
    <3>5. d \in Session
      BY <3>1, <3>2 DEF Session
    <3> HIDE DEF d
    <3>6. to(n, s) \in Session /\ to(n, s).peer = p
      BY <3>3, <3>4, <3>5 DEF Session
    <3> QED
      BY <3>1, <3>3, <3>6
  <2> QED
    BY <2>2, <2>3
<1> HIDE DEF to
<1>3. SessionsOK'
  BY <1>1, <1>2 DEF SessionsOK
<1>4. \A n \in Node : \A s \in Slot : sessions'[n][s] = to(n, s)
  BY <1>1
<1> QED
  BY <1>2, <1>3, <1>4

-----------------------------------------------------------------------------
(* The turns of the server *)

LEMMA OtherTurnKeeps ==
  ASSUME MInv, \/ OtherTurn \/ Tick
               \/ \E n \in Node : ClientTurn(n) \/ Hello(n) \/ EndArrives(n) \/ ResetArrives(n)
                                  \/ NodeRestart(n)
  PROVE  MInv'
<1>1. HP!HInv
  BY DEF MInv
<1>2. CASE OtherTurn
  <2>1. HP!HInv' /\ UNCHANGED <<sessions, proc>>
    BY <1>1, <1>2, ListKeeps DEF OtherTurn, H!OtherDevice
  <2>2. \A m : HP!HasOpen(clients', m) <=> HP!HasOpen(clients, m)
    BY <1>1, <1>2, SameTurns, NodeListAssumption, HP!TurnOpens DEF OtherTurn
  <2> QED
    BY <2>1, <2>2, ServerKeeps
<1>3. ASSUME NEW n \in Node, ClientTurn(n) PROVE MInv'
  <2>1. (H!tcpCmdClientInput(n) \/ H!tcpCmdClientShutdown(n)) /\ sessions' = sessions
    BY <1>3 DEF ClientTurn
  <2>2. proc' = proc
    BY <2>1, Zenon DEF H!tcpCmdClientInput, H!tcpCmdClientShutdown
  <2>3. HP!HInv'
    BY <1>1, <2>1, ListKeeps
  <2>4. \E m \in HP!Address : HP!tcpCmdClientInput(m) \/ HP!tcpCmdClientShutdown(m)
    BY <2>1, SameTurns, Zenon DEF HP!Address
  <2>5. \A m : HP!HasOpen(clients', m) <=> HP!HasOpen(clients, m)
    BY <1>1, <2>4, NodeListAssumption, HP!TurnOpens
  <2> QED
    BY <2>1, <2>2, <2>3, <2>5, ServerKeeps
<1>4. ASSUME NEW n \in Node, EndArrives(n) \/ ResetArrives(n) PROVE MInv'
  <2>1. (H!EndArrives(n) \/ H!ResetArrives(n)) /\ sessions' = sessions
    BY <1>4 DEF EndArrives, ResetArrives
  <2>2. proc' = proc
    BY <2>1, Zenon DEF H!EndArrives, H!ResetArrives
  <2>3. HP!HInv'
    BY <1>1, <2>1, ListKeeps
  <2>4. HP!EndArrives(n) \/ HP!ResetArrives(n)
    BY <2>1, SameWorld, Zenon
  <2>5. \A m : HP!HasOpen(clients', m) <=> HP!HasOpen(clients, m)
    BY <1>1, <2>4, NodeListAssumption, HP!ArrivalOpens
  <2> QED
    BY <2>1, <2>2, <2>3, <2>5, ServerKeeps
<1>5. ASSUME NEW n \in Node, Hello(n) \/ NodeRestart(n) PROVE MInv'
  <2>1. HP!HInv'
    BY <1>1, <1>5, ListKeeps DEF Hello, NodeRestart
  <2>2. UNCHANGED <<sessions, proc, clients>>
    BY <1>5 DEF Hello, NodeRestart, H!Hello, H!Restart
  <2> QED
    BY <2>1, <2>2, ServerKeeps
<1>6. CASE Tick
  <2>1. HP!HInv'
    BY <1>1, <1>6, ListKeeps DEF Tick
  <2>2. UNCHANGED <<sessions, proc, clients>>
    BY <1>6 DEF Tick, H!Tick
  <2> QED
    BY <2>1, <2>2, ServerKeeps
<1> QED
  BY <1>2, <1>3, <1>4, <1>5, <1>6

\* connect() opens one end at each node a connection is made to, none of which served
\* the server before.
LEMMA InputKeeps ==
  ASSUME MInv, helloProtocolInput
  PROVE  MInv'
<1> DEFINE added == {clients'[i].addr : i \in (Len(clients) + 1)..Len(clients')}
           slot(n) == CHOOSE s \in FreeSlots(n) : \A t \in FreeSlots(n) : s <= t
           connected == {n \in added : HP!HasOpen(clients', n)}
<1>1. HP!HInv /\ SessionsOK
  BY DEF MInv
<1>2. /\ H!helloProtocolInput /\ HP!helloProtocolInput
      /\ \A n \in connected : FreeSlots(n) # {}
      /\ sessions' = [n \in Node |-> IF n \in connected
                                     THEN [sessions[n] EXCEPT ![slot(n)] = Backlogged]
                                     ELSE sessions[n]]
  BY SameInput DEF helloProtocolInput, HP!HasOpen
<1>3. HP!HInv'
  BY <1>1, <1>2, ListKeeps
<1>4. proc = "running" /\ proc' = "running"
  BY <1>2 DEF HP!helloProtocolInput, HP!Running
<1>5. \A n : /\ n \in added => ~HP!HasOpen(clients, n)
             /\ n \notin added => (HP!HasOpen(clients', n) <=> HP!HasOpen(clients, n))
  BY <1>1, <1>2, NodeListAssumption, HP!InputOpens
<1> HIDE DEF added
<1>6. ASSUME NEW n \in Node, n \in connected
      PROVE  /\ slot(n) \in Slot
             /\ \A s \in Slot : sessions'[n][s] = IF s = slot(n) THEN Backlogged ELSE sessions[n][s]
  <2>1. FreeSlots(n) \subseteq Nat /\ FreeSlots(n) # {} /\ FreeSlots(n) \subseteq Slot
    BY <1>2, <1>6, MeshAssumption DEF FreeSlots
  <2>2. \E s \in FreeSlots(n) : \A t \in FreeSlots(n) : s <= t
    BY <2>1, LeastPosition
  <2>3. slot(n) \in FreeSlots(n)
    BY <2>2, Zenon
  <2>4. sessions'[n] = [sessions[n] EXCEPT ![slot(n)] = Backlogged]
    BY <1>2, <1>6
  <2> HIDE DEF slot
  <2>5. sessions[n] \in [Slot -> Session \cup {NoSession}]
    BY <1>1 DEF SessionsOK
  <2> QED
    BY <2>1, <2>3, <2>4, <2>5
<1>7. \A n \in Node : n \notin connected => sessions'[n] = sessions[n]
  BY <1>2
<1>8. SessionsOK'
  <2>1. Backlogged \in Session
    BY DEF Backlogged, Session
  <2> DEFINE to(n) == IF n \in connected THEN [sessions[n] EXCEPT ![slot(n)] = Backlogged]
                      ELSE sessions[n]
  <2>2. ASSUME NEW n \in Node PROVE to(n) \in [Slot -> Session \cup {NoSession}]
    <3>1. sessions[n] \in [Slot -> Session \cup {NoSession}]
      BY <1>1 DEF SessionsOK
    <3> HIDE DEF connected, slot
    <3> QED
      BY <2>1, <3>1
  <2>3. sessions' = [n \in Node |-> to(n)]
    BY <1>2
  <2> HIDE DEF to
  <2> QED
    BY <2>2, <2>3 DEF SessionsOK
<1>9. Backlogged.peer = "client"
  BY DEF Backlogged
<1> HIDE DEF slot, connected
<1>10. ASSUME NEW n \in Node PROVE Paired(n)'
  <2>1. Paired(n)
    BY DEF MInv
  <2>2. HP!HasOpen(clients, n)' <=> HP!HasOpen(clients', n)
    BY DEF HP!HasOpen
  <2>3. CASE n \in connected
    <3>1. ServedSlots(n) = {} /\ HP!HasOpen(clients', n)
      BY <1>5, <2>1, <2>3 DEF Paired, connected
    <3>2. ServedSlots(n)' = {slot(n)}
      BY <1>6, <1>9, <2>3, <3>1 DEF ServedSlots
    <3> QED
      BY <1>4, <2>2, <3>1, <3>2 DEF Paired
  <2>4. CASE n \notin connected
    <3>1. ServedSlots(n)' = ServedSlots(n)
      BY <1>7, <2>4 DEF ServedSlots
    <3>2. HP!HasOpen(clients, n) => HP!HasOpen(clients', n)
      BY <1>5, <2>4 DEF connected
    <3> QED
      BY <1>4, <2>1, <2>2, <3>1, <3>2 DEF Paired
  <2> QED
    BY <2>3, <2>4
<1> QED
  BY <1>3, <1>8, <1>10 DEF MInv

\* A client that is dropped closes its socket; the end of the process closes all.
LEMMA TimerKeeps ==
  ASSUME MInv, helloProtocolTimer
  PROVE  MInv'
<1> DEFINE kept == {n \in Node : proc' = "running" /\ HP!HasClient(clients', n)}
<1>1. HP!HInv /\ SessionsOK
  BY DEF MInv
<1>2. PICK reached \in SUBSET Node, how \in [Node -> {"closed", "lost"}] :
        ServerEnds(kept, how, reached)
  BY Zenon DEF helloProtocolTimer, HP!HasClient
<1>3. H!helloProtocolTimer /\ HP!helloProtocolTimer
  BY SameTimer DEF helloProtocolTimer
<1>4. HP!HInv'
  BY <1>1, <1>3, ListKeeps
<1>5. proc = "running"
  BY <1>3 DEF HP!helloProtocolTimer, HP!Running
<1>6. \A n : HP!HasOpen(clients', n) <=> HP!HasOpen(clients, n) /\ HP!HasClient(clients', n)
  BY <1>1, <1>3, NodeListAssumption, HP!TimerOpens
<1>7. \A n \in Node : n \in kept => proc' = "running" /\ HP!HasClient(clients', n)
  OBVIOUS
<1> HIDE DEF kept
<1>8. /\ SessionsOK'
      /\ \A n \in Node : \A s \in Slot :
           sessions'[n][s].peer = "client" => n \in kept /\ sessions[n][s].peer = "client"
  BY <1>1, <1>2, ServerEndsSlots
<1>9. ASSUME NEW n \in Node, NEW s \in Slot, sessions'[n][s].peer = "client"
      PROVE  sessions[n][s].peer = "client" /\ proc' = proc /\ HP!HasOpen(clients', n)
  <2>1. n \in kept /\ sessions[n][s].peer = "client"
    BY <1>8, <1>9
  <2>2. HP!HasOpen(clients, n)
    BY <2>1 DEF MInv, Paired, ServedSlots
  <2> QED
    BY <1>5, <1>6, <1>7, <2>1, <2>2
<1> QED
  BY <1>4, <1>8, <1>9, FewerKeep

\* The server goes, and every end of it with it; it comes back knowing nothing.
LEMMA ServerGoesKeeps ==
  ASSUME MInv, ServerCrash \/ ServerRestart
  PROVE  MInv'
<1>1. HP!HInv /\ SessionsOK
  BY DEF MInv
<1>2. HP!HInv'
  <2>1. up' \in [Node -> BOOLEAN]
    BY <1>1 DEF ServerCrash, ServerRestart, HP!HInv, HP!TypeOK
  <2>2. /\ clients' = <<>> /\ helloQ' = <<>> /\ tick' = "armed" /\ timer' = "off"
        /\ devChangeFlag' = TRUE /\ proc' \in {"running", "killed"}
    BY DEF ServerCrash, ServerRestart
  <2> QED
    BY <2>1, <2>2, NodeListAssumption, HP!EmptyHolds
<1>3. CASE ServerCrash
  <2>1. PICK how \in [Node -> {"closed", "lost"}] : ServerEnds({}, how, {})
    BY <1>3, Zenon DEF ServerCrash
  <2>2. SessionsOK' /\ \A n \in Node : \A s \in Slot : sessions'[n][s].peer # "client"
    BY <1>1, <2>1, ServerEndsSlots
  <2> QED
    BY <1>2, <2>2, FewerKeep
<1>4. CASE ServerRestart
  <2>1. proc = "killed" /\ sessions' = sessions
    BY <1>4 DEF ServerRestart
  <2>2. \A n \in Node : \A s \in Slot : sessions[n][s].peer # "client"
    BY <2>1 DEF MInv, Paired, ServedSlots
  <2>3. SessionsOK'
    BY <1>1, <2>1 DEF SessionsOK
  <2> QED
    BY <1>2, <2>1, <2>2, <2>3, FewerKeep
<1> QED
  BY <1>3, <1>4

-----------------------------------------------------------------------------
(* The turns of another node *)

LEMMA SlotFacts ==
  ASSUME SessionsOK, NEW n \in Node, NEW s \in Slot, sessions[n][s] # NoSession
  PROVE  /\ sessions[n][s] \in Session
         /\ sessions[n][s].conn \in {"open", "fin", "rst"}
         /\ sessions[n][s].peer \in {"client", "closed", "lost"}
         /\ sessions[n][s].accepted \in BOOLEAN /\ sessions[n][s].unread \in BOOLEAN
BY DEF SessionsOK, Session

LEMMA SessionKeeps ==
  ASSUME MInv, NEW n \in Node, NEW s \in Slot,
         Accept(n, s) \/ Answer(n, s) \/ ShutdownSession(n, s) \/ EndReaches(n, s)
  PROVE  MInv'
<1> DEFINE c == sessions[n][s]
<1>1. SessionsOK /\ UNCHANGED serverVars
  BY DEF MInv, Accept, Answer, ShutdownSession, EndReaches
<1>2. NoSession.conn = "none" /\ NoSession.peer = "none" /\ ~NoSession.accepted /\ ~NoSession.unread
  BY DEF NoSession
<1>3. CASE Accept(n, s)
  <2>1. c \in Session
    BY <1>1, <1>3, SlotFacts DEF Accept
  <2>2. [c EXCEPT !.accepted = TRUE] \in Session /\ [c EXCEPT !.accepted = TRUE].peer = c.peer
    BY <2>1 DEF Session
  <2>3. sessions' = [sessions EXCEPT ![n][s] = [c EXCEPT !.accepted = TRUE]]
    BY <1>1, <1>3 DEF Accept, SessionsOK
  <2> QED
    BY <1>1, <2>2, <2>3, OneSlotKeeps
<1>4. CASE Answer(n, s)
  <2>1. c \in Session /\ c.conn \in {"open", "fin", "rst"} /\ c.peer \in {"client", "closed", "lost"}
    BY <1>1, <1>2, <1>4, SlotFacts DEF Answer, Accepted
  <2>2. PICK peer \in {c.peer} \cup (IF c.peer = "lost" THEN {"closed"} ELSE {}) :
          sessions' = [sessions EXCEPT ![n][s] =
            [c EXCEPT !.unread = FALSE, !.peer = peer,
                      !.conn = IF c.conn = "fin" THEN "rst" ELSE "open"]]
    BY <1>4, Zenon DEF Answer
  <2> DEFINE conn == IF c.conn = "fin" THEN "rst" ELSE "open"
             v == [c EXCEPT !.unread = FALSE, !.peer = peer, !.conn = conn]
             d == [c EXCEPT !.unread = FALSE]
             e == [d EXCEPT !.peer = peer]
  <2>3. peer \in {"client", "closed", "lost"} /\ (peer = "client" => c.peer = "client")
    BY <2>1, <2>2
  <2>4. conn \in {"open", "fin", "rst"}
    OBVIOUS
  <2>5. v = [e EXCEPT !.conn = conn] /\ sessions' = [sessions EXCEPT ![n][s] = v]
    BY <2>2
  <2>6. d \in Session
    BY <2>1 DEF Session
  <2> HIDE DEF conn, v, d
  <2>7. e \in Session /\ e.peer = peer
    BY <2>3, <2>6 DEF Session
  <2> HIDE DEF e
  <2>8. v \in Session /\ v.peer = peer
    BY <2>4, <2>5, <2>7 DEF Session
  <2> QED
    BY <1>1, <2>3, <2>5, <2>8, OneSlotKeeps
<1>5. CASE ShutdownSession(n, s)
  <2>1. sessions' = [sessions EXCEPT ![n][s] = NoSession]
    BY <1>5 DEF ShutdownSession
  <2> QED
    BY <1>1, <1>2, <2>1, OneSlotKeeps
<1>6. CASE EndReaches(n, s)
  <2>1. c \in Session /\ c.unread \in BOOLEAN /\ c.peer = "closed"
    BY <1>1, <1>2, <1>6, SlotFacts DEF EndReaches
  <2>2. PICK conn \in {"fin", "rst"}, ping \in BOOLEAN :
          sessions' = [sessions EXCEPT ![n][s] =
            [c EXCEPT !.conn = conn, !.unread = sessions[n][s].unread \/ ping]]
    BY <1>6, Zenon DEF EndReaches
  <2> DEFINE u == c.unread \/ ping
             v == [c EXCEPT !.conn = conn, !.unread = u]
             d == [c EXCEPT !.conn = conn]
  <2>3. u \in BOOLEAN
    BY <2>1
  <2>4. v = [d EXCEPT !.unread = u] /\ sessions' = [sessions EXCEPT ![n][s] = v]
    BY <2>2
  <2>5. d \in Session /\ d.peer = "closed"
    BY <2>1 DEF Session
  <2> HIDE DEF u, v, d
  <2>6. v \in Session /\ v.peer = "closed"
    BY <2>3, <2>4, <2>5 DEF Session
  <2> QED
    BY <1>1, <2>4, <2>6, OneSlotKeeps
<1> QED
  BY <1>3, <1>4, <1>5, <1>6

\* The node goes; the clients connected to it have yet to learn of it.
LEMMA EndsKeep ==
  ASSUME MInv, NEW n \in Node, Ends(n)
  PROVE  MInv'
<1>1. HP!HInv /\ SessionsOK /\ H!Crash(n) /\ HP!Crash(n)
  BY SameWorld DEF MInv, Ends
<1>2. HP!HInv'
  BY <1>1, ListKeeps
<1>3. HP!ConnBecomes(n, "open", "gone") /\ proc' = proc
  BY <1>1 DEF HP!Crash
<1>4. sessions' = [sessions EXCEPT ![n] = [s \in Slot |-> NoSession]]
  BY DEF Ends
<1>5. SessionsOK'
  BY <1>1, <1>4 DEF SessionsOK
<1>6. /\ \A m \in Node : m # n => sessions'[m] = sessions[m]
      /\ \A s \in Slot : sessions'[n][s].peer # "client"
  BY <1>1, <1>4 DEF SessionsOK, NoSession
<1> QED
  BY <1>2, <1>3, <1>5, <1>6, BreakKeeps

\* A session ends of itself: if it served the client, the connection is broken.
LEMMA CloseKeeps ==
  ASSUME MInv, NEW n \in Node, NEW s \in Slot, CloseSession(n, s)
  PROVE  MInv'
<1>1. HP!HInv /\ SessionsOK /\ Paired(n)
  BY DEF MInv
<1>2. sessions' = [sessions EXCEPT ![n][s] = NoSession]
  BY DEF CloseSession
<1>3. NoSession.peer # "client"
  BY DEF NoSession
<1>4. CASE s \notin ServedSlots(n) /\ UNCHANGED serverVars
  BY <1>2, <1>3, <1>4, OneSlotKeeps
<1>5. CASE s \in ServedSlots(n) /\ H!SessionEnds(n)
  <2>1. HP!HInv' /\ HP!SessionEnds(n)
    BY <1>1, <1>5, ListKeeps, SameWorld
  <2>2. HP!ConnBecomes(n, "open", "gone") /\ proc' = proc
    BY <2>1 DEF HP!SessionEnds
  <2>3. SessionsOK'
    BY <1>1, <1>2 DEF SessionsOK
  <2>4. \A m \in Node : m # n => sessions'[m] = sessions[m]
    BY <1>1, <1>2 DEF SessionsOK
  <2>5. \A t \in Slot : sessions'[n][t] = IF t = s THEN NoSession ELSE sessions[n][t]
    BY <1>1, <1>2 DEF SessionsOK
  <2>6. \A t \in Slot : t # s => sessions[n][t].peer # "client"
    BY <1>1, <1>5 DEF Paired, ServedSlots
  <2>7. \A t \in Slot : sessions'[n][t].peer # "client"
    BY <1>3, <2>5, <2>6
  <2> QED
    BY <2>1, <2>2, <2>3, <2>4, <2>7, BreakKeeps
<1> QED
  BY <1>4, <1>5 DEF CloseSession

-----------------------------------------------------------------------------
(* The invariant *)

LEMMA InitHolds == Init => MInv
<1> SUFFICES ASSUME Init PROVE MInv
  OBVIOUS
<1>1. HP!HInv
  BY SameInit, NodeListAssumption, HP!InitHolds DEF Init
<1>2. SessionsOK /\ \A n \in Node : ServedSlots(n) = {}
  BY DEF Init, SessionsOK, ServedSlots, NoSession
<1> QED
  BY <1>1, <1>2 DEF MInv, Paired

LEMMA StepKeeps == MInv /\ [Next]_meshVars => MInv'
<1> SUFFICES ASSUME MInv, [Next]_meshVars PROVE MInv'
  OBVIOUS
<1>1. CASE helloProtocolInput
  BY <1>1, InputKeeps
<1>2. CASE helloProtocolTimer
  BY <1>2, TimerKeeps
<1>3. CASE OtherTurn \/ Tick
  BY <1>3, OtherTurnKeeps
<1>4. ASSUME NEW n \in Node,
             ClientTurn(n) \/ Hello(n) \/ EndArrives(n) \/ ResetArrives(n) \/ NodeRestart(n)
      PROVE  MInv'
  BY <1>4, OtherTurnKeeps
<1>5. ASSUME NEW n \in Node, NodeCrash(n) PROVE MInv'
  BY <1>5, EndsKeep DEF NodeCrash
<1>6. ASSUME NEW n \in Node, NEW s \in Slot,
             \/ Accept(n, s) \/ SessionTurn(n, s) \/ CloseSession(n, s) \/ EndReaches(n, s)
      PROVE  MInv'
  <2>1. CASE Accept(n, s) \/ Answer(n, s) \/ ShutdownSession(n, s) \/ EndReaches(n, s)
    BY <2>1, SessionKeeps
  <2>2. CASE DiesOfAnswer(n, s)
    BY <2>2, EndsKeep DEF DiesOfAnswer
  <2>3. CASE CloseSession(n, s)
    BY <2>3, CloseKeeps
  <2> QED
    BY <1>6, <2>1, <2>2, <2>3 DEF SessionTurn
<1>7. CASE ServerCrash \/ ServerRestart
  BY <1>7, ServerGoesKeeps
<1>8. CASE UNCHANGED meshVars
  <2>1. UNCHANGED serverVars /\ UNCHANGED <<sessions, proc, clients>>
    BY <1>8 DEF meshVars, serverVars
  <2>2. HP!HInv'
    BY <2>1, ListKeeps DEF MInv
  <2> QED
    BY <2>1, <2>2, ServerKeeps
<1> QED
  BY <1>1, <1>2, <1>3, <1>4, <1>5, <1>6, <1>7, <1>8 DEF Next

\* MInv is inductive.
THEOREM MInvHolds == Spec => []MInv
<1> QED
  BY InitHolds, StepKeeps, PTL DEF Spec

\* Clients, hellos, timers and connections have their types, whoever crashes and whatever
\* is lost (helloProtocol.c, tcpCmdClient.c, tcpConnSrv.c, tcpCmdSrv.c).
THEOREM MeshTypeCorrect == Spec => []TypeOK
<1>1. MInv => TypeOK
  BY SameTypeOK DEF MInv, SessionsOK, TypeOK, HP!HInv
<1> QED
  BY MInvHolds, <1>1, PTL

\* The server keeps one connection to a node: before connect() is called again the
\* client that had the old socket was unlinked and the socket closed, whichever of the
\* timer, the shutdown and the end of the process did it (helloProtocol.c:252-258,
\* tcpCmdClient.c:118, the lookup of helloProtocol.c:147-169).
THEOREM ServedOnce == Spec => []OneConnectionPerNode
<1>1. MInv => OneConnectionPerNode
  BY DEF MInv, Paired, OneConnectionPerNode
<1> QED
  BY MInvHolds, <1>1, PTL
=============================================================================
