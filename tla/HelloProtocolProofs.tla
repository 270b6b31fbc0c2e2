------------------------ MODULE HelloProtocolProofs ------------------------
(***************************************************************************)
(* What HelloProtocol promises about the node list, for every number of    *)
(* nodes, every limit and whatever hellos, crashes and resets come: the    *)
(* list is well-formed and has one client per node.  The one step that is  *)
(* not a change of a single client is helloProtocolInput, which reads all  *)
(* hellos that wait: HeardAllExtends is by induction over them.            *)
(* The last section says what each step does to the connections, which is  *)
(* all that their other ends (MeshProofs) have to know of this list.       *)
(***************************************************************************)
EXTENDS HelloProtocol, FifoTheorems

\* No client that is connected is about to be shut down.
NoneCut(list) == \A i \in 1..Len(list) : list[i].closing => list[i].conn # "open"

HInv == TypeOK /\ OneClientPerNode /\ NoneCut(clients)

\* No address is in the list twice.
OnePerNode(list) == \A i, j \in 1..Len(list) : list[i].addr = list[j].addr => i = j

\* Two clients of one node, both connected or neither, both shutting down or neither.
SameClient(c, d) ==
  c.addr = d.addr /\ (c.conn = "open" <=> d.conn = "open") /\ c.closing = d.closing

\* A list that was made from another by hearing hellos: its clients are there, in their
\* places, each connected or not as it was, and behind them new ones.
Extends(list, base) ==
  /\ Len(base) <= Len(list)
  /\ \A i \in 1..Len(base) : SameClient(list[i], base[i])
  /\ \A i \in (Len(base) + 1)..Len(list) : ~list[i].closing

-----------------------------------------------------------------------------
(* Hearing *)

LEMMA RebuiltList ==
  ASSUME TypeOK, NEW list \in Rebuilt
  PROVE  /\ list \in Seq(Client) /\ Len(list) = Len(clients) /\ Len(clients) \in Nat
         /\ \A i \in 1..Len(clients) : /\ list[i] \in Client
                                       /\ list[i].addr = clients[i].addr
                                       /\ list[i].conn = clients[i].conn
                                       /\ list[i].closing = clients[i].closing
<1>1. PICK fit : list = Polled(fit)
  BY Zenon DEF Rebuilt
<1>2. clients \in Seq(Client) /\ Len(clients) \in Nat /\ devChangeFlag \in BOOLEAN
  BY LenProperties DEF TypeOK
<1>3. \A i \in 1..Len(clients) : clients[i] \in Client
  BY <1>2, ElementOfSeq
<1> DEFINE p(i) == clients[i].polled \/ (devChangeFlag /\ i <= fit)
<1>4. ASSUME NEW i \in 1..Len(clients)
      PROVE  /\ list[i] \in Client /\ list[i].addr = clients[i].addr
             /\ list[i].conn = clients[i].conn /\ list[i].closing = clients[i].closing
  <2>1. clients[i] \in Client /\ p(i) \in BOOLEAN
    BY <1>2, <1>3 DEF Client
  <2>2. list[i] = [clients[i] EXCEPT !.polled = p(i)]
    BY <1>1 DEF Polled
  <2> HIDE DEF p
  <2> QED
    BY <2>1, <2>2 DEF Client
<1>5. list \in [1..Len(clients) -> Client]
  <2>1. list = [i \in 1..Len(clients) |-> list[i]]
    BY <1>1 DEF Polled
  <2> QED
    BY <1>4, <2>1
<1>6. list \in Seq(Client) /\ Len(list) = Len(clients)
  BY <1>2, <1>5
<1> QED
  BY <1>2, <1>4, <1>6

\* One hello keeps the list a list of clients, one per node.
LEMMA HeardExtends ==
  ASSUME NEW base \in Seq(Client), NEW list \in Seq(Client), OnePerNode(list),
         Extends(list, base), NEW n \in Address, NEW refused
  PROVE  /\ Heard(list, n, refused) \in Seq(Client) /\ OnePerNode(Heard(list, n, refused))
         /\ Extends(Heard(list, n, refused), base)
<1> DEFINE known == {i \in 1..Len(list) : list[i].addr = n}
           first == CHOOSE i \in known : \A j \in known : i <= j
           r == Heard(list, n, refused)
<1>1. Len(list) \in Nat /\ Len(base) \in Nat /\ \A i \in 1..Len(list) : list[i] \in Client
  BY LenProperties, ElementOfSeq
<1>2. CASE n = myIpAddr
  BY <1>2 DEF Heard
<1>3. CASE n # myIpAddr /\ known # {}
  <2>1. r = [list EXCEPT ![first].activeCount = 0]
    BY <1>3 DEF Heard
  <2>2. \A i \in 1..Len(list) :
          /\ [list[i] EXCEPT !.activeCount = 0] \in Client
          /\ SameClient([list[i] EXCEPT !.activeCount = 0], list[i])
    BY <1>1 DEF Client, SameClient
  <2>3. list \in [1..Len(list) -> Client] /\ DOMAIN list = 1..Len(list)
    BY <1>1
  <2> HIDE DEF first
  <2>4. r \in [1..Len(list) -> Client]
        /\ \A i \in 1..Len(list) : r[i] = list[i] \/ r[i] = [list[i] EXCEPT !.activeCount = 0]
    <3>1. DOMAIN r = 1..Len(list) /\ r = [i \in 1..Len(list) |-> r[i]]
      BY <2>1, <2>3
    <3>2. \A i \in 1..Len(list) : r[i] = list[i] \/ r[i] = [list[i] EXCEPT !.activeCount = 0]
      BY <2>1, <2>3
    <3> HIDE DEF r
    <3>3. \A i \in 1..Len(list) : r[i] \in Client
      BY <1>1, <2>2, <3>2
    <3> QED
      BY <3>1, <3>2, <3>3
  <2>5. r \in Seq(Client) /\ Len(r) = Len(list)
    BY <1>1, <2>4
  <2>6. \A i \in 1..Len(list) : SameClient(r[i], list[i])
    BY <2>2, <2>4 DEF SameClient
  <2> HIDE DEF r
  <2>7. OnePerNode(r)
    BY <2>5, <2>6 DEF OnePerNode, SameClient
  <2>8. Extends(r, base)
    BY <1>1, <2>5, <2>6 DEF Extends, SameClient
  <2> QED
    BY <2>5, <2>7, <2>8 DEF r
<1>4. CASE n # myIpAddr /\ known = {}
  <2> DEFINE c == NewClient(n, refused)
  <2>1. r = Append(list, c)
    BY <1>4 DEF Heard
  <2>2. c \in Client /\ c.addr = n /\ ~c.closing
    BY DEF NewClient, Client, Conn
  <2> HIDE DEF c
  <2>3. /\ r \in Seq(Client) /\ Len(r) = Len(list) + 1
        /\ \A i \in 1..(Len(list) + 1) : r[i] = IF i <= Len(list) THEN list[i] ELSE c
    BY <2>1, <2>2, AppendProperties
  <2>4. \A i \in 1..Len(list) : list[i].addr # n
    BY <1>4
  <2> HIDE DEF r, known
  <2>5. OnePerNode(r)
    <3>1. ASSUME NEW i \in 1..Len(r), NEW j \in 1..Len(r), r[i].addr = r[j].addr PROVE i = j
      <4>1. CASE i <= Len(list) /\ j <= Len(list)
        <5>1. i \in 1..Len(list) /\ j \in 1..Len(list) /\ r[i] = list[i] /\ r[j] = list[j]
          BY <1>1, <2>3, <4>1
        <5> QED
          BY <3>1, <5>1 DEF OnePerNode
      <4>2. CASE i <= Len(list) /\ ~(j <= Len(list))
        <5>1. i \in 1..Len(list) /\ r[i] = list[i] /\ r[j] = c
          BY <1>1, <2>3, <4>2
        <5> QED
          BY <2>2, <2>4, <3>1, <5>1
      <4>3. CASE ~(i <= Len(list)) /\ j <= Len(list)
        <5>1. j \in 1..Len(list) /\ r[j] = list[j] /\ r[i] = c
          BY <1>1, <2>3, <4>3
        <5> QED
          BY <2>2, <2>4, <3>1, <5>1
      <4>4. CASE ~(i <= Len(list)) /\ ~(j <= Len(list))
        BY <1>1, <2>3, <4>4
      <4> QED
        BY <4>1, <4>2, <4>3, <4>4
    <3> QED
      BY <3>1 DEF OnePerNode
  <2>6. Extends(r, base)
    <3>1. \A i \in 1..Len(list) : i \in 1..(Len(list) + 1) /\ r[i] = list[i]
      BY <1>1, <2>3
    <3>2. \A i \in 1..Len(base) : i \in 1..Len(list)
      BY <1>1 DEF Extends
    <3>3. ASSUME NEW i \in (Len(base) + 1)..Len(r) PROVE ~r[i].closing
      <4>1. CASE i <= Len(list)
        <5>1. i \in 1..Len(list) /\ i \in (Len(base) + 1)..Len(list)
          BY <1>1, <2>3, <4>1
        <5> QED
          BY <3>1, <5>1 DEF Extends
      <4>2. CASE ~(i <= Len(list))
        <5>1. i \in 1..(Len(list) + 1) /\ r[i] = c
          BY <1>1, <2>3, <4>2
        <5> QED
          BY <2>2, <5>1
      <4> QED
        BY <4>1, <4>2
    <3>4. Len(base) <= Len(r)
      BY <1>1, <2>3 DEF Extends
    <3> QED
      BY <3>1, <3>2, <3>3, <3>4 DEF Extends
  <2> QED
    BY <2>3, <2>5, <2>6 DEF r
<1> QED
  BY <1>2, <1>3, <1>4

\* All hellos that wait do.
LEMMA HeardAllExtends ==
  ASSUME TypeOK, NEW base \in Seq(Client), OnePerNode(base), NEW refused
  PROVE  /\ HeardAll(base, refused) \in Seq(Client) /\ OnePerNode(HeardAll(base, refused))
         /\ Extends(HeardAll(base, refused), base)
<1> DEFINE N == Len(helloQ)
           Good(list) == list \in Seq(Client) /\ OnePerNode(list) /\ Extends(list, base)
           V == {list \in Seq(Client) : OnePerNode(list) /\ Extends(list, base)}
           step == [k \in 1..N |-> [list \in V |-> Heard(list, helloQ[k], refused)]]
           heard == CHOOSE f : f = [k \in 0..N |->
                      IF k = 0 THEN base ELSE Heard(f[k - 1], helloQ[k], refused)]
<1>1. N \in Nat /\ \A k \in 1..N : helloQ[k] \in Address
  BY LenProperties, ElementOfSeq DEF TypeOK
<1>2. HeardAll(base, refused) = heard[N]
  BY DEF HeardAll
<1>3. base \in Seq(Client) /\ Len(base) \in Nat
  BY LenProperties
<1>4. base \in V
  BY <1>3 DEF Extends, SameClient
<1>5. \A k \in 1..N, list \in V : Heard(list, helloQ[k], refused) \in V
  BY <1>1, <1>3, HeardExtends
<1> HIDE DEF N, V
<1>6. step \in [1..N -> [V -> V]]
  BY <1>5
<1>7. PICK f \in [0..N -> V] : Recursive(f, N, base, step)
  <2> HIDE DEF step
  <2> QED
    BY <1>1, <1>4, <1>6, RecursionExists
<1>8. f = [k \in 0..N |-> IF k = 0 THEN base ELSE Heard(f[k - 1], helloQ[k], refused)]
  <2>1. ASSUME NEW k \in 0..N
        PROVE  f[k] = IF k = 0 THEN base ELSE Heard(f[k - 1], helloQ[k], refused)
    <3>1. CASE k = 0
      BY <1>7, <3>1 DEF Recursive
    <3>2. CASE k # 0
      <4>1. k \in 1..N /\ k - 1 \in 0..N
        BY <1>1, <3>2
      <4>2. step[k][f[k - 1]] = Heard(f[k - 1], helloQ[k], refused)
        BY <4>1
      <4> QED
        BY <1>7, <3>2, <4>1, <4>2 DEF Recursive
    <3> QED
      BY <3>1, <3>2
  <2>2. f = [k \in 0..N |-> f[k]]
    OBVIOUS
  <2> QED
    BY <2>1, <2>2, Zenon
<1>9. heard = [k \in 0..N |-> IF k = 0 THEN base ELSE Heard(heard[k - 1], helloQ[k], refused)]
  BY <1>8, Zenon
<1> HIDE DEF heard, step
<1> DEFINE T == {k \in 0..N : heard[k] \in V}
<1>10. 0 \in T
  <2>1. 0 \in 0..N
    BY <1>1
  <2>2. heard[0] = base
    BY <1>9, <2>1
  <2> QED
    BY <1>4, <2>1, <2>2
<1>11. ASSUME NEW n \in 0..(N - 1), n \in T PROVE n + 1 \in T
  <2>1. PICK k \in 0..N : k = n + 1 /\ k # 0 /\ k - 1 = n /\ k \in 1..N
    BY <1>1
  <2>2. heard[k] = IF k = 0 THEN base ELSE Heard(heard[k - 1], helloQ[k], refused)
    BY <1>9, Zenon
  <2>3. heard[k] = Heard(heard[n], helloQ[k], refused)
    BY <2>1, <2>2, Zenon
  <2>4. heard[n] \in V
    BY <1>11
  <2>5. heard[k] \in V
    BY <1>5, <2>1, <2>3, <2>4
  <2> QED
    BY <2>1, <2>5
<1>12. N \in T
  <2> HIDE DEF T
  <2>1. \A k \in 0..N : k \in T
    BY <1>1, <1>10, <1>11, UpToBound
  <2> QED
    BY <1>1, <2>1
<1> QED
  BY <1>2, <1>12 DEF V

-----------------------------------------------------------------------------
(* Lists of clients *)

LEMMA RebuiltGood ==
  ASSUME HInv, NEW list \in Rebuilt
  PROVE  OnePerNode(list) /\ NoneCut(list)
<1>1. TypeOK /\ OneClientPerNode /\ NoneCut(clients)
  BY DEF HInv
<1>2. /\ Len(list) = Len(clients)
      /\ \A i \in 1..Len(clients) : /\ list[i].addr = clients[i].addr
                                    /\ list[i].conn = clients[i].conn
                                    /\ list[i].closing = clients[i].closing
  BY <1>1, RebuiltList
<1>3. OnePerNode(list)
  BY <1>1, <1>2 DEF OneClientPerNode, OnePerNode
<1>4. NoneCut(list)
  BY <1>1, <1>2 DEF NoneCut
<1> QED
  BY <1>3, <1>4

\* A list whose clients keep their addresses has one client per node, if it had.
LEMMA SameAddresses ==
  ASSUME NEW list, NEW changed, OnePerNode(list), Len(changed) = Len(list),
         \A i \in 1..Len(list) : changed[i].addr = list[i].addr
  PROVE  OnePerNode(changed)
BY DEF OnePerNode

\* What is unlinked leaves the rest as it was.
LEMMA SublistOfClients ==
  ASSUME NEW list \in Seq(Client), OnePerNode(list), NEW keep
  PROVE  /\ Sublist(list, keep) \in Seq(Client) /\ OnePerNode(Sublist(list, keep))
         /\ NoneCut(list) => NoneCut(Sublist(list, keep))
<1> DEFINE r == Sublist(list, keep)
<1>1. r \in Seq(Client) /\ Len(r) \in Nat /\ Len(list) \in Nat
  BY SublistPositions, LenProperties
<1>2. PICK pos \in [1..Len(r) -> Nat] : Positions(r, list, keep, Len(list), pos)
  BY SublistPositions, Zenon
<1> HIDE DEF r
<1>3. /\ \A i \in 1..Len(r) : pos[i] \in 1..Len(list) /\ r[i] = list[pos[i]]
      /\ \A i, j \in 1..Len(r) : i < j => pos[i] < pos[j]
  BY <1>2 DEF Positions
<1>4. ASSUME NEW i \in 1..Len(r), NEW j \in 1..Len(r), r[i].addr = r[j].addr PROVE i = j
  <2>0. /\ pos[i] \in 1..Len(list) /\ r[i] = list[pos[i]]
        /\ pos[j] \in 1..Len(list) /\ r[j] = list[pos[j]]
    BY <1>3
  <2>1. pos[i] = pos[j]
    BY <1>4, <2>0, Zenon DEF OnePerNode
  <2>2. i \in Nat /\ j \in Nat /\ pos[i] \in Nat /\ pos[j] \in Nat
    BY <1>1
  <2> QED
    BY <1>3, <2>1, <2>2
<1>5. OnePerNode(r)
  BY <1>4 DEF OnePerNode
<1>6. NoneCut(list) => NoneCut(r)
  <2>1. \A i \in 1..Len(r) : pos[i] \in 1..Len(list) /\ r[i] = list[pos[i]]
    BY <1>3
  <2> QED
    BY <2>1, Zenon DEF NoneCut
<1> QED
  BY <1>1, <1>5, <1>6 DEF r

-----------------------------------------------------------------------------
(* Turns of the main loop *)

LEMMA InputKeeps ==
  ASSUME HInv, helloProtocolInput
  PROVE  HInv'
<1>1. PICK list \in Rebuilt, refused \in SUBSET Node : clients' = HeardAll(list, refused)
  BY Zenon DEF helloProtocolInput
<1>2. TypeOK /\ OnePerNode(list) /\ NoneCut(list) /\ list \in Seq(Client)
  BY RebuiltGood, RebuiltList DEF HInv
<1>3. clients' \in Seq(Client) /\ OnePerNode(clients') /\ Extends(clients', list)
  BY <1>1, <1>2, HeardAllExtends
<1>4. Len(list) \in Nat /\ Len(clients') \in Nat
  BY <1>2, <1>3, LenProperties
<1>5. NoneCut(clients')
  <2>1. SUFFICES ASSUME NEW i \in 1..Len(clients'), clients'[i].closing
                 PROVE  clients'[i].conn # "open"
    BY DEF NoneCut
  <2>2. i \in 1..Len(list)
    BY <1>3, <1>4, <2>1 DEF Extends
  <2> QED
    BY <1>2, <1>3, <2>1, <2>2 DEF Extends, SameClient, NoneCut
<1>6. /\ proc' \in {"running", "killed"} /\ helloQ' \in Seq(Address)
      /\ tick' \in {"armed", "fired"} /\ timer' \in {"off", "armed", "fired"}
      /\ devChangeFlag' \in BOOLEAN /\ up' \in [Node -> BOOLEAN]
  BY <1>2 DEF TypeOK, helloProtocolInput, ChangedBy
<1> QED
  BY <1>3, <1>5, <1>6 DEF HInv, TypeOK, OneClientPerNode, OnePerNode

\* A ping counts, and takes the error of a reset.
LEMMA PingedClient ==
  ASSUME NEW c \in Client
  PROVE  Pinged(c) \in Client /\ SameClient(Pinged(c), c)
<1> DEFINE p == c.pinged \/ c.conn \in {"fin", "gone"}
           e == ErrorTaken(c.conn)
           counted == [c EXCEPT !.activeCount = c.activeCount + 1]
           taken == [counted EXCEPT !.conn = e]
<1>1. p \in BOOLEAN /\ e \in Conn /\ (e = "open" <=> c.conn = "open")
  BY DEF Client, Conn, ErrorTaken
<1>2. Pinged(c) = [taken EXCEPT !.pinged = p]
  BY DEF Pinged
<1> HIDE DEF e, p
<1>3. counted \in Client /\ SameClient(counted, c)
  BY DEF Client, SameClient
<1> HIDE DEF counted
<1>4. taken \in Client /\ taken.addr = counted.addr /\ taken.closing = counted.closing /\ taken.conn = e
  BY <1>1, <1>3 DEF Client
<1> HIDE DEF taken
<1>5. /\ Pinged(c) \in Client /\ Pinged(c).addr = taken.addr /\ Pinged(c).closing = taken.closing
      /\ Pinged(c).conn = taken.conn
  BY <1>1, <1>2, <1>4 DEF Client
<1> QED
  BY <1>1, <1>3, <1>4, <1>5 DEF SameClient

\* What the timer makes of the list: the clients it pinged, without the silent ones.
LEMMA TimerList ==
  ASSUME HInv, helloProtocolTimer
  PROVE  \E pinged \in Seq(Client), keep \in SUBSET (1..Len(clients)) :
           /\ clients' = Sublist(pinged, keep) /\ Len(pinged) = Len(clients)
           /\ \A i \in 1..Len(clients) : SameClient(pinged[i], clients[i])
<1>1. PICK list \in Rebuilt :
        LET pinged == [i \in 1..Len(clients) |-> Pinged(list[i])]
        IN  clients' = Sublist(pinged, {i \in 1..Len(clients) : ~Silent(pinged[i])})
  BY Zenon DEF helloProtocolTimer
<1> DEFINE n == Len(clients)
           pinged == [i \in 1..n |-> Pinged(list[i])]
           keep == {i \in 1..n : ~Silent(pinged[i])}
<1>2. clients' = Sublist(pinged, keep) /\ keep \in SUBSET (1..n)
  <2>1. clients' = Sublist(pinged, keep)
    BY <1>1, Zenon
  <2>2. keep \in SUBSET (1..n)
    OBVIOUS
  <2> QED
    BY <2>1, <2>2
<1>3. /\ list \in Seq(Client) /\ Len(list) = n /\ n \in Nat
      /\ \A i \in 1..n : /\ list[i] \in Client /\ list[i].addr = clients[i].addr
                         /\ list[i].conn = clients[i].conn /\ list[i].closing = clients[i].closing
  BY RebuiltList DEF HInv
<1>4. ASSUME NEW i \in 1..n
      PROVE  pinged[i] \in Client /\ SameClient(pinged[i], clients[i])
  <2>1. Pinged(list[i]) \in Client /\ SameClient(Pinged(list[i]), list[i])
    BY <1>3, PingedClient
  <2> QED
    BY <1>3, <2>1 DEF SameClient
<1>5. pinged \in Seq(Client) /\ Len(pinged) = n
  <2>1. pinged = [i \in 1..n |-> pinged[i]]
    OBVIOUS
  <2> HIDE DEF pinged
  <2>2. pinged \in [1..n -> Client]
    BY <1>4, <2>1
  <2> QED
    BY <1>3, <2>2
<1> HIDE DEF pinged, keep
<1> QED
  BY <1>2, <1>4, <1>5, Zenon

LEMMA TimerKeeps ==
  ASSUME HInv, helloProtocolTimer
  PROVE  HInv'
<1>1. TypeOK /\ OneClientPerNode /\ NoneCut(clients)
  BY DEF HInv
<1>2. PICK pinged \in Seq(Client), keep \in SUBSET (1..Len(clients)) :
        /\ clients' = Sublist(pinged, keep) /\ Len(pinged) = Len(clients)
        /\ \A i \in 1..Len(clients) : SameClient(pinged[i], clients[i])
  BY TimerList
<1>3. OnePerNode(pinged)
  BY <1>1, <1>2 DEF SameClient, OnePerNode, OneClientPerNode
<1>4. NoneCut(pinged)
  BY <1>1, <1>2 DEF NoneCut, SameClient
<1>5. clients' \in Seq(Client) /\ OnePerNode(clients') /\ NoneCut(clients')
  BY <1>2, <1>3, <1>4, SublistOfClients
<1>6. /\ proc' \in {"running", "killed"} /\ helloQ' \in Seq(Address)
      /\ tick' \in {"armed", "fired"} /\ timer' \in {"off", "armed", "fired"}
      /\ devChangeFlag' \in BOOLEAN /\ up' \in [Node -> BOOLEAN]
  <2>1. bcastAddr \in Address
    BY DEF Address
  <2>2. helloQ' \in Seq(Address)
    <3>1. helloQ' \in {helloQ} \cup (IF Waiting(bcastAddr) < MaxWaiting
                                   THEN {Append(helloQ, bcastAddr)} ELSE {})
      BY Zenon DEF helloProtocolTimer
    <3>2. helloQ' = helloQ \/ helloQ' = Append(helloQ, bcastAddr)
      BY <3>1
    <3>3. helloQ \in Seq(Address)
      BY <1>1 DEF TypeOK
    <3>4. Append(helloQ, bcastAddr) \in Seq(Address)
      BY <2>1, <3>3, AppendProperties
    <3> QED
      BY <3>2, <3>3, <3>4, Zenon
  <2>3. proc' \in {"running", "killed"}
    BY DEF helloProtocolTimer, SendPings
  <2>4. /\ tick' = tick \/ tick' = "armed"
        /\ timer' = "armed" /\ up' = up /\ devChangeFlag' = (Len(clients') < Len(clients))
    BY Zenon DEF helloProtocolTimer
  <2> QED
    BY <1>1, <2>2, <2>3, <2>4 DEF TypeOK
<1> QED
  BY <1>5, <1>6 DEF HInv, TypeOK, OneClientPerNode, OnePerNode

\* A turn that changes one client's marks, or none, or unlinks clients.
LEMMA TurnKeeps ==
  ASSUME HInv, UNCHANGED <<proc, helloQ, tick, timer, up>>, devChangeFlag' \in BOOLEAN,
         clients' \in Seq(Client), OnePerNode(clients'), NoneCut(clients')
  PROVE  HInv'
BY DEF HInv, TypeOK, OneClientPerNode, OnePerNode

\* The client that read the end of its connection is the only one that changes.
LEMMA InputList ==
  ASSUME HInv, NEW n, tcpCmdClientInput(n)
  PROVE  /\ clients' \in Seq(Client) /\ Len(clients') = Len(clients)
         /\ \E i \in 1..Len(clients) :
              /\ clients'[i].addr = clients[i].addr
              /\ clients'[i].conn # "open" /\ clients[i].conn # "open"
              /\ \A j \in 1..Len(clients) : j # i => SameClient(clients'[j], clients[j])
<1>1. PICK i \in ClientsOf(n), list \in Rebuilt :
        /\ list[i].conn \in Broken
        /\ clients' = [list EXCEPT ![i].closing = TRUE, ![i].conn = ErrorTaken(@)]
  BY Zenon DEF tcpCmdClientInput
<1>2. /\ list \in Seq(Client) /\ Len(list) = Len(clients) /\ Len(clients) \in Nat
      /\ \A j \in 1..Len(clients) : /\ list[j] \in Client /\ list[j].addr = clients[j].addr
                                    /\ list[j].conn = clients[j].conn
                                    /\ list[j].closing = clients[j].closing
  BY RebuiltList DEF HInv
<1>3. i \in 1..Len(clients)
  BY DEF ClientsOf
<1> DEFINE e == ErrorTaken(list[i].conn)
           closing == [list[i] EXCEPT !.closing = TRUE]
           taken == [closing EXCEPT !.conn = e]
<1>4. e \in Conn /\ e # "open"
  BY <1>1 DEF ErrorTaken, Broken, Conn
<1>5. clients' = [list EXCEPT ![i] = taken]
  <2>1. list \in [1..Len(clients) -> Client] /\ DOMAIN list = 1..Len(clients)
    BY <1>2
  <2>2. clients' = [list EXCEPT ![i] = [list[i] EXCEPT !.closing = TRUE, !.conn = ErrorTaken(@)]]
    BY <1>1, <1>3, <2>1
  <2>3. [list[i] EXCEPT !.closing = TRUE, !.conn = ErrorTaken(@)] = taken
    BY <1>2, <1>3 DEF Client
  <2> QED
    BY <2>2, <2>3
<1> HIDE DEF e
<1>6. closing \in Client /\ closing.addr = list[i].addr
  BY <1>2, <1>3 DEF Client
<1> HIDE DEF closing
<1>7. taken \in Client /\ taken.addr = list[i].addr /\ taken.conn = e
  BY <1>4, <1>6 DEF Client
<1> HIDE DEF taken
<1>8. /\ clients' \in [1..Len(clients) -> Client] /\ clients'[i] = taken
      /\ \A j \in 1..Len(clients) : j # i => clients'[j] = list[j]
  <2>1. list \in [1..Len(clients) -> Client]
    BY <1>2
  <2> QED
    BY <1>3, <1>5, <1>7, <2>1
<1>9. clients' \in Seq(Client) /\ Len(clients') = Len(clients)
  BY <1>2, <1>8
<1>10. clients[i].conn # "open"
  BY <1>1, <1>2, <1>3 DEF Broken
<1>11. \A j \in 1..Len(clients) : j # i => SameClient(clients'[j], clients[j])
  BY <1>2, <1>8 DEF SameClient
<1>12. clients'[i].addr = clients[i].addr /\ clients'[i].conn # "open"
  BY <1>2, <1>3, <1>4, <1>7, <1>8
<1> QED
  BY <1>3, <1>9, <1>10, <1>11, <1>12

LEMMA ClientInputKeeps ==
  ASSUME HInv, NEW n \in Address, tcpCmdClientInput(n)
  PROVE  HInv'
<1>1. OneClientPerNode /\ NoneCut(clients)
  BY DEF HInv
<1>2. clients' \in Seq(Client) /\ Len(clients') = Len(clients)
  BY InputList
<1>3. PICK i \in 1..Len(clients) :
        /\ clients'[i].addr = clients[i].addr /\ clients'[i].conn # "open"
        /\ \A j \in 1..Len(clients) : j # i => SameClient(clients'[j], clients[j])
  BY InputList
<1>4. \A j \in 1..Len(clients) : clients'[j].addr = clients[j].addr
  BY <1>3 DEF SameClient
<1>5. OnePerNode(clients')
  BY <1>1, <1>2, <1>4 DEF OneClientPerNode, OnePerNode
<1>6. NoneCut(clients')
  BY <1>1, <1>2, <1>3 DEF NoneCut, SameClient
<1>7. UNCHANGED <<proc, helloQ, tick, timer, up>> /\ devChangeFlag' \in BOOLEAN
  BY DEF tcpCmdClientInput
<1> QED
  BY <1>2, <1>5, <1>6, <1>7, TurnKeeps

LEMMA ClientShutdownKeeps ==
  ASSUME HInv, NEW n \in Address, tcpCmdClientShutdown(n)
  PROVE  HInv'
<1>1. PICK i \in ClientsOf(n), list \in Rebuilt :
        clients' = Sublist(list, (1..Len(clients)) \ {i})
  BY Zenon DEF tcpCmdClientShutdown
<1>2. OnePerNode(list) /\ NoneCut(list) /\ list \in Seq(Client)
  BY RebuiltGood, RebuiltList DEF HInv
<1>3. UNCHANGED <<proc, helloQ, tick, timer, up>> /\ devChangeFlag' \in BOOLEAN
  BY DEF tcpCmdClientShutdown
<1>4. clients' \in Seq(Client) /\ OnePerNode(clients') /\ NoneCut(clients')
  BY <1>1, <1>2, SublistOfClients
<1> QED
  BY <1>3, <1>4, TurnKeeps

LEMMA OtherDeviceKeeps ==
  ASSUME HInv, OtherDevice
  PROVE  HInv'
<1>1. clients' \in Rebuilt /\ UNCHANGED <<proc, helloQ, tick, timer, up>> /\ devChangeFlag' \in BOOLEAN
  BY DEF OtherDevice
<1>2. OnePerNode(clients') /\ NoneCut(clients') /\ clients' \in Seq(Client)
  BY <1>1, RebuiltGood, RebuiltList DEF HInv
<1> QED
  BY <1>1, <1>2, TurnKeeps

-----------------------------------------------------------------------------
(* The world: it breaks connections, which no list of clients minds *)

\* What becomes of connections, some of them, outside the program: never "open".
Breaks(which, to) ==
  clients' = [i \in 1..Len(clients) |->
                IF i \in which THEN [clients[i] EXCEPT !.conn = to] ELSE clients[i]]

LEMMA BrokenList ==
  ASSUME clients \in Seq(Client), NEW which, NEW to \in Conn, Breaks(which, to)
  PROVE  /\ clients' \in Seq(Client) /\ Len(clients') = Len(clients)
         /\ \A i \in 1..Len(clients) :
              /\ clients'[i].addr = clients[i].addr /\ clients'[i].closing = clients[i].closing
              /\ clients'[i].conn = IF i \in which THEN to ELSE clients[i].conn
<1>1. Len(clients) \in Nat /\ \A i \in 1..Len(clients) : clients[i] \in Client
  BY LenProperties, ElementOfSeq
<1>2. ASSUME NEW i \in 1..Len(clients)
      PROVE  /\ [clients[i] EXCEPT !.conn = to] \in Client
             /\ [clients[i] EXCEPT !.conn = to].addr = clients[i].addr
             /\ [clients[i] EXCEPT !.conn = to].closing = clients[i].closing
             /\ [clients[i] EXCEPT !.conn = to].conn = to
  BY <1>1 DEF Client
<1>3. /\ clients' \in [1..Len(clients) -> Client]
      /\ \A i \in 1..Len(clients) :
           clients'[i] = IF i \in which THEN [clients[i] EXCEPT !.conn = to] ELSE clients[i]
  BY <1>1, <1>2 DEF Breaks
<1>4. clients' \in Seq(Client) /\ Len(clients') = Len(clients)
  BY <1>1, <1>3
<1> QED
  BY <1>2, <1>3, <1>4

LEMMA BreaksKeep ==
  ASSUME HInv, UNCHANGED <<proc, helloQ, tick, timer, devChangeFlag>>, up' \in [Node -> BOOLEAN],
         NEW which, NEW to \in Conn \ {"open"}, Breaks(which, to)
  PROVE  HInv'
<1>1. TypeOK /\ OneClientPerNode /\ NoneCut(clients) /\ clients \in Seq(Client)
  BY DEF HInv, TypeOK
<1>2. /\ clients' \in Seq(Client) /\ Len(clients') = Len(clients)
      /\ \A i \in 1..Len(clients) :
           /\ clients'[i].addr = clients[i].addr /\ clients'[i].closing = clients[i].closing
           /\ clients'[i].conn = IF i \in which THEN to ELSE clients[i].conn
  BY <1>1, BrokenList
<1>3. OneClientPerNode'
  BY <1>1, <1>2 DEF OneClientPerNode
<1>4. NoneCut(clients)'
  BY <1>1, <1>2 DEF NoneCut
<1> QED
  BY <1>1, <1>2, <1>3, <1>4 DEF HInv, TypeOK

LEMMA BecomesBreaks ==
  ASSUME NEW n, NEW from, NEW to, ConnBecomes(n, from, to)
  PROVE  Breaks({i \in ClientsOf(n) : clients[i].conn = from}, to)
<1> DEFINE which == {i \in ClientsOf(n) : clients[i].conn = from}
<1>1. \A i \in 1..Len(clients) : i \in which <=> i \in ClientsOf(n) /\ clients[i].conn = from
  OBVIOUS
<1> HIDE DEF which
<1>2. Breaks(which, to)
  BY <1>1 DEF ConnBecomes, Breaks
<1> QED
  BY <1>2 DEF which

LEMMA ResetBreaks ==
  ASSUME HInv, NEW n, ResetArrives(n)
  PROVE  \E which : /\ Breaks(which, "rst")
                    /\ \A i \in which : i \in 1..Len(clients) /\ clients[i].conn # "open"
<1>1. PICK i \in ClientsOf(n) : /\ clients[i].conn = "fin" \/ (clients[i].conn = "gone" /\ up[n])
                                /\ clients' = [clients EXCEPT ![i].conn = "rst"]
  BY Zenon DEF ResetArrives
<1>2. clients \in Seq(Client) /\ i \in 1..Len(clients)
  BY DEF HInv, TypeOK, ClientsOf
<1>3. clients = [k \in 1..Len(clients) |-> clients[k]]
  BY <1>2
<1>4. [clients EXCEPT ![i].conn = "rst"]
        = [k \in 1..Len(clients) |-> IF k = i THEN [clients[i] EXCEPT !.conn = "rst"] ELSE clients[k]]
  BY <1>2, <1>3
<1>5. Breaks({i}, "rst")
  BY <1>1, <1>2, <1>4 DEF Breaks
<1> QED
  BY <1>1, <1>2, <1>5

\* What leaves the list alone.
LEMMA ListAloneKeeps ==
  ASSUME HInv, UNCHANGED <<proc, clients, devChangeFlag>>, helloQ' \in Seq(Address),
         tick' \in {"armed", "fired"}, timer' \in {"off", "armed", "fired"}, up' \in [Node -> BOOLEAN]
  PROVE  HInv'
BY DEF HInv, TypeOK, OneClientPerNode, NoneCut

-----------------------------------------------------------------------------
(* The invariant *)

LEMMA InitHolds == Init => HInv
<1> SUFFICES ASSUME Init PROVE HInv
  OBVIOUS
<1>1. clients = <<>> /\ helloQ = <<>> /\ devChangeFlag = TRUE
  BY DEF Init
<1>2. clients \in Seq(Client) /\ helloQ \in Seq(Address) /\ Len(clients) = 0
  BY <1>1
<1>3. TypeOK
  BY <1>2 DEF Init, TypeOK
<1>4. OneClientPerNode /\ NoneCut(clients)
  BY <1>1, <1>2 DEF OneClientPerNode, NoneCut
<1> QED
  BY <1>3, <1>4 DEF HInv

\* A server that knows nothing, before it starts (not a step of this module).
LEMMA EmptyHolds ==
  ASSUME clients' = <<>>, helloQ' = <<>>, tick' = "armed", timer' = "off", devChangeFlag' = TRUE,
         proc' \in {"running", "killed"}, up' \in [Node -> BOOLEAN]
  PROVE  HInv'
<1>1. clients' \in Seq(Client) /\ helloQ' \in Seq(Address) /\ Len(clients') = 0
  OBVIOUS
<1>2. TypeOK'
  BY <1>1 DEF TypeOK
<1>3. OneClientPerNode' /\ NoneCut(clients')
  BY <1>1 DEF OneClientPerNode, NoneCut
<1> QED
  BY <1>2, <1>3 DEF HInv

LEMMA StepKeeps == HInv /\ [Next]_helloVars => HInv'
<1> SUFFICES ASSUME HInv, [Next]_helloVars PROVE HInv'
  OBVIOUS
<1>1. TypeOK
  BY DEF HInv
<1>2. CASE helloProtocolInput
  BY <1>2, InputKeeps
<1>3. CASE helloProtocolTimer
  BY <1>3, TimerKeeps
<1>4. CASE OtherDevice
  BY <1>4, OtherDeviceKeeps
<1>5. ASSUME NEW n \in Address, tcpCmdClientInput(n) \/ tcpCmdClientShutdown(n) PROVE HInv'
  BY <1>5, ClientInputKeeps, ClientShutdownKeeps
<1>6. CASE Tick
  BY <1>1, <1>6, ListAloneKeeps DEF Tick, TypeOK
<1>7. ASSUME NEW n \in Node, Hello(n) PROVE HInv'
  <2>1. n \in Address
    BY DEF Address
  <2>2. helloQ' \in Seq(Address)
    BY <1>1, <1>7, <2>1, AppendProperties DEF Hello, TypeOK
  <2> QED
    BY <1>1, <1>7, <2>2, ListAloneKeeps DEF Hello, TypeOK
<1>8. ASSUME NEW n \in Node, Crash(n) PROVE HInv'
  <2>1. up' \in [Node -> BOOLEAN] /\ UNCHANGED <<proc, helloQ, tick, timer, devChangeFlag>>
    BY <1>1, <1>8 DEF Crash, TypeOK
  <2>2. Breaks({i \in ClientsOf(n) : clients[i].conn = "open"}, "gone")
    BY <1>8, BecomesBreaks DEF Crash
  <2> QED
    BY <2>1, <2>2, BreaksKeep DEF Conn
<1>9. ASSUME NEW n \in Node, Restart(n) PROVE HInv'
  BY <1>1, <1>9, ListAloneKeeps DEF Restart, TypeOK
<1>10. ASSUME NEW n \in Node, SessionEnds(n) PROVE HInv'
  <2>1. up' \in [Node -> BOOLEAN] /\ UNCHANGED <<proc, helloQ, tick, timer, devChangeFlag>>
    BY <1>1, <1>10 DEF SessionEnds, TypeOK
  <2>2. Breaks({i \in ClientsOf(n) : clients[i].conn = "open"}, "gone")
    BY <1>10, BecomesBreaks DEF SessionEnds
  <2> QED
    BY <2>1, <2>2, BreaksKeep DEF Conn
<1>11. ASSUME NEW n \in Node, EndArrives(n) PROVE HInv'
  <2>1. up' \in [Node -> BOOLEAN] /\ UNCHANGED <<proc, helloQ, tick, timer, devChangeFlag>>
    BY <1>1, <1>11 DEF EndArrives, TypeOK
  <2>2. PICK to \in {"fin", "rst"} : ConnBecomes(n, "gone", to)
    BY <1>11, Zenon DEF EndArrives
  <2>3. Breaks({i \in ClientsOf(n) : clients[i].conn = "gone"}, to)
    BY <2>2, BecomesBreaks
  <2> QED
    BY <2>1, <2>3, BreaksKeep DEF Conn
<1>12. ASSUME NEW n \in Node, ResetArrives(n) PROVE HInv'
  <2>1. up' \in [Node -> BOOLEAN] /\ UNCHANGED <<proc, helloQ, tick, timer, devChangeFlag>>
    BY <1>1, <1>12 DEF ResetArrives, TypeOK
  <2>2. PICK which : Breaks(which, "rst")
    BY <1>12, ResetBreaks
  <2> QED
    BY <2>1, <2>2, BreaksKeep DEF Conn
<1>13. CASE UNCHANGED helloVars
  BY <1>13 DEF helloVars, HInv, TypeOK, OneClientPerNode, NoneCut
<1> QED
  BY <1>2, <1>3, <1>4, <1>5, <1>6, <1>7, <1>8, <1>9, <1>10, <1>11, <1>12, <1>13
     DEF Next, Turn, World

\* HInv is inductive.
THEOREM HInvHolds == Spec => []HInv
<1> QED
  BY InitHolds, StepKeeps, PTL DEF Spec

-----------------------------------------------------------------------------
(* What follows of the node list *)

\* The list is a list of well-formed clients, however many hellos one read finds
\* (helloProtocol.c:107-187) and whatever the timer and the shutdowns unlink.
THEOREM HelloTypeCorrect == Spec => []TypeOK
<1>1. HInv => TypeOK
  BY DEF HInv
<1> QED
  BY HInvHolds, <1>1, PTL

\* One client per node, however its hellos, its crashes and the ends of its connections
\* fall: the list is searched for every hello that is read (helloProtocol.c:147-169).
THEOREM NodeHasOneClient == Spec => []OneClientPerNode
<1>1. HInv => OneClientPerNode
  BY DEF HInv
<1> QED
  BY HInvHolds, <1>1, PTL

-----------------------------------------------------------------------------
(* What a step does to the connections *)

\* A client of node n is connected.
HasOpen(list, n) == \E i \in 1..Len(list) : list[i].addr = n /\ list[i].conn = "open"
HasClient(list, n) == \E i \in 1..Len(list) : list[i].addr = n

LEMMA SameOpen ==
  ASSUME NEW list, NEW changed, Len(changed) = Len(list),
         \A i \in 1..Len(list) : /\ changed[i].addr = list[i].addr
                                 /\ changed[i].conn = "open" <=> list[i].conn = "open"
  PROVE  \A n : HasOpen(changed, n) <=> HasOpen(list, n)
BY DEF HasOpen

\* Hellos make a connection only for a node that had no client; no other node's changes.
LEMMA InputOpens ==
  ASSUME HInv, helloProtocolInput, NEW n
  PROVE  LET added == {clients'[i].addr : i \in (Len(clients) + 1)..Len(clients')}
         IN  /\ n \in added => ~HasOpen(clients, n)
             /\ n \notin added => (HasOpen(clients', n) <=> HasOpen(clients, n))
<1> DEFINE k == Len(clients)
           added == {clients'[i].addr : i \in (k + 1)..Len(clients')}
<1>1. PICK list \in Rebuilt, refused \in SUBSET Node : clients' = HeardAll(list, refused)
  BY Zenon DEF helloProtocolInput
<1>2. /\ TypeOK /\ OnePerNode(list) /\ list \in Seq(Client) /\ Len(list) = k /\ k \in Nat
      /\ \A i \in 1..k : list[i].addr = clients[i].addr /\ list[i].conn = clients[i].conn
  BY RebuiltGood, RebuiltList DEF HInv
<1>3. clients' \in Seq(Client) /\ OnePerNode(clients') /\ Extends(clients', list)
  BY <1>1, <1>2, HeardAllExtends
<1>4. Len(clients') \in Nat
  BY <1>3, LenProperties
<1>5. /\ k <= Len(clients')
      /\ \A i \in 1..k : /\ clients'[i].addr = clients[i].addr
                         /\ clients'[i].conn = "open" <=> clients[i].conn = "open"
  BY <1>2, <1>3 DEF Extends, SameClient
<1>6. \A i \in 1..k : i \in 1..Len(clients')
  BY <1>2, <1>4, <1>5
<1>7. n \in added => ~HasOpen(clients, n)
  <2>1. SUFFICES ASSUME NEW i \in (k + 1)..Len(clients'), clients'[i].addr = n, NEW j \in 1..k, clients[j].addr = n
                 PROVE  FALSE
    BY DEF HasOpen
  <2>2. i \in 1..Len(clients') /\ j \in 1..Len(clients') /\ i # j
    BY <1>2, <1>4, <1>6
  <2> QED
    BY <1>3, <1>5, <2>1, <2>2 DEF OnePerNode
<1>8. ASSUME n \notin added PROVE HasOpen(clients', n) <=> HasOpen(clients, n)
  <2>1. ASSUME NEW i \in 1..Len(clients'), clients'[i].addr = n PROVE i \in 1..k
    <3>1. i \notin (k + 1)..Len(clients')
      BY <1>8, <2>1
    <3> QED
      BY <1>2, <1>4, <3>1
  <2> QED
    BY <1>5, <1>6, <2>1 DEF HasOpen
<1> QED
  BY <1>7, <1>8

\* The timer drops clients and leaves the connections of the others.
LEMMA TimerOpens ==
  ASSUME HInv, helloProtocolTimer, NEW n
  PROVE  HasOpen(clients', n) <=> HasOpen(clients, n) /\ HasClient(clients', n)
<1> DEFINE k == Len(clients)
<1>1. OneClientPerNode
  BY DEF HInv
<1>2. PICK pinged \in Seq(Client), keep \in SUBSET (1..Len(clients)) :
        /\ clients' = Sublist(pinged, keep) /\ Len(pinged) = k
        /\ \A i \in 1..k : SameClient(pinged[i], clients[i])
  BY TimerList
<1>3. PICK pos \in [1..Len(clients') -> Nat] : Positions(clients', pinged, keep, k, pos)
  BY <1>2, SublistPositions, Zenon
<1>4. \A i \in 1..Len(clients') : pos[i] \in 1..k /\ clients'[i] = pinged[pos[i]]
  BY <1>3 DEF Positions
<1>5. \A i \in 1..Len(clients') : /\ pos[i] \in 1..k /\ clients'[i].addr = clients[pos[i]].addr
                                  /\ clients'[i].conn = "open" <=> clients[pos[i]].conn = "open"
  BY <1>2, <1>4 DEF SameClient
<1>6. HasOpen(clients', n) => HasOpen(clients, n) /\ HasClient(clients', n)
  BY <1>5 DEF HasOpen, HasClient
<1>7. ASSUME HasOpen(clients, n), HasClient(clients', n) PROVE HasOpen(clients', n)
  <2>1. PICK i \in 1..Len(clients') : clients'[i].addr = n
    BY <1>7 DEF HasClient
  <2>2. PICK j \in 1..k : clients[j].addr = n /\ clients[j].conn = "open"
    BY <1>7 DEF HasOpen
  <2>3. pos[i] = j
    BY <1>1, <1>5, <2>1, <2>2 DEF OneClientPerNode
  <2> QED
    BY <1>5, <2>1, <2>2, <2>3 DEF HasOpen
<1> QED
  BY <1>6, <1>7

\* The other turns change no connection that is still made; a client that shuts down
\* has none.
LEMMA TurnOpens ==
  ASSUME HInv, NEW n,
         \/ OtherDevice
         \/ \E m \in Address : tcpCmdClientInput(m) \/ tcpCmdClientShutdown(m)
  PROVE  HasOpen(clients', n) <=> HasOpen(clients, n)
<1>1. TypeOK /\ NoneCut(clients)
  BY DEF HInv
<1>2. CASE OtherDevice
  <2>1. clients' \in Rebuilt
    BY <1>2 DEF OtherDevice
  <2>2. /\ Len(clients') = Len(clients)
        /\ \A i \in 1..Len(clients) : clients'[i].addr = clients[i].addr /\ clients'[i].conn = clients[i].conn
    BY <1>1, <2>1, RebuiltList
  <2> QED
    BY <2>2, SameOpen
<1>3. ASSUME NEW m \in Address, tcpCmdClientInput(m) PROVE HasOpen(clients', n) <=> HasOpen(clients, n)
  <2>1. Len(clients') = Len(clients)
    BY <1>3, InputList
  <2>2. \A j \in 1..Len(clients) : /\ clients'[j].addr = clients[j].addr
                                   /\ clients'[j].conn = "open" <=> clients[j].conn = "open"
    BY <1>3, InputList DEF SameClient
  <2> QED
    BY <2>1, <2>2, SameOpen
<1>4. ASSUME NEW m \in Address, tcpCmdClientShutdown(m) PROVE HasOpen(clients', n) <=> HasOpen(clients, n)
  <2> DEFINE k == Len(clients)
  <2>1. PICK i \in ClientsOf(m), list \in Rebuilt :
          list[i].closing /\ clients' = Sublist(list, (1..k) \ {i})
    BY <1>4, Zenon DEF tcpCmdClientShutdown
  <2>2. /\ list \in Seq(Client) /\ Len(list) = k /\ i \in 1..k
        /\ \A j \in 1..k : /\ list[j].addr = clients[j].addr /\ list[j].conn = clients[j].conn
                           /\ list[j].closing = clients[j].closing
    BY <1>1, RebuiltList DEF ClientsOf
  <2>3. clients[i].conn # "open"
    BY <1>1, <2>1, <2>2 DEF NoneCut
  <2> DEFINE keep == (1..k) \ {i}
  <2>4. PICK pos \in [1..Len(clients') -> Nat] : Positions(clients', list, keep, k, pos)
    BY <2>1, <2>2, SublistPositions, Zenon
  <2>5. /\ \A j \in 1..Len(clients') : pos[j] \in 1..k /\ clients'[j] = list[pos[j]]
        /\ \A j \in 1..k : j # i => \E l \in 1..Len(clients') : pos[l] = j
    BY <2>4 DEF Positions
  <2>6. \A j \in 1..k : clients[j].conn = "open" => \E l \in 1..Len(clients') : pos[l] = j
    BY <2>3, <2>5
  <2> HIDE DEF k, keep
  <2>7. \A l \in 1..Len(clients') : /\ clients'[l].addr = clients[pos[l]].addr
                                    /\ clients'[l].conn = clients[pos[l]].conn
    BY <2>2, <2>5
  <2>8. ASSUME NEW l \in 1..Len(clients'), clients'[l].addr = n, clients'[l].conn = "open"
        PROVE  HasOpen(clients, n)
    <3>1. pos[l] \in 1..Len(clients) /\ clients[pos[l]].addr = n /\ clients[pos[l]].conn = "open"
      BY <2>5, <2>7, <2>8 DEF k
    <3> QED
      BY <3>1, Zenon DEF HasOpen
  <2>9. ASSUME NEW j \in 1..Len(clients), clients[j].addr = n, clients[j].conn = "open"
        PROVE  HasOpen(clients', n)
    <3>1. PICK l \in 1..Len(clients') : pos[l] = j
      BY <2>6, <2>9 DEF k
    <3>2. clients'[l].addr = n /\ clients'[l].conn = "open"
      BY <2>7, <2>9, <3>1
    <3> QED
      BY <3>2, Zenon DEF HasOpen
  <2> QED
    BY <2>8, <2>9, Zenon DEF HasOpen
<1> QED
  BY <1>2, <1>3, <1>4

\* When a node goes, or its session ends, the connection to it breaks and no other does.
LEMMA BreakOpens ==
  ASSUME NEW m, NEW n, clients \in Seq(Client), ConnBecomes(m, "open", "gone")
  PROVE  HasOpen(clients', n) <=> HasOpen(clients, n) /\ n # m
<1> DEFINE which == {i \in ClientsOf(m) : clients[i].conn = "open"}
<1>1. Breaks(which, "gone") /\ "gone" \in Conn
  BY BecomesBreaks DEF Conn
<1>2. \A i \in 1..Len(clients) : i \in which <=> clients[i].addr = m /\ clients[i].conn = "open"
  BY DEF ClientsOf
<1> HIDE DEF which
<1>3. /\ Len(clients') = Len(clients)
      /\ \A i \in 1..Len(clients) :
           /\ clients'[i].addr = clients[i].addr
           /\ clients'[i].conn = IF i \in which THEN "gone" ELSE clients[i].conn
  BY <1>1, BrokenList
<1> QED
  BY <1>2, <1>3 DEF HasOpen

\* A node's end, or a reset, comes on a connection that is broken already.
LEMMA ArrivalOpens ==
  ASSUME HInv, NEW m, NEW n, EndArrives(m) \/ ResetArrives(m)
  PROVE  HasOpen(clients', n) <=> HasOpen(clients, n)
<1>1. clients \in Seq(Client)
  BY DEF HInv, TypeOK
<1>2. ASSUME NEW which, NEW to \in {"fin", "rst"}, Breaks(which, to),
             \A i \in which : clients[i].conn # "open"
      PROVE  HasOpen(clients', n) <=> HasOpen(clients, n)
  <2>1. to \in Conn /\ to # "open"
    BY DEF Conn
  <2>2. /\ Len(clients') = Len(clients)
        /\ \A i \in 1..Len(clients) :
             /\ clients'[i].addr = clients[i].addr
             /\ clients'[i].conn = IF i \in which THEN to ELSE clients[i].conn
    BY <1>1, <1>2, <2>1, BrokenList
  <2>3. \A i \in 1..Len(clients) : clients'[i].conn = "open" <=> clients[i].conn = "open"
    BY <1>2, <2>1, <2>2
  <2> QED
    BY <2>2, <2>3, SameOpen
<1>3. CASE EndArrives(m)
  <2> DEFINE which == {i \in ClientsOf(m) : clients[i].conn = "gone"}
  <2>1. PICK to \in {"fin", "rst"} : ConnBecomes(m, "gone", to)
    BY <1>3, Zenon DEF EndArrives
  <2>2. Breaks(which, to) /\ \A i \in which : clients[i].conn # "open"
    BY <2>1, BecomesBreaks
  <2> HIDE DEF which
  <2> QED
    BY <1>2, <2>2
<1>4. CASE ResetArrives(m)
  <2>1. PICK which : Breaks(which, "rst") /\ \A i \in which : clients[i].conn # "open"
    BY <1>4, ResetBreaks
  <2> QED
    BY <1>2, <2>1
<1> QED
  BY <1>3, <1>4

=============================================================================
