------------------------------ MODULE PollLoop ------------------------------
(***************************************************************************)
(* The device list, the pollfd array built from it, and the scan that      *)
(* picks the next device (device.c, with the queue routines of utils.c and *)
(* the loop of srvr.c).  Devices come and go while the loop runs: the      *)
(* listener (tcpConnSrv.c) adds sessions, the hello protocol               *)
(* (helloProtocol.c, tcpCmdClient.c) adds clients and removes silent ones, *)
(* sessions and clients remove themselves.  What a device does with an     *)
(* event is reduced to which devices it adds, frees or makes ready.        *)
(*                                                                         *)
(* A turn of the loop is Rebuild, when the change flag is set, and then    *)
(* NoDeviceReady or one of the actions that serve a device.  A poll() that *)
(* fails is a turn that changes nothing.  A device is its address: a freed *)
(* one can be handed out again by calloc.                                  *)
(***************************************************************************)
EXTENDS Integers, Sequences, FiniteSets, Fifo

CONSTANTS Listener, Hello, Serial,  \* the devices initDevices makes; never freed
          Sessions, Clients,    \* addresses of tcpCmdSrv and tcpCmdClient devices
          MAX_DEVICES,          \* length of the pollfd array
          Arrivals(_)           \* bound: what poll() can come to report for a device
                                \* from outside

ASSUME PollAssumption ==
  /\ IsFiniteSet(Sessions) /\ IsFiniteSet(Clients) /\ Sessions \cap Clients = {}
  /\ Listener # Hello /\ Serial \notin {Listener, Hello}
  /\ {Listener, Hello, Serial} \cap (Sessions \cup Clients) = {}
  /\ MAX_DEVICES \in Nat \ {0}

VARIABLES
  devList,        \* devStructList, from the head on
  fds,            \* the used part of fds[] and devStructArray[]: which device
                  \* and which of its descriptors a slot holds; slot s is fds[s + 1]
  idx,            \* per device: evtIdx, fdsTimerIdx, fdsTableTimerIdx, fdsIdx
  devChangeFlag,
  lastScanIdx,
  ready,          \* per device and descriptor: the revents poll() would report
  lastServed,     \* history: the device that was served last, as a set
  unconnected     \* history: clients whose connect() failed

pollVars == <<devList, fds, idx, devChangeFlag, lastScanIdx, ready, lastServed, unconnected>>

Device == {Listener, Hello, Serial} \cup Sessions \cup Clients
Kind == {"evt", "timer", "tableTimer", "dev"}
NO_FDS_IDX == -1
NoIdx == [k \in Kind |-> NO_FDS_IDX]

\* POLLERR stands for POLLERR, POLLHUP and POLLNVAL, which are always tested together.
Bit == {"POLLIN", "POLLPRI", "POLLERR"}
CHECK_EVENT_MASK == Bit

\* What the outside can make poll() report: an error or input of the device's own
\* socket, urgent data of a connection, a timer.  The listener sets no timer, and
\* events are queued by the routines below.
CanArrive(d) ==
  {[kind |-> "dev", bit |-> b] :
     b \in IF d \in Sessions \cup Clients THEN Bit ELSE {"POLLIN", "POLLERR"}}
  \cup {[kind |-> k, bit |-> "POLLIN"] :
     k \in IF d = Listener THEN {} ELSE IF d = Hello THEN {"timer", "tableTimer"}
           ELSE {"timer"}}

ASSUME ArrivalsAssumption == \A d \in Device : Arrivals(d) \subseteq CanArrive(d)

\* Only the hello device has a table timer, only it has a tableTimerFd.
FdsOf(d) == IF d = Hello THEN <<"evt", "timer", "tableTimer", "dev">>
            ELSE <<"evt", "timer", "dev">>

Listed(d) == \E i \in 1..Len(devList) : devList[i] = d

-----------------------------------------------------------------------------
(* initPollFds *)

\* The (device, descriptor) pairs of the first n devices of the list, in the
\* order in which devGenericSetPolled hands them to addToFds.
Wanted(list) ==
  LET upTo[n \in 0..Len(list)] ==
        IF n = 0 THEN <<>>
        ELSE upTo[n - 1] \o [i \in 1..Len(FdsOf(list[n])) |->
                               [dev |-> list[n], kind |-> FdsOf(list[n])[i]]]
  IN  upTo[Len(list)]

\* addToFds takes what fits; an index of a descriptor that does not fit keeps
\* the value it had.
Rebuild ==
  /\ devChangeFlag
  /\ fds' = FirstN(Wanted(devList), MAX_DEVICES)
  /\ idx' = [d \in Device |-> [k \in Kind |->
               LET at == {s \in 1..Len(fds') : fds'[s] = [dev |-> d, kind |-> k]}
               IN  IF at = {} THEN idx[d][k] ELSE (CHOOSE s \in at : TRUE) - 1]]
  /\ devChangeFlag' = FALSE
  /\ UNCHANGED <<devList, lastScanIdx, ready, lastServed, unconnected>>

-----------------------------------------------------------------------------
(* getActiveDev and the event routines *)

\* The revents of slot s.
Revents(s) == ready[fds[s + 1].dev][fds[s + 1].kind]

\* One test of a devGetActivePtr or devGetEvtPtr routine: an index and a mask.
On(k, mask) == [kind |-> k, mask |-> mask]
In(k) == On(k, {"POLLIN"})

\* fdsCheck: the slot an index names, whatever is in it now.
fdsCheck(d, test) ==
  /\ idx[d][test.kind] \in 0..(Len(fds) - 1)
  /\ Revents(idx[d][test.kind]) \cap test.mask # {}

\* tcpConnSrvGetActive and serialGetActive look for input only, devGenericGetActive
\* for anything on the device's own descriptor.
ActiveTests(d) ==
  IF d \in {Listener, Serial} THEN {In("dev"), In("timer"), In("evt")}
  ELSE {In("evt"), In("timer"), In("tableTimer"), On("dev", CHECK_EVENT_MASK)}

\* Mutant: devGenericGetActive looks for input only, as the other two do.
ActiveOnInput(d) == \E k \in Kind : fdsCheck(d, In(k))

\* devGetActivePtr
Active(d) == \E test \in ActiveTests(d) : fdsCheck(d, test)

\* The order in which the devGetEvtPtr of a device makes its tests.  The third test
\* of a session is a shutdown; urgent data alone is no event of a session.
Hangup == On("dev", {"POLLERR"})
SocketFirst == <<In("dev"), In("timer"), In("evt")>>
QueueFirst == <<In("evt"), In("dev"), Hangup, In("timer")>>
SocketLast == <<In("evt"), In("timer"), In("tableTimer"), On("dev", CHECK_EVENT_MASK)>>

EventTests(d) ==
  IF d \in {Listener, Serial} THEN SocketFirst
  ELSE IF d \in Sessions THEN QueueFirst ELSE SocketLast

TakesEvent(d, test) ==
  \E i \in 1..Len(EventTests(d)) :
    /\ EventTests(d)[i] = test /\ fdsCheck(d, test)
    /\ \A j \in 1..(i - 1) : ~fdsCheck(d, EventTests(d)[j])

NoEvent(d) == \A i \in 1..Len(EventTests(d)) : ~fdsCheck(d, EventTests(d)[i])

ScanStart == IF lastScanIdx >= MAX_DEVICES THEN 0 ELSE lastScanIdx
ScanDistance(s) == IF s >= ScanStart THEN s - ScanStart ELSE s - ScanStart + MAX_DEVICES

ActiveSlots ==
  LET active == {d \in Device : Active(d)}
  IN  {s \in 0..(Len(fds) - 1) : fds[s + 1].dev \in active}

\* Mutant: the scan always starts at the first slot.
ServedSlotFromZero ==
  LET slots == ActiveSlots IN CHOOSE s \in slots : \A r \in slots : s <= r

\* The scan goes over the slots, not over the devices, and stops at the first
\* one whose device is active, on whatever descriptor.
ServedSlot ==
  LET slots == ActiveSlots
  IN  CHOOSE s \in slots : \A r \in slots : ScanDistance(s) <= ScanDistance(r)

\* poll() reports slot s.
Reported(s) == Revents(s) # {}
ReportedSlots == {s \in 0..(Len(fds) - 1) : Reported(s)}

\* The scan sets the change flag when a slot it passes, the one it stops at
\* included, reports an error.
PassesError(s) ==
  \E r \in 0..(Len(fds) - 1) : ScanDistance(r) <= ScanDistance(s) /\ "POLLERR" \in Revents(r)

\* getActiveDev returns device d.
Pick(d) ==
  /\ ~devChangeFlag
  /\ ActiveSlots # {}
  /\ lastScanIdx' = ServedSlot + 1
  /\ fds[lastScanIdx'].dev = d
  /\ lastServed' = {d}
  /\ UNCHANGED fds

\* Device d is picked and its event comes from this test.
Serve(d, test) == TakesEvent(d, test) /\ Pick(d)

\* The change flag after a turn in which the routine sets it, or not.
DevChange(set) == devChangeFlag' = (set \/ PassesError(lastScanIdx' - 1))

-----------------------------------------------------------------------------
(* What serving a device does to the list *)

SetOf(list) == {list[i] : i \in 1..Len(list)}

\* The ways to make some devices of a set, one after the other.
Fresh(set) ==
  {new \in UNION {[1..n -> set] : n \in 0..Cardinality(set)} :
     Cardinality(SetOf(new)) = Len(new) /\ \A d \in SetOf(new) : ~Listed(d)}

\* Mutant: a queue entry is inserted at the head, as oldinsque does.
AddDevicesAtHead(new) ==
  /\ devList' = new \o devList
  /\ idx' = [d \in Device |-> IF d \in SetOf(new) THEN NoIdx ELSE idx[d]]

\* createDevStruct: insque appends at the tail.
AddDevices(new) ==
  /\ devList' = devList \o new
  /\ idx' = [d \in Device |-> IF d \in SetOf(new) THEN NoIdx ELSE idx[d]]

\* remque takes them out of the list; the others keep their order.
Without(gone) == Sublist(devList, {i \in 1..Len(devList) : devList[i] \notin gone})

\* Mutant: freed devices stay in the pollfd array.
FreeDevicesQuietly(gone) ==
  /\ devList' = Without(gone)
  /\ idx' = [d \in Device |-> IF d \in gone THEN NoIdx ELSE idx[d]]
  /\ unconnected' = unconnected \ gone
  /\ DevChange(FALSE)

\* tcpCmdSrvShutdown, tcpCmdClientShutdown: unlink, free, set the change flag.
FreeDevices(gone) ==
  /\ devList' = Without(gone)
  /\ idx' = [d \in Device |-> IF d \in gone THEN NoIdx ELSE idx[d]]
  /\ unconnected' = unconnected \ gone
  /\ DevChange(gone # {})

KeepDevices == DevChange(FALSE) /\ UNCHANGED <<devList, idx, unconnected>>

\* What a turn may leave of what the device's own socket reported: everything, unless
\* the event was input, which reads the socket (and with it, maybe, its error).
Left(d, test) == IF test.kind = "dev" THEN SUBSET ready[d]["dev"] ELSE {ready[d]["dev"]}

\* What a device reports after a turn: the event or the expiration was read, the
\* one-shot timer cancelled, and the routine may have queued an event on the device.
Served(d, test, left, queued) ==
  [k \in Kind |->
     IF k = "dev" THEN left
     ELSE (IF k \in {test.kind, "timer"} THEN {} ELSE ready[d][k])
          \cup (IF k = "evt" THEN queued ELSE {})]

Quiet == [k \in Kind |-> {}]

\* Readiness is level triggered: a socket stays ready while something is left.
Drain(d, test) ==
  \E left \in Left(d, test) : ready' = [ready EXCEPT ![d] = Served(d, test, left, {})]

\* Mutant: the change flag is not set for a new session.
tcpConnSrvAcceptQuietly ==
  /\ Serve(Listener, In("dev"))
  /\ Drain(Listener, In("dev"))
  /\ \/ \E n \in Sessions : ~Listed(n) /\ AddDevices(<<n>>) /\ DevChange(FALSE) /\ UNCHANGED unconnected
     \/ KeepDevices

tcpConnSrvAcceptConnection ==
  /\ Serve(Listener, In("dev"))
  /\ Drain(Listener, In("dev"))
  /\ \/ \E n \in Sessions : ~Listed(n) /\ AddDevices(<<n>>) /\ DevChange(TRUE) /\ UNCHANGED unconnected
     \/ KeepDevices                                   \* accept() failed

\* All hellos that wait are read (a pending error ends the loop early), and each new
\* node gets a client.  A client whose connect() fails stays in the list, but the
\* change flag is not set for it.
helloProtocolInput ==
  LET input == On("dev", CHECK_EVENT_MASK) IN
  /\ Serve(Hello, input)
  /\ \E left \in Left(Hello, input) :
       /\ "POLLERR" \in ready[Hello]["dev"] \/ left = {}
       /\ ready' = [ready EXCEPT ![Hello] = Served(Hello, input, left, {})]
  /\ \E new \in Fresh(Clients) : \E failed \in SUBSET SetOf(new) :
       /\ AddDevices(new)
       /\ DevChange(SetOf(new) # failed)
       /\ unconnected' = unconnected \cup failed

\* Any set of nodes can have been silent for too long at the same tick.
helloProtocolTimer ==
  \E k \in {"timer", "tableTimer"} :
    /\ Serve(Hello, In(k))
    /\ \E gone \in SUBSET {c \in Clients : Listed(c)} :
         /\ FreeDevices(gone)
         /\ ready' = [d \in Device |->
                        IF d \in gone THEN Quiet
                        ELSE IF d = Hello THEN Served(d, In(k), ready[d]["dev"], {})
                        ELSE ready[d]]

\* serialInput and serialTimer.
ServeSerial ==
  \E k \in {"timer", "dev"} : Serve(Serial, In(k)) /\ Drain(Serial, In(k)) /\ KeepDevices

\* The events a routine of a session may queue: on the session, except that there is
\* none to run for a timeout, and on a client as well when it is remCmd, run for a line.
MayQueue(test, queued, remote) ==
  /\ test = In("timer") => queued = {}
  /\ remote # {} => /\ test = In("evt") /\ queued # {}
                    /\ \E c \in Clients : remote = {c} /\ Listed(c)

AfterSession(d, test, left, queued, remote) ==
  [e \in Device |-> IF e = d THEN Served(d, test, left, queued)
                    ELSE IF e \in remote THEN [ready[e] EXCEPT !["evt"] = {"POLLIN"}]
                    ELSE ready[e]]

\* A routine of a session that leaves it alive.
ServeSession ==
  \E d \in Sessions, test \in {In("evt"), In("dev"), In("timer")} :
    /\ Serve(d, test)
    /\ \E left \in Left(d, test), queued \in SUBSET {"POLLIN"}, remote \in SUBSET Clients :
         MayQueue(test, queued, remote) /\ ready' = AfterSession(d, test, left, queued, remote)
    /\ KeepDevices

\* A session with nothing but urgent data is picked, and no event is found.
NoSessionEvent ==
  \E d \in Sessions : NoEvent(d) /\ Pick(d) /\ KeepDevices /\ UNCHANGED ready

\* tcpCmdClientInput, which may queue a shutdown, and tcpCmdClientTimer.
ServeClient ==
  \E d \in Clients : \E test \in {In("timer"), On("dev", CHECK_EVENT_MASK)} :
    /\ Serve(d, test)
    /\ \E left \in Left(d, test), queued \in SUBSET {"POLLIN"} :
         /\ queued # {} => test.kind = "dev"
         /\ ready' = [ready EXCEPT ![d] = Served(d, test, left, queued)]
    /\ KeepDevices

\* The client's table has no row for evtRemoteCmdStart: the event is read, nothing runs.
DropRemoteCmd ==
  \E d \in Clients :
    /\ Serve(d, In("evt"))
    /\ ready' = [ready EXCEPT ![d]["evt"] = {}]
    /\ KeepDevices

\* The shutdown routine, run for a queued event or, in a session, for an error and
\* by the wildcard row for any event.
ShutdownConnection ==
  \E d \in Sessions \cup Clients :
    /\ \E test \in {In("evt"), In("dev"), Hangup, In("timer")} :
         Serve(d, test) /\ (d \in Clients => test = In("evt"))
    /\ FreeDevices({d})
    /\ ready' = [ready EXCEPT ![d] = Quiet]

\* poll() returned but no device is active: the scan went once round all slots.
NoDeviceReady ==
  /\ ~devChangeFlag
  /\ ReportedSlots # {} /\ ActiveSlots = {}
  /\ lastScanIdx' = IF ScanStart = 0 THEN MAX_DEVICES ELSE ScanStart
  /\ devChangeFlag' = (\E s \in ReportedSlots : "POLLERR" \in Revents(s))
  /\ lastServed' = {}
  /\ UNCHANGED <<devList, fds, idx, ready, unconnected>>

-----------------------------------------------------------------------------
\* Input arrives, a connection breaks, a timer fires.
BecomesReady ==
  /\ UNCHANGED <<devChangeFlag, lastScanIdx, lastServed, devList, fds, idx, unconnected>>
  /\ \E d \in Device : \E a \in Arrivals(d) :
       /\ Listed(d) /\ a.bit \notin ready[d][a.kind]
       /\ ready' = [ready EXCEPT ![d][a.kind] = @ \cup {a.bit}]

\* initDevices, and the change flag main() sets.
Init ==
  /\ devList = <<Hello, Listener, Serial>>
  /\ fds = <<>>
  /\ idx = [d \in Device |-> NoIdx]
  /\ devChangeFlag = TRUE
  /\ lastScanIdx = 0
  /\ ready = [d \in Device |-> Quiet]
  /\ lastServed = {}
  /\ unconnected = {}

Turn == \/ tcpConnSrvAcceptConnection \/ helloProtocolInput \/ helloProtocolTimer
        \/ ServeSerial \/ ServeSession \/ NoSessionEvent \/ ServeClient \/ DropRemoteCmd
        \/ ShutdownConnection \/ NoDeviceReady

Next == Rebuild \/ Turn \/ BecomesReady

Spec == Init /\ [][Next]_pollVars

\* The loop never stops while something is ready: poll() returns and the
\* routines do.  This is WF_pollVars(Rebuild \/ Turn), written out because TLC
\* evaluates ENABLED of these actions slowly: they are enabled when LoopCanGoOn,
\* and theirs are the steps of Next that are not BecomesReady.
LoopCanGoOn == devChangeFlag \/ ReportedSlots # {}
FairSpec == Spec /\ ([]<><<~BecomesReady>>_pollVars \/ []<>~LoopCanGoOn)

-----------------------------------------------------------------------------
(* Properties *)

Slot == [dev : Device, kind : Kind]

\* An event queue and a timer report nothing but input.
Readiness == {r \in [Kind -> SUBSET Bit] : \A k \in Kind \ {"dev"} : r[k] \subseteq {"POLLIN"}}

TypeOK ==
  /\ devList \in Seq(Device)
  /\ fds \in Seq(Slot) /\ Len(fds) <= MAX_DEVICES
  /\ idx \in [Device -> [Kind -> {NO_FDS_IDX} \cup 0..(MAX_DEVICES - 1)]]
  /\ devChangeFlag \in BOOLEAN
  /\ lastScanIdx \in 0..MAX_DEVICES
  /\ ready \in [Device -> Readiness]
  /\ lastServed \in SUBSET Device /\ unconnected \in SUBSET Clients

\* When the loop polls, no slot names a device that was freed: getActiveDev
\* calls through every pointer of devStructArray (device.c:246-251).
NoDanglingSlot == ~devChangeFlag => \A s \in 1..Len(fds) : Listed(fds[s].dev)

\* When the loop polls, an index of a device is the slot of that very
\* descriptor: fdsCheck would otherwise report the readiness of another device,
\* and its event would be taken from this one.  addToFds leaves the old index
\* when the array is full (device.c:142-146).
NoStaleIdx ==
  ~devChangeFlag =>
    \A d \in Device, k \in Kind :
      Listed(d) /\ idx[d][k] # NO_FDS_IDX =>
        idx[d][k] < Len(fds) /\ fds[idx[d][k] + 1] = [dev |-> d, kind |-> k]

\* poll() returns in vain only for the listening socket and the serial line, and
\* only when they report something else than input, which their routines do not test
\* (tcpConnSrv.c:115, serialCmdSrv.c:139) although devGenericSetPolled asks for it.
\* Whatever else it reports, the scan finds a device: this is what srvr.c:67 asks
\* ("find out why we unblocked in getActiveDev but didn't get an active device").
Ignored(s) ==
  /\ fds[s + 1].dev \in {Listener, Serial} /\ fds[s + 1].kind = "dev"
  /\ "POLLIN" \notin Revents(s)

PollFindsDevice ==
  ~devChangeFlag /\ (\E s \in ReportedSlots : ~Ignored(s)) => ActiveSlots # {}

\* Every device is polled as long as the array has room, except for a client
\* whose connection failed (its creation does not set the change flag).
AllPolled ==
  ~devChangeFlag /\ Len(Wanted(devList)) <= MAX_DEVICES =>
    \A d \in Device : Listed(d) /\ d \notin unconnected =>
      \A i \in 1..Len(FdsOf(d)) : idx[d][FdsOf(d)[i]] # NO_FDS_IDX

\* No device starves, although the scan goes over slots that a rebuild moves
\* and lastScanIdx is not adjusted (device.c:168, 206-210).
NoStarvation ==
  \A d \in Device :
    (~devChangeFlag /\ Listed(d) /\ Active(d)) ~> (d \in lastServed \/ ~Listed(d))
=============================================================================
