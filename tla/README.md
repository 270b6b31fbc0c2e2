# Verification of pisrv

pisrv is a small event-driven server for a set of Raspberry Pis. Each node runs
one single-threaded process. It finds the other nodes with UDP broadcasts,
keeps a TCP connection to each of them, and accepts TCP connections (from other
nodes and from telnet) on which it executes command lines. This directory holds
TLA+ models of the process, TLC runs that check them on small instances, and
theorems that TLAPS proves for every instance.

    tlc -workers 2 -config CmdSession.cfg MCCmdSession     # one run
    tlapm CmdSessionProofs.tla                             # one module's proofs

`PROJECT.json` lists the components, the runs, the mutants, the lines each
definition translates, the findings, the hazards and the theorems.

## 1. Inventory

The whole program is one loop (`main`, srvr.c): rebuild the `pollfd` array if
the change flag is set, `poll()`, pick one device, take one event from it, look
up the row of the device's state table, cancel its timer, run the row's routine,
change the state, set the timer. A device is a `devStruct` in the list
`devStructList`: a socket, a one-shot timer, an eventfd with a queue of events,
perhaps a recurring "table timer", and a state table. Everything that is
concurrent is outside: the peers, TCP and UDP, and the clock.

| component | state | operations | what must be right |
|---|---|---|---|
| state machine engine (stateMachine.c, srvr.c) | the device's `state` | look up a row, change state, set the timer | first match; a wildcard row matches *every* event |
| command session (tcpCmdSrv.c) | state, ring, `recvBuf`, event queue, eventfd, timer | input, execute, clean up, parse the rest, shut down | every line executed once, as sent; the session is freed when its peer is gone; the queue and the eventfd agree |
| command interpreter (cli.c) | `recvBuf`, `argPtrs` | assemble a line, parse, execute, reply | a line ends where the peer ended it; its verdict is its own |
| event queue and timers (utils.c) | event lists, eventfds, timerfds, one log level for all | `evtAdd`, `setDevTimer`, `logmsg`, `setLogLvl` | no event lost, none invented; no answer lost |
| ring buffer (rnglib.c) | two indices and an array | put, get, search, counts, write-ahead | a byte queue, at every wrap position |
| device list and scan (device.c) | list, `fds[]`, slot indices, change flag, scan position | rebuild, poll and scan | no freed device called, no device forgotten, none starved |
| listener (tcpConnSrv.c) | listening socket and its backlog | accept: add a session | the session gets polled; a connection that ended while it waited is freed |
| hello protocol (helloProtocol.c) | UDP socket, table timer, the clients' silence counters | hello received, tick | one client per node, dead nodes dropped, live ones connected |
| command client (tcpCmdClient.c) | TCP connection | connect, input, shut down | the end of the connection is noticed; there is one connection per node |
| serial device (serialCmdSrv.c) | UART, `recvBuf` | input, timer, execute | a line is executed (it is not: section 6) |
| message API (msgApi.c) | - | - | dead code: nothing creates its device |
| helloProtocolx.c | - | - | not built |

Devices interact through the list and the change flag (listener and hello
protocol add devices, sessions, clients and the hello tick remove them), through
queued events, and, between processes, through TCP: the hello tick of one node
sends `pingReq\n\r` to a session of another.

The hard parts: the peer, TCP segmentation, timeouts and the end of a connection
fall anywhere between two turns; each device looks at its descriptors in a fixed
order, and much depends on it; the eventfd counts events but one read resets it;
one routine leaves bytes for the next; slots and indices are cached while the
list changes; and a write to a peer that has gone kills the process.

## 2. Modules

| module | models | instances |
|---|---|---|
| `StateMachine` | rows, `getTransRtn`, state change and timer of `main` | used by CmdSession |
| `Fifo` | what a ring promises, and the list that is left when elements are unlinked (`Sublist`), as operators on sequences | used by CmdSession, RngBuf, PollLoop, HelloProtocol, CommandLine |
| `CmdSession` | one session, byte by byte: tcpCmdSrv, cli, its queue, timer and `main`'s dispatch; peer and TCP as environment | `MCCmdSession` |
| `CmdService` | abstract: lines are taken, executed, and the service ends | refined by CmdSession and, per device, by CommandLine |
| `CommandLine` | cli.c word by word, in sessions and the serial device together; the log level they share | `MCCommandLine` |
| `RngBuf` | rnglib.c and the macros of rnglib.h, index by index | `MCRngBuf` |
| `ByteFifo` | abstract: a bounded byte queue with write-ahead | refined by RngBuf |
| `PollLoop` | device list, `pollfd` array, scan, and what each kind of device does to the list | `MCPollLoop` |
| `HelloProtocol` | node list: hello device and clients; other nodes and network as environment | `MCHelloProtocol` |
| `Mesh` | HelloProtocol composed with the sessions at the other nodes that serve its clients | `MCMesh` |
| `FifoTheorems` | theorems on the operators of `Fifo` | used by the next ones |
| `CmdSessionProofs`, `CommandLineProofs`, `RngBufProofs`, `RngBufRefinement`, `PollLoopProofs`, `HelloProtocolProofs`, `MeshProofs` | theorems on the module they extend | - |

**CmdSession.** One action per routine of the state table; each is a whole turn
of the loop. `Dispatch(rtns)` is the part of the turn before the routine (take
the event, find the row), `Queue(added)` the event queue after it,
`ReturnOk`/`ReturnError` what `main` does with the return value (an error keeps
the state but still sets the row's timer). `AssembleCmdLine` is
`assembleCmdLine`, shared by input and by `cliParseRemaingBuffer` as in the code.
Variables have the code's names; `evtCnt` is the counter in the eventfd,
`wire`, `inbox` and `sock` are the connection, `sent` and `served` histories.
Bytes are members of a small set (no NUL), a command is recognised by the word
its line starts with, a reply is the fact that `write()` was called.

**CommandLine.** The same interpreter where CmdSession does not look: what the
words of a line are, how many arguments a command takes, what `argPtrs` holds
when a line has no word (a pointer of an earlier line, into what is in `recvBuf`
now: any word), and what is written at which log level. Each device is at
"ready", "taken" or "closed", the stages of CmdService. `serialInput` is
`tcpCmdSrvInput` without the `rngBufPut`, as in the code. A piece of a line is
an input of no lines: `assembleCmdLine` then returns the failure of `rngSearch`,
and `main` writes it to the device.

**RngBuf.** One action per call. `ahead` is a history of what `rngPutAhead`
wrote; the caller's duty stated in rnglib.c:350 is its guard.

**PollLoop.** `Rebuild` is `initPollFds`; each other loop action is one served
device, reduced to which devices it adds, frees or makes ready. A device is an
address, so a freed one can come back as another device. A device that is
picked through one of its slots takes its event from whatever descriptor its
event routine looks at first, as in the code. `ready` is, per descriptor, the
`revents` that `poll()` would report, and the tests of each kind of device are there
with their masks (`ActiveTests`, `EventTests`): a listener or a serial line with
nothing but an error is not active, a session with nothing but urgent data is active
and has no event, and an error a scan passes sets the change flag. A `poll()` after
which no device is active is `NoDeviceReady`.

**HelloProtocol.** A turn begins with the rebuild (`Rebuilt`), which has room for the
first clients of the list only when other devices fill the array (`Crowded`). `Heard`
is what one hello does to the list; `HeardAll` is the list after each of the datagrams
that wait, all of which `helloProtocolInput` reads in one turn. The connection of a
client can fail to open. When the node's end goes it is "gone": what the node's system
sent arrives later as a FIN or a reset, or never; then it is reset only in answer to
something sent. The one-shot timer of the hello device can expire only when the
recurring one has (`Tick`), since it is armed later for the same two seconds.
`bcastAddr` is the address our own broadcasts come back with: `myIpAddr`, or another
one when they leave by another interface than the one asked for it.

**Mesh.** Conjoins every step of HelloProtocol with what it means at the node it
concerns, and replaces its free environment by causes: a client's end goes because a
session was freed or a process ended. A `close()` changes only the end it is called
on. The server's (`ServerEnds`: the tick drops a client, a kill closes all) makes the
connection at the node one whose peer is "closed", and `EndReaches` is the arrival of
the FIN or the reset, perhaps with the last ping before it; or "lost", when nothing of
that ever arrives. A session's (`CloseSession`) leaves the client as it is until
`EndArrives`, which need not happen. A node's end of a connection waits in the backlog
until `Accept`, and is read, also when it was closed meanwhile, by a session that
behaves as CmdService lets one behave that is pinged: it answers, or the wildcard row
ends it. Both processes can end and start again. Only the connections the server makes
are there; the ones made to it are the same seen from the node.

## 3. Runs

| run | question | instance | result |
|---|---|---|---|
| `session` | do queue, table and line buffer keep in step? is a taken line executed, and a session freed when its peer has gone? | 3 messages out of a ping, a remote command and an unfinished line, pipelined, buffers of 6, fair | holds, 43,400 states |
| `session_sync` | with a peer that waits, is every line executed as sent, and the session kept? | 3 messages out of a command and a bad one, buffers of 4, into which the longest line just fits, fair | holds, 1,742 states |
| `ring` | is the ring a queue? do its counts and its search agree with the queue? | 3 bytes of 2 values, array of 4 | holds, 1,664 states |
| `poll` | does `poll()` return in vain? does a device starve? is every device polled while there is room? does overflow of the array do harm? | 5 devices, 14 slots for up to 16 descriptors, errors and urgent data, fair | holds, 98,544 states |
| `hello_safe` | one client per node, in whatever order hellos, crashes and ends of connections fall? | 1 node and our own broadcasts under another address, 3 unread hellos each, limit 2, failing connects, an array with or without room | holds, 91,652 states |
| `hello_live` | dead nodes forgotten, live ones connected? | 1 node, 2 unread hellos, limit 2, fair | holds, 6,274 states |
| `mesh` | one connection per node? is what is closed freed, what is asked answered, the node served again? | 1 node with 2 connections, 1 of them lost, 1 unread hello, limit 1, any crashes of both sides, fair | holds, 38,910 states |
| `command_line` | is a verdict the line's own, and is it written back? | 2 sessions and the serial device, 7 words, 11 inputs, 2 lines each | holds, 949,845 states |
| `find_*` | one statement of a comment or of the README each | small | violated, section 6 |

Why the bounds suffice. A session's behaviour is decided by where a line ends in
the ring, whether something follows it, and what arrives in between; three
messages give a line, a rest, and a line spoiled by the rest, and the buffers of
4 and 6 bytes are reached exactly and overrun. `MAX_RECV_BUF_SIZE` is 132 in the
code, words there are longer; both only scale. A ring of three bytes has every
relation of its two indices, including wraps of both. `MAX_DEVICES` is 32 in the
code, where the devices that stay and seven others leave one slot over; with 14
slots they and one other do, and the next device gets only one of its three
descriptors polled, until there is room again. In `hello_safe` three unread hellos let
a node be heard several times in one read, before and after it is dropped; a second
node would meet the first only in the order of the list, and the theorems are for any
number. In `mesh` the second connection (`Slot`) is the one that was left over when the
server's end was lost; a connect waits while both are taken. `CommandLine`'s
inputs are a piece, right lines, lines with no word, no command, too few and too
many arguments, a line feed left over from CR LF, and two lines at once; two
lines per device are what it takes for one to find what another left.
`MaxSends`, `MaxWaiting`, `MaxLines`, `Slot`, `MaxLost` and `Arrivals` (what `poll()` can
come to report) are the bounds on the environment; histories
grow with `MaxSends` and `MaxLines` only. `Arrivals` leaves out the one-shot timers in
`poll`, for size: their turns are like the one of the table timer.

Every property has a mutant: a plausible error in a mapped definition with which
TLC finds the property violated under the same configuration.

## 4. Fairness

- The loop: `poll()` returns when something is ready and every routine returns,
  so `WF(Loop)` for a session, and `FairSpec` of PollLoop. That one device of
  many gets its turn is not assumed but checked (`NoStarvation`); HelloProtocol
  and Mesh rely on it, giving fairness to each device.
- Timers expire; TCP delivers what was written; the reset that answers something sent
  arrives while the node is up; a node that is up is heard again and again
  (broadcasts every two seconds, some may be lost).
- That a client learns of the end of its connection is not assumed (`EndArrives` has no
  fairness): a tick's ping finds it out. A session learns of it (`EndReaches`) unless
  the end was lost.
- `TimersIdleAgain` in HelloProtocol: the timers are two seconds apart and turns
  are short, so the hello socket, which the code looks at last, gets a turn.
- Nothing is assumed of a session's peer: it may stop, close or reset.
- `Mesh` has the fairness of HelloProtocol for the server and `WF` for each
  device of the other node. In addition a connection that again and again waits
  in the backlog while its client is there is accepted (`SF` of `Accept`): a client is
  kept for seconds and the backlog waits for milliseconds. Nothing makes a process
  that ended start again: `Reconnected` is about the time in which both stay up.
- `command_line` has no liveness: that a taken line is executed is checked and
  argued in `session`.

## 5. Proofs

Every safety invariant that a passing run checks, and the refinements that hold
step by step, are also theorems, for arbitrary bytes, command words, messages,
devices, nodes, buffer and array sizes, and bounds, under the named assumptions on
the constants (`ByteAssumption`, `BoundAssumption`, `RingAssumption`,
`WordAssumption`, `LineAssumption`, `DeviceAssumption`, `PollAssumption`,
`ArrivalsAssumption`, `HelloAssumption`, `MeshAssumption`), which TLC evaluates in
the runs. What each theorem rests on:

- **FifoTheorems** - lemmas on the operators the models share (`FirstN`, `FifoPut`,
  `FifoSearch`, `Sublist`). `Sublist` is a recursive function of the position; that such
  functions exist and satisfy their equation is `RecursionExists`, by induction up to a
  bound (`UpToBound`, from the well-foundedness of `<`).
- **CmdSessionProofs, any peer** - `Inv == TypeOK /\ ControlShape` is inductive.
  `NoNullEvent`, `NoStrandedEvent` and `SinglePass` are about the counter and
  the queue, and are not inductive alone: whether a turn leaves an event behind
  depends on the state the row was taken in. `ControlShape` says, for each
  state, which queues are possible and that the counter is their length; the
  priority of queued events then makes the row found in `CmdAssemble` or
  `CmdExec` the one for that event, and the wildcard row never leaves a live
  session. A lemma per action, and `DispatchRow` for the table.
- **CmdSessionProofs, a peer that waits** - `LinesServedAsSent` (`ServedAsSent`),
  under `~Pipelined` and `OneLineEach`: each message is one line, its CR its last
  byte. That is what a terminal sends that ends its lines by CR alone and what
  `helloProtocolTimer` sends when its last ping has been taken; without it the
  statement is false (`find_pings`). Lines may be longer than the ring. The invariant
  `SyncInv`: either all was executed and nothing is anywhere (`Idle`); or ring,
  inbox and wire are three consecutive pieces of the line that is due (`OnTheWay`);
  or the ring is full without a CR and none can come (`Choked`); or the line is in
  `recvBuf` as it was sent (`Taken`). `Inv` alone relates none of the three. Segments
  cut and join pieces (`PieceCut`, `PieceJoin`), and the search finds the CR of the
  line and no other (`LineEnd`).
- `ClosedWhenGone` (`NoSpuriousClose`), in addition under `NoRemoteCmd`: a remCmd
  ends its own session (section 6). `CloseInv` adds that a queued SocketShutdown
  means that the connection has ended: the event is queued in one turn and
  acted on in a later one.
  The instance of `session_sync` meets the hypotheses of these two theorems.
- `SessionIsService` (`ImplementsService`): with a peer that pipelines, or one that
  waits and sends one line in each message, every step of a session is a step of
  `CmdService` or a stutter under the mapping of CmdSession (`Stage`, `TakenLine`).
  With a pipelining peer `Lossy` is true: a line can be taken in `CmdExecPlus`,
  where its completion has no row, and the wildcard row ends the session with
  the line not executed. With the waiting peer the service loses nothing, and
  `SyncInv` is what excludes that state.
- **CommandLineProofs** - `VerdictIsOfLine`: every device implements CmdService
  with the verdict `Means`. `argCount` of a line without a word is -1 and no command
  takes -1 arguments, so whatever a stale `argPtrs[0]` names is refused; and
  the words of a line are as many as its kept positions. `VerdictsReachDevices`
  (`AnsweredUnlessSilenced`): the invariant `Answered` adds that while no line has
  silenced the verdicts the level lets them through, for the level is shared and
  set by a line of any other device.
- **RngBufProofs** - for every size the indices stay in the array
  (`RingTypeCorrect`) and the counts agree (`RingCountsAgree`).
- **RngBufRefinement** - `RingIsFifo`: every call is a step of `ByteFifo` under the
  mapping of RngBuf (the queue is what lies between the two indices, modulo the
  size). The two `memcpy` of a put or get are first shown to write or read the
  cells one after the other from an index, wrapping once (`PutsAt`, `GetsAt`);
  the rest is arithmetic on distances between indices. The invariant is
  `TypeOK /\ AheadInRing`: what was written ahead is in the free cells behind the
  write index, which `TypeOK` does not say and without which `rngMoveAhead` could
  publish other bytes. `SearchCorrect`: the walk of `rngSearch` over a wrapped ring
  finds what `FifoSearch` finds in the queue.
- **PollLoopProofs** - `PollTypeCorrect`, `SlotsAlive`, `IndicesFresh`,
  `PollNeverInVain`, `RoomForAll`. The places of the descriptors are arithmetic: three
  per device in list order, one more behind the hello device (`Off`, `Shape`,
  `WantedShape`, by induction along the list). Between a change of the list and the
  rebuild nothing about slots need hold, so each part of `IInv` says whether it
  speaks of the list or of the array and what the change flag excuses: the hello
  device is first (`HelloFirst`), the array is the list's while the flag is down
  (`FdsWanted`), an index never points before the place its descriptor will get, since
  the devices in front can only leave (`IdxBehind`), and the owner of a slot has its
  index (`SlotIndexed`). One lemma each for a rebuild
  (`RebuildKeeps`), for adding (`AddKeeps`) and for freeing devices (`FreeKeeps`),
  which every action then uses.
- **HelloProtocolProofs** - `HelloTypeCorrect`, `NodeHasOneClient`. Hearing keeps the
  clients there are in their places, with their connections, and puts new ones behind
  them (`Extends`; `HeardExtends` for one hello, `HeardAllExtends` for any number, by
  induction up to their number). `NoneCut` is the part of `HInv` that no run checks: a
  client about to be shut down has a connection that has ended, or a shutdown could
  close one that the node still serves. The last section says what each step does to
  the clients with an open connection.
- **MeshProofs** - `MeshTypeCorrect`, `ServedOnce` (`OneConnectionPerNode`). The proofs
  about HelloProtocol are instantiated (`HP`), so that a step of the composed system
  needs a proof of what happens at the node only. The invariant (`Paired`) is that a
  connection whose peer is still a client's belongs to a client in the list, and that
  no two are at one node: `connect()` is called for a node without a client only, and
  whatever takes a client off the list ends the connection before. Because a shutdown ends
  nothing at the node, it needs `NoneCut`: the connection has ended already.

What stays with TLC, and why. Everything under fairness, since liveness is out of
the prover's reach: `GoneIsFreed`, `EveryLineAnswered`, `ImplementsFairService`,
`NoStarvation`, `DeadNodeForgotten`, `LiveNodeConnected`, `ClosedIsFreed`,
`PingAnswered`, `Reconnected`. And that a finding is one: a violated property is a
behaviour, not a theorem.

## 6. Findings

Where the code does not do what its comments or README say; each is a run.

- `find_pings` - a line takes one byte more than its CR (cli.c:374): two
  coalesced pings lose the first byte of the second. For the same reason the LF
  of a telnet line's CR LF spoils the next command when it arrives late.
- `find_unconnected` - a ping on the socket of a client whose `connect()` failed
  raises SIGPIPE, which nothing handles, and ends the server. A reply to a peer
  that has reset the connection does the same.
- `find_assemble` - the comments of the state table say that an unfinished line is
  assembled, and times out, in `stateCmdAssemble` (tcpCmdSrv.c:57, 95, 116) and that a
  timeout in `stateCmdWait` will not happen (:41). The code does the opposite: input
  without a CR is an error of `assembleCmdLine`, which keeps `stateCmdWait` and still
  sets the timer. Its row there has no routine, so the unfinished bytes stay in the
  ring and join the next line; the rows of `stateCmdAssemble` for input and for the
  timeout, which would clean up, are never taken (`ControlShape`: something is always
  queued there).
- `find_serial` - `serialInput` reads into `recvBuf`, `assembleCmdLine` searches
  the ring: no serial line is ever completed.

Also seen in the models, without a run of their own:

- `remCmd` queues evtRemoteCmdStart on its own session, which has no row for it;
  the wildcard row closes the session of a connected peer. The comment at
  cli.c:84 speaks of the session as "involved in executing a remote command".
  (cli.c:50 as written assigns an integer to a struct; the model has what the
  lines after it do.)
- A piece of a line is answered by "FAIL", although nothing is wrong with it.
- `setloglvl` with more than 5 silences every device of the node; it is the
  condition of `AnsweredUnlessSilenced`.
- A server whose host goes without a word, or that drops a silent node while the network
  is out, leaves its session open at the other node for good, with three slots of 32
  there: nothing on the accepting side probes, and nothing bounds how many add up.
- The row of the hello timer has a wildcard state and seconds: after a tick its routine
  has armed the one-shot timer, whose expiry the same row takes. Reading the next hello,
  our own included, disarms it; only a loop that was held up until both timers had
  expired runs the routine twice.
- `poll()` is asked for errors on every socket (device.c:406), but the listener and the
  serial line look for input only (tcpConnSrv.c:115, serialCmdSrv.c:139): while an error
  lasts the loop turns without waiting, with "no device ready". srvr.c:67 asks for the
  reason; `PollFindsDevice` says it is the only one. Urgent data alone makes a session
  active and is no event of it, with the same effect (`NoSessionEvent`).
- A client without a slot (the array is full) learns nothing of its connection. When its
  node comes back, hellos keep it alive, a ping is reset, and a later one raises SIGPIPE.
- A node can end by SIGPIPE when it answers a ping of a server that has dropped
  it (`DiesOfAnswer` of Mesh).
- tcpCmdSrv.c:241 says `tcpCmdInProgress` will not be called; it is, in `session`.
- The scan goes over slots, so a device with several slots may be served several
  times before the next one; device.c:206 speaks of a round robin. No device
  starves for it (`NoStarvation`).
- If broadcasts leave by another interface than the one asked for the own
  address (`bcastAddr` other than `myIpAddr`), the server takes its own broadcast
  for another node's and connects to itself, once (`hello_safe`).

## 7. Not modelled

- Start-up failures (no network interface, a port in use, no UART), `malloc`,
  `socket` and descriptor exhaustion, and the leak of events, rings and table
  timers. Every module starts from a server that came up.
- Blocking `connect()` and `send()` in the hello device: a turn takes no time.
- Pings that coalesce in Mesh: what is unread of a session is one bit there, and which
  of its pings are executed is the subject of CmdSession (`find_pings`).
- Lines of more than `MAX_ARGS` words (`argPtrs` has no bound check: what
  follows is undefined), NUL bytes in input, what the printing commands write.
- In Mesh: connects that fail at a node that is up (HelloProtocol has them), and
  a server that connects to itself.
- The read of `fds[-1]` in the debug branch of `devGenericGetActive`
  (device.c:438) by a device without a slot.
- msgApi.c (its device is never created) and helloProtocolx.c (not built).

## 8. Plan

Every live component is modelled and every safety invariant of the passing runs is
proved. Next, in order:

1. The safety halves of the liveness properties: that a node's silence counter
   rises with every tick until the client is dropped (`DeadNodeForgotten`), and that
   the scan position comes closer to a ready device with every turn that
   serves another (`NoStarvation`).
2. A bound on how much of the ring a session can lose to a line that is too long, as a
   step towards saying when its peer is stuck.
