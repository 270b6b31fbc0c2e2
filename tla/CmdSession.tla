----------------------------- MODULE CmdSession -----------------------------
(***************************************************************************)
(* One command session of the server: a tcpCmdSrv device (tcpCmdSrv.c),    *)
(* the command line interpreter it runs (cli.c), its queued events and     *)
(* eventfd (utils.c), its timer, and the part of main() that dispatches an *)
(* event to the device (srvr.c).  The peer is a telnet user or the         *)
(* tcpCmdClient of another node; peer and TCP connection are environment.  *)
(*                                                                         *)
(* A step of the device is one turn of the main loop: take an event,       *)
(* look up the row of the state table, cancel the timer, run the routine,  *)
(* change the state, set the timer.  The loop is single threaded, so that  *)
(* is one atomic action; what the peer and the kernel do falls between.    *)
(*                                                                         *)
(* Abstracted: bytes are members of a small set, a command is recognised   *)
(* by the word its line starts with, a reply is the fact that write() was  *)
(* called.  The ring buffer is the byte queue of module Fifo.              *)
(***************************************************************************)
EXTENDS StateMachine, Fifo

CONSTANTS
  Byte,                \* the bytes a peer can send
  CR,                  \* '\r', the line terminator
  CmdWords,            \* the command names of cmdArray, as byte sequences
  RemWord,             \* the one among them that is remCmd
  Messages,            \* what a peer writes in one go, as byte sequences
  MAX_RECV_BUF_SIZE,   \* size of recvBuf and capacity of the ring
  MaxSends,            \* bound: how many messages the peer writes
  Pipelined            \* TRUE: the peer does not wait for an answer

ASSUME ByteAssumption ==
  /\ CR \in Byte
  /\ CmdWords \subseteq Seq(Byte) /\ RemWord \in CmdWords
  /\ Messages \subseteq Seq(Byte) \ {<<>>}
ASSUME BoundAssumption ==
  /\ MAX_RECV_BUF_SIZE \in Nat \ {0}
  /\ MaxSends \in Nat
  /\ Pipelined \in BOOLEAN

VARIABLES
  proc,      \* the process: "running", or "killed" by SIGPIPE
  alive,     \* the device is in devStructList
  state,     \* devStruct.state
  evtQ,      \* devStruct.EvtStructList, the queued event types
  evtCnt,    \* the counter of the eventfd devStruct.evtFd
  timer,     \* devStruct.timerFd: "off", "armed" or "fired"
  row,       \* stateTblEntryPtr: index of the last row taken, 0 at first
  ring,      \* the bytes in devStruct.rngId
  recvBuf,   \* devStruct.recvBuf, as the C string it holds
  wire,      \* bytes the peer wrote that did not arrive yet
  inbox,     \* bytes the kernel received for devFd and recv() did not return
  sock,      \* the peer's side: "open", "fin" (closed) or "rst" (reset)
  sent,      \* history: the messages the peer wrote
  served     \* history: the lines cliExeCmd executed, with their verdict

loopVars == <<proc, alive, state, evtQ, evtCnt, timer, row, ring, recvBuf>>
vars == <<loopVars, wire, inbox, sock, sent, served>>

-----------------------------------------------------------------------------
(* The state table *)

CmdState == {"CmdWait", "CmdAssemble", "CmdExec", "CmdExecPlus"}
EventType == {"SocketInput", "SocketShutdown", "TimerExpired", "AssembleComplete",
              "AssembleCompletePlus", "CmdFinished", "RemoteCmdStart"}

SessionRows == <<
  Row("CmdWait",     "TimerExpired",         NO_STATE_CHANGE, NULL,                    0),
  Row("CmdWait",     "SocketInput",          "CmdAssemble",   "tcpCmdSrvInput",        5),
  Row("CmdAssemble", "AssembleComplete",     "CmdExec",       "cliExeCmd",             0),
  Row("CmdAssemble", "AssembleCompletePlus", "CmdExecPlus",   "cliExeCmd",             0),
  Row("CmdAssemble", "SocketInput",          "CmdAssemble",   "tcpCmdSrvInput",        5),
  Row("CmdAssemble", "TimerExpired",         "CmdWait",       "cliCleanupCmd",         0),
  Row("CmdExec",     "CmdFinished",          "CmdWait",       "cliCleanupCmd",         0),
  Row("CmdExec",     "SocketInput",          "CmdExec",       "tcpCmdInProgress",      5),
  Row("CmdExecPlus", "CmdFinished",          "CmdAssemble",   "cliParseRemaingBuffer", 5),
  Row("CmdExecPlus", "SocketInput",          "CmdExecPlus",   "tcpCmdInProgress",      5) >>

WildcardRow ==
  Row(WILDCARD_STATE, "SocketShutdown",      "CmdWait",       "tcpCmdSrvShutdown",    10)

\* Mutant: a row that lets a session go on after evtRemoteCmdStart.
TableWithRemoteRow ==
  SessionRows \o <<Row("CmdExec", "RemoteCmdStart", NO_STATE_CHANGE, NULL, 0), WildcardRow>>

tcpCmdSrvStateTable == Append(SessionRows, WildcardRow)

-----------------------------------------------------------------------------
(* One turn of the main loop *)

\* Mutant: the end of the connection is not an event.
SocketEventsDataOnly == IF inbox # <<>> THEN {"SocketInput"} ELSE {}

\* What poll() can report of devFd.  After a reset poll() may see the error
\* before it sees the end of the input, and then POLLIN is not set.
SocketEvents ==
  CASE inbox # <<>>                   -> {"SocketInput"}
    [] inbox = <<>> /\ sock = "open"  -> {}
    [] inbox = <<>> /\ sock = "fin"   -> {"SocketInput"}
    [] inbox = <<>> /\ sock = "rst"   -> {"SocketInput", "SocketShutdown"}

\* Mutant: the socket is looked at before the queue.
NextEventsSocketFirst ==
  IF SocketEvents # {} THEN SocketEvents
  ELSE IF evtCnt > 0 THEN IF evtQ = <<>> THEN {} ELSE {Head(evtQ)}
  ELSE IF timer = "fired" THEN {"TimerExpired"} ELSE {}

\* tcpCmdSrvGetEvtType: queued event, then socket, then timer.  When the eventfd
\* is readable and the queue is empty the code dereferences a null pointer; no
\* event is offered then, and NoNullEvent says that it does not happen.
NextEvents ==
  IF evtCnt > 0 THEN IF evtQ = <<>> THEN {} ELSE {Head(evtQ)}
  ELSE IF SocketEvents # {} THEN SocketEvents
  ELSE IF timer = "fired" THEN {"TimerExpired"} ELSE {}

\* main() takes an event and finds a row whose routine is one of rtns.
Dispatch(rtns) ==
  /\ proc = "running" /\ alive
  /\ \E e \in NextEvents : row' = getTransRtn(tcpCmdSrvStateTable, state, e)
  /\ tcpCmdSrvStateTable[row'].rtn \in rtns

\* Mutants: the eventfd is not read; it is not written.
QueueNoRead(added) ==
  /\ evtQ' = (IF evtCnt > 0 THEN Tail(evtQ) ELSE evtQ) \o added
  /\ evtCnt' = evtCnt + Len(added)
QueueNoWrite(added) ==
  /\ evtQ' = (IF evtCnt > 0 THEN Tail(evtQ) ELSE evtQ) \o added
  /\ evtCnt' = 0

\* The queue after this turn: the event taken is unlinked, read() resets the
\* eventfd whatever its count was, and each evtAdd appends and adds one.
Queue(added) ==
  /\ evtQ' = (IF evtCnt > 0 THEN Tail(evtQ) ELSE evtQ) \o added
  /\ evtCnt' = Len(added)

\* The routine returned OK, or a failure; the timer is set in both cases.
ReturnOk ==
  /\ state' = NextState(tcpCmdSrvStateTable[row'], state)
  /\ timer' = TimerAfter(tcpCmdSrvStateTable[row'])
ReturnError ==
  /\ state' = state
  /\ timer' = TimerAfter(tcpCmdSrvStateTable[row'])

\* A reply is two or more write()s.  SIGPIPE has no handler: writing on a reset
\* connection kills the process, and a peer that closed may answer the first
\* write with the reset that the second one runs into.  Nothing is written when
\* the log level, which any device can set, is above the reply's (utils.c:35).
Reply == proc' \in IF sock = "open" THEN {"running"} ELSE {"running", "killed"}

-----------------------------------------------------------------------------
(* The routines of the table *)

\* assembleCmdLine on ring contents r: the line goes up to the first CR, and the
\* byte after the CR is taken with it.  buf is recvBuf when there is no line.
AssembleCmdLine(r, buf) ==
  LET nChars == FifoSearch(r, CR) IN
  \/ /\ nChars > 0
     /\ recvBuf' = FirstN(r, nChars - 1)
     /\ ring' = AfterN(r, nChars + 1)
     /\ Queue(<<IF ring' # <<>> THEN "AssembleCompletePlus" ELSE "AssembleComplete">>)
     /\ ReturnOk
     /\ UNCHANGED proc
  \/ /\ nChars = 0
     /\ recvBuf' = buf
     /\ ring' = r
     /\ Queue(<<>>)
     /\ ReturnError
     /\ Reply

\* tcpCmdSrvInput and tcpCmdInProgress, recv() > 0: what arrived, up to the size
\* of recvBuf; what does not fit in the ring is dropped.
RecvBytes ==
  /\ Dispatch({"tcpCmdSrvInput", "tcpCmdInProgress"})
  /\ inbox # <<>>
  /\ inbox' = AfterN(inbox, MAX_RECV_BUF_SIZE)
  /\ LET chunk == FirstN(inbox, MAX_RECV_BUF_SIZE)
     IN  AssembleCmdLine(FifoPut(ring, chunk, MAX_RECV_BUF_SIZE), chunk)
  /\ UNCHANGED <<alive, wire, sock, sent, served>>

\* tcpCmdSrvInput and tcpCmdInProgress, recv() <= 0.
RecvEnd ==
  /\ Dispatch({"tcpCmdSrvInput", "tcpCmdInProgress"})
  /\ inbox = <<>>
  /\ Queue(<<"SocketShutdown">>)
  /\ ReturnOk
  /\ UNCHANGED <<proc, alive, ring, recvBuf, wire, inbox, sock, sent, served>>

StartsWith(line, word) ==
  Len(word) <= Len(line) /\ SubSeq(line, 1, Len(word)) = word

\* parseCmd: strncmp over the length of each name of cmdArray.
parseCmd(line) == \E w \in CmdWords : StartsWith(line, w)

\* Mutant: a line that is no command does not queue its completion.
cliExeCmdUnfinished ==
  /\ Dispatch({"cliExeCmd"})
  /\ Queue(IF parseCmd(recvBuf) THEN <<"CmdFinished">> ELSE <<>>)
  /\ served' = Append(served, [line |-> recvBuf, ok |-> parseCmd(recvBuf)])
  /\ ReturnOk
  /\ Reply
  /\ UNCHANGED <<alive, ring, recvBuf, wire, inbox, sock, sent>>

\* cliExeCmd.  remCmd looks for the tcpCmdClient of the node it names (whose
\* table ignores the event it gets) and also queues an event on this session.
cliExeCmd ==
  /\ Dispatch({"cliExeCmd"})
  /\ \/ Queue(<<"CmdFinished">>)
     \/ StartsWith(recvBuf, RemWord) /\ Queue(<<"RemoteCmdStart", "CmdFinished">>)
  /\ served' = Append(served, [line |-> recvBuf, ok |-> parseCmd(recvBuf)])
  /\ ReturnOk
  /\ Reply
  /\ UNCHANGED <<alive, ring, recvBuf, wire, inbox, sock, sent>>

\* cliCleanupCmd and a row without a routine: bufIdx is not used by this device.
cliCleanupCmd ==
  /\ Dispatch({"cliCleanupCmd", NULL})
  /\ Queue(<<>>)
  /\ ReturnOk
  /\ UNCHANGED <<proc, alive, ring, recvBuf, wire, inbox, sock, sent, served>>

\* cliParseRemaingBuffer: try to assemble another line from what is in the ring.
cliParseRemaingBuffer ==
  /\ Dispatch({"cliParseRemaingBuffer"})
  /\ AssembleCmdLine(ring, recvBuf)
  /\ UNCHANGED <<alive, wire, inbox, sock, sent, served>>

\* tcpCmdSrvShutdown: close the descriptors, unlink and free the device.
tcpCmdSrvShutdown ==
  /\ Dispatch({"tcpCmdSrvShutdown"})
  /\ alive' = FALSE
  /\ evtQ' = <<>> /\ evtCnt' = 0 /\ timer' = "off"
  /\ UNCHANGED <<proc, state, ring, recvBuf, wire, inbox, sock, sent, served>>

-----------------------------------------------------------------------------
(* Environment: the peer, TCP and the clock *)

Connected == proc = "running" /\ alive

TimerExpires ==
  /\ Connected /\ timer = "armed"
  /\ timer' = "fired"
  /\ UNCHANGED <<proc, alive, state, evtQ, evtCnt, row, ring, recvBuf,
                 wire, inbox, sock, sent, served>>

PeerSend ==
  /\ Connected /\ sock = "open"
  /\ Len(sent) < MaxSends
  /\ Pipelined \/ Len(served) = Len(sent)
  /\ \E m \in Messages : wire' = wire \o m /\ sent' = Append(sent, m)
  /\ UNCHANGED <<loopVars, inbox, sock, served>>

\* TCP delivers the stream in order, in segments cut anywhere.
Arrive ==
  /\ Connected
  /\ \E n \in 1..Len(wire) :
       inbox' = inbox \o FirstN(wire, n) /\ wire' = AfterN(wire, n)
  /\ UNCHANGED <<loopVars, sock, sent, served>>

\* The end of the stream comes after all of its bytes.
PeerClose ==
  /\ Connected /\ sock = "open" /\ wire = <<>>
  /\ sock' = "fin"
  /\ UNCHANGED <<loopVars, wire, inbox, sent, served>>

\* A reset discards nothing of what arrived before it.
PeerReset ==
  /\ Connected /\ sock # "rst"
  /\ sock' = "rst" /\ wire' = <<>>
  /\ UNCHANGED <<loopVars, inbox, sent, served>>

-----------------------------------------------------------------------------
\* tcpCmdSrvCreateDevStruct on a connection tcpConnSrv accepted.
Init ==
  /\ proc = "running" /\ alive = TRUE
  /\ state = tcpCmdSrvStateTable[1].cur
  /\ evtQ = <<>> /\ evtCnt = 0
  /\ timer = TimerAfter(tcpCmdSrvStateTable[1])
  /\ row = 0
  /\ ring = <<>> /\ recvBuf = <<>>
  /\ wire = <<>> /\ inbox = <<>> /\ sock = "open"
  /\ sent = <<>> /\ served = <<>>

Loop == \/ RecvBytes \/ RecvEnd \/ cliExeCmd \/ cliCleanupCmd
        \/ cliParseRemaingBuffer \/ tcpCmdSrvShutdown

Peer == PeerSend \/ Arrive \/ PeerClose \/ PeerReset

Next == Loop \/ TimerExpires \/ Peer

Spec == Init /\ [][Next]_vars

\* The loop goes on as long as a device is ready, the clock runs, and TCP delivers
\* what was written.  Nothing is asked of the peer.
FairSpec == Spec /\ WF_vars(Loop) /\ WF_vars(TimerExpires) /\ WF_vars(Arrive)

-----------------------------------------------------------------------------
(* Properties *)

TypeOK ==
  /\ proc \in {"running", "killed"} /\ alive \in BOOLEAN
  /\ state \in CmdState
  /\ evtQ \in Seq(EventType) /\ evtCnt \in Nat
  /\ timer \in {"off", "armed", "fired"}
  /\ row \in 0..Len(tcpCmdSrvStateTable)
  /\ ring \in Seq(Byte) /\ recvBuf \in Seq(Byte) 
  /\ wire \in Seq(Byte) /\ inbox \in Seq(Byte)
  /\ sock \in {"open", "fin", "rst"}
  /\ sent \in Seq(Messages)
  /\ served \in Seq([line : Seq(Byte), ok : BOOLEAN])

\* tcpCmdSrv.c:291-301 copies from the event it unlinked without testing for
\* NULL: the eventfd must never be readable while the queue is empty.
NoNullEvent == evtCnt <= Len(evtQ)

\* One read() of the eventfd swallows the count of every queued event
\* (tcpCmdSrv.c:297): an event must never stay behind on a live session with
\* the eventfd at zero, where poll() does not see it.
NoStrandedEvent == alive /\ evtQ # <<>> => evtCnt > 0

\* "This event shouldn't happen in this state since we are only in this state
\* for a single pass" (tcpCmdSrv.c:136, of evtSocketInput in CmdExec): between the
\* execution of a line and the handling of its completion neither the socket nor
\* the timer gets a turn, whatever has arrived or expired by then.
SinglePass ==
  alive /\ state = "CmdExec" => NextEvents \subseteq {"CmdFinished", "RemoteCmdStart"}

\* The shape of queue and counter in each state: what the properties above
\* follow from.  In CmdExecPlus the queue is empty when no line could be
\* assembled from the rest of the ring.  In CmdAssemble an event is always
\* queued, so that the table's rows for input and timeouts there are never
\* taken (see TimeoutWhileAssembling).
ControlShape ==
  /\ evtCnt = Len(evtQ)
  /\ alive =>
       /\ state = "CmdWait" => evtQ = <<>>
       /\ state = "CmdAssemble" =>
            \E e \in {"AssembleComplete", "AssembleCompletePlus", "SocketShutdown"} :
               evtQ = <<e>>
       /\ state = "CmdExec" =>
            evtQ \in {<<"CmdFinished">>, <<"RemoteCmdStart", "CmdFinished">>}
       /\ state = "CmdExecPlus" =>
            evtQ \in {<<>>, <<"CmdFinished">>, <<"RemoteCmdStart", "CmdFinished">>,
                      <<"AssembleComplete">>, <<"AssembleCompletePlus">>,
                      <<"SocketShutdown">>}

\* A session implements CmdService: a line is taken when its completion event is
\* queued, recvBuf holds it until it is executed, and nothing (a second recv()
\* into recvBuf, a timeout, the end of the connection) comes between.
LineTaken == evtQ # <<>> /\ evtQ[1] \in {"AssembleComplete", "AssembleCompletePlus"}
Stage == IF proc = "killed" \/ ~alive THEN "closed"
         ELSE IF LineTaken THEN "taken" ELSE "ready"
TakenLine == IF Stage = "taken" THEN recvBuf ELSE <<>>

Promise == INSTANCE CmdService WITH
  Line <- Seq(Byte), Verdict <- parseCmd, Lossy <- Pipelined,
  stage <- Stage, line <- TakenLine, log <- served

ImplementsService == Promise!Service
ImplementsFairService == Promise!FairService

\* When the peer is gone the device is freed, or the process has died of the
\* reply it wrote: tcpCmdSrv.c:225-228 and 315-321 lead to tcpCmdSrvShutdown
\* from every state of the table.
GoneIsFreed == (sock # "open") ~> (~alive \/ proc = "killed")

(* A peer that waits for its answer (Pipelined = FALSE, every message one line) *)

\* Whatever the segmentation of the stream and wherever timeouts fall, the i-th
\* line executed is the i-th line sent (tcpCmdSrv.c:208-239, cli.c:353-408).
ServedAsSent ==
  /\ Len(served) <= Len(sent)
  /\ \A i \in 1..Len(served) :
       served[i].line = FirstN(sent[i], FifoSearch(sent[i], CR) - 1)

\* The wildcard row closes the session on any event its state has no row for
\* (stateMachine.c:56-57): that must not happen to a connected peer.
NoSpuriousClose == ~alive => sock # "open"

\* A line that was sent is executed unless the peer goes away first.
EveryLineAnswered ==
  (Len(served) < Len(sent)) ~> (Len(served) = Len(sent) \/ sock # "open")

-----------------------------------------------------------------------------
(* What the README says of the session and the code does not do *)

\* README.md:22-25: a session takes commands from other nodes and from telnet
\* and executes them.  Every message of the instance is a command.
EveryCommandExecuted == \A i \in 1..Len(served) : served[i].ok

\* The comments of the state table: a line that is not complete is assembled in
\* CmdAssemble ("if a complete cmd is not assembled in a few seconds then timeout",
\* tcpCmdSrv.c:57-58, 95-96), a timeout is served there ("didnt complete
\* assembling cmd in time", :116), and in CmdWait it "wont happen" (:41).
TimeoutWhileAssembling ==
  [][Loop /\ NextEvents = {"TimerExpired"} => state = "CmdAssemble"]_vars
=============================================================================
