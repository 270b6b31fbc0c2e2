-------------------------- MODULE CmdSessionProofs --------------------------
(***************************************************************************)
(* Proofs about CmdSession, for every set of bytes, command words and      *)
(* messages and every buffer size: the event queue and the state table     *)
(* with any peer, the lines and the connection of a peer that waits for    *)
(* its answers, and that a session implements CmdService.                  *)
(***************************************************************************)
EXTENDS CmdSession, FifoTheorems

-----------------------------------------------------------------------------
(* The state table *)

\* The row each pair of a state and an event selects.
RowNo(st, e) ==
  IF st = "CmdWait" THEN
    IF e = "TimerExpired" THEN 1 ELSE IF e = "SocketInput" THEN 2 ELSE 11
  ELSE IF st = "CmdAssemble" THEN
    IF e = "AssembleComplete" THEN 3
    ELSE IF e = "AssembleCompletePlus" THEN 4
    ELSE IF e = "SocketInput" THEN 5 ELSE IF e = "TimerExpired" THEN 6 ELSE 11
  ELSE IF st = "CmdExec" THEN
    IF e = "CmdFinished" THEN 7 ELSE IF e = "SocketInput" THEN 8 ELSE 11
  ELSE
    IF e = "CmdFinished" THEN 9 ELSE IF e = "SocketInput" THEN 10 ELSE 11

\* The scan of getTransRtn stops at the first row that matches.
LEMMA FirstRow ==
  ASSUME NEW tbl, NEW st, NEW ev, Len(tbl) \in Nat,
         NEW i \in 1..Len(tbl), RowMatches(tbl[i], st, ev),
         \A j \in 1..(i - 1) : ~RowMatches(tbl[j], st, ev)
  PROVE  getTransRtn(tbl, st, ev) = i
<1> DEFINE hits == {k \in 1..Len(tbl) : RowMatches(tbl[k], st, ev)}
<1>1. i \in hits /\ \A j \in hits : i <= j
  BY SMT
<1>2. \A k \in hits : (\A j \in hits : k <= j) => k = i
  BY <1>1, SMT
<1>3. (CHOOSE k \in hits : \A j \in hits : k <= j) = i
  BY <1>1, <1>2, Zenon
<1>4. hits # {}
  BY <1>1
<1> QED
  BY <1>3, <1>4, Zenon DEF getTransRtn

LEMMA TableRows ==
  /\ Len(tcpCmdSrvStateTable) = 11
  /\ tcpCmdSrvStateTable[11] = WildcardRow
  /\ \A i \in 1..10 : tcpCmdSrvStateTable[i] = SessionRows[i]
<1> DEFINE Rows == {SessionRows[1], SessionRows[2], SessionRows[3], SessionRows[4],
                    SessionRows[5], SessionRows[6], SessionRows[7], SessionRows[8],
                    SessionRows[9], SessionRows[10], WildcardRow}
<1>1. SessionRows \in Seq(Rows) /\ Len(SessionRows) = 10
  BY SMT DEF SessionRows
<1>2. WildcardRow \in Rows
  OBVIOUS
<1> HIDE DEF Rows
<1>3. /\ Len(Append(SessionRows, WildcardRow)) = Len(SessionRows) + 1
      /\ \A i \in 1..Len(SessionRows) : Append(SessionRows, WildcardRow)[i] = SessionRows[i]
      /\ Append(SessionRows, WildcardRow)[Len(SessionRows) + 1] = WildcardRow
  <2> DEFINE s == SessionRows  w == WildcardRow
  <2>1. s \in Seq(Rows) /\ w \in Rows
    BY <1>1, <1>2
  <2> HIDE DEF s, w
  <2>2. /\ Len(Append(s, w)) = Len(s) + 1
        /\ \A i \in 1..Len(s) : Append(s, w)[i] = s[i]
        /\ Append(s, w)[Len(s) + 1] = w
    BY <2>1, AppendProperties
  <2> QED
    BY <2>2 DEF s, w
<1>4. /\ Len(SessionRows) + 1 = 11
      /\ 1..Len(SessionRows) = 1..10
  BY <1>1
<1> QED
  BY <1>1, <1>3, <1>4, Zenon DEF tcpCmdSrvStateTable

\* Each row of the table, in the terms the state machine uses.
LEMMA TableColumns ==
  /\ Len(tcpCmdSrvStateTable) = 11
  /\ \A st \in CmdState, e \in EventType :
       /\ RowMatches(tcpCmdSrvStateTable[1], st, e) <=> st = "CmdWait" /\ e = "TimerExpired"
       /\ RowMatches(tcpCmdSrvStateTable[2], st, e) <=> st = "CmdWait" /\ e = "SocketInput"
       /\ RowMatches(tcpCmdSrvStateTable[3], st, e) <=> st = "CmdAssemble" /\ e = "AssembleComplete"
       /\ RowMatches(tcpCmdSrvStateTable[4], st, e) <=> st = "CmdAssemble" /\ e = "AssembleCompletePlus"
       /\ RowMatches(tcpCmdSrvStateTable[5], st, e) <=> st = "CmdAssemble" /\ e = "SocketInput"
       /\ RowMatches(tcpCmdSrvStateTable[6], st, e) <=> st = "CmdAssemble" /\ e = "TimerExpired"
       /\ RowMatches(tcpCmdSrvStateTable[7], st, e) <=> st = "CmdExec" /\ e = "CmdFinished"
       /\ RowMatches(tcpCmdSrvStateTable[8], st, e) <=> st = "CmdExec" /\ e = "SocketInput"
       /\ RowMatches(tcpCmdSrvStateTable[9], st, e) <=> st = "CmdExecPlus" /\ e = "CmdFinished"
       /\ RowMatches(tcpCmdSrvStateTable[10], st, e) <=> st = "CmdExecPlus" /\ e = "SocketInput"
       /\ RowMatches(tcpCmdSrvStateTable[11], st, e)
  /\ tcpCmdSrvStateTable[1].rtn = NULL
  /\ tcpCmdSrvStateTable[2].rtn = "tcpCmdSrvInput"
  /\ tcpCmdSrvStateTable[3].rtn = "cliExeCmd"
  /\ tcpCmdSrvStateTable[4].rtn = "cliExeCmd"
  /\ tcpCmdSrvStateTable[5].rtn = "tcpCmdSrvInput"
  /\ tcpCmdSrvStateTable[6].rtn = "cliCleanupCmd"
  /\ tcpCmdSrvStateTable[7].rtn = "cliCleanupCmd"
  /\ tcpCmdSrvStateTable[8].rtn = "tcpCmdInProgress"
  /\ tcpCmdSrvStateTable[9].rtn = "cliParseRemaingBuffer"
  /\ tcpCmdSrvStateTable[10].rtn = "tcpCmdInProgress"
  /\ tcpCmdSrvStateTable[11].rtn = "tcpCmdSrvShutdown"
  /\ tcpCmdSrvStateTable[1].next = NO_STATE_CHANGE
  /\ tcpCmdSrvStateTable[2].next = "CmdAssemble"
  /\ tcpCmdSrvStateTable[3].next = "CmdExec"
  /\ tcpCmdSrvStateTable[4].next = "CmdExecPlus"
  /\ tcpCmdSrvStateTable[5].next = "CmdAssemble"
  /\ tcpCmdSrvStateTable[6].next = "CmdWait"
  /\ tcpCmdSrvStateTable[7].next = "CmdWait"
  /\ tcpCmdSrvStateTable[8].next = "CmdExec"
  /\ tcpCmdSrvStateTable[9].next = "CmdAssemble"
  /\ tcpCmdSrvStateTable[10].next = "CmdExecPlus"
<1> USE TableRows DEF RowMatches, Row, SessionRows, WildcardRow, CmdState,
                      WILDCARD_STATE, WILDCARD_EVENT, NO_STATE_CHANGE
<1> QED
  BY SMTT(60)

LEMMA RowOfEvent ==
  ASSUME NEW st \in CmdState, NEW e \in EventType
  PROVE  getTransRtn(tcpCmdSrvStateTable, st, e) = RowNo(st, e)
<1> DEFINE i == RowNo(st, e)
<1>1. i \in 1..11
  BY DEF RowNo
<1>2. RowMatches(tcpCmdSrvStateTable[i], st, e)
  BY TableColumns DEF RowNo, CmdState
<1>3. \A j \in 1..(i - 1) : ~RowMatches(tcpCmdSrvStateTable[j], st, e)
  <2>1. ASSUME NEW j \in 1..11, j < i
        PROVE  ~RowMatches(tcpCmdSrvStateTable[j], st, e)
    BY <2>1, TableColumns, SMTT(60) DEF RowNo, CmdState
  <2> QED
    BY <1>1, <2>1
<1>4. Len(tcpCmdSrvStateTable) \in Nat /\ i \in 1..Len(tcpCmdSrvStateTable)
  BY <1>1, TableColumns
<1> HIDE DEF i
<1>5. getTransRtn(tcpCmdSrvStateTable, st, e) = i
  BY <1>2, <1>3, <1>4, FirstRow, Zenon
<1> QED
  BY <1>5 DEF i

-----------------------------------------------------------------------------
(* The invariant, and which turns of the loop it leaves possible *)

Inv == TypeOK /\ ControlShape

\* Every event main() can take has a type, and selects the row RowNo names.
LEMMA DispatchRow ==
  ASSUME Inv, NEW rtns, Dispatch(rtns)
  PROVE  \E e \in NextEvents : /\ e \in EventType
                               /\ row' = RowNo(state, e) /\ row' \in 1..11
                               /\ tcpCmdSrvStateTable[row'].rtn \in rtns
<1>1. PICK e \in NextEvents : row' = getTransRtn(tcpCmdSrvStateTable, state, e)
  BY DEF Dispatch
<1>2. evtQ # <<>> => Head(evtQ) \in EventType
  BY HeadTailProperties DEF Inv, TypeOK
<1>3. SocketEvents \subseteq EventType
  BY DEF Inv, TypeOK, SocketEvents, EventType
<1>4. e \in EventType
  BY <1>2, <1>3 DEF NextEvents, EventType
<1>5. row' = RowNo(state, e)
  BY <1>1, <1>4, RowOfEvent DEF Inv, TypeOK
<1>6. row' \in 1..11
  BY <1>5 DEF RowNo
<1> QED
  BY <1>4, <1>5, <1>6 DEF Dispatch

\* A queued event decides alone; without one the queue is empty.
LEMMA QueuedEvent ==
  ASSUME Inv, alive
  PROVE  /\ evtCnt = Len(evtQ)
         /\ evtCnt = 0 => evtQ = <<>>
         /\ evtCnt > 0 => evtQ # <<>> /\ NextEvents = {Head(evtQ)}
         /\ \A a : evtQ = <<a>> => evtCnt = 1 /\ Head(evtQ) = a /\ Tail(evtQ) = <<>>
         /\ \A a, b : evtQ = <<a, b>> => /\ evtCnt = 2 /\ Head(evtQ) = a
                                         /\ Tail(evtQ) = <<b>>
<1>1. evtCnt = Len(evtQ) /\ evtQ \in Seq(EventType)
  BY DEF Inv, TypeOK, ControlShape
<1>2. evtCnt = 0 <=> evtQ = <<>>
  BY <1>1, EmptySeq
<1>3. evtCnt > 0 => evtQ # <<>> /\ NextEvents = {Head(evtQ)}
  BY <1>1, <1>2, EmptySeq DEF NextEvents
<1>4. \A a : evtQ = <<a>> => evtCnt = 1 /\ Head(evtQ) = a /\ Tail(evtQ) = <<>>
  BY <1>1
<1>5. \A a, b : evtQ = <<a, b>> => evtCnt = 2 /\ Head(evtQ) = a /\ Tail(evtQ) = <<b>>
  BY <1>1
<1> QED
  BY <1>1, <1>2, <1>3, <1>4, <1>5

\* recv() is called in CmdWait and in CmdExecPlus, with nothing queued.
LEMMA RecvTurn ==
  ASSUME Inv, Dispatch({"tcpCmdSrvInput", "tcpCmdInProgress"})
  PROVE  /\ evtQ = <<>> /\ evtCnt = 0
         /\ \/ state = "CmdWait" /\ row' = 2
            \/ state = "CmdExecPlus" /\ row' = 10
<1>1. PICK e \in NextEvents : /\ e \in EventType
                              /\ row' = RowNo(state, e) /\ row' \in 1..11
                              /\ tcpCmdSrvStateTable[row'].rtn
                                   \in {"tcpCmdSrvInput", "tcpCmdInProgress"}
  BY DispatchRow
<1>2. row' \in {2, 5, 8, 10}
  BY <1>1, TableColumns DEF NULL
<1>3. e = "SocketInput"
  BY <1>1, <1>2 DEF RowNo
<1>4. alive
  BY DEF Dispatch
<1>5. evtCnt = 0
  <2> SUFFICES ASSUME evtCnt > 0 PROVE FALSE
    BY DEF Inv, TypeOK
  <2>1. Head(evtQ) = "SocketInput" /\ evtQ # <<>>
    BY <1>1, <1>3, <1>4, QueuedEvent
  <2>2. \A a : evtQ = <<a>> => a = "SocketInput"
    BY <2>1, <1>4, QueuedEvent
  <2>3. \A a, b : evtQ = <<a, b>> => a = "SocketInput"
    BY <2>1, <1>4, QueuedEvent
  <2> QED
    BY <1>4, <2>1, <2>2, <2>3 DEF Inv, TypeOK, ControlShape, CmdState
<1>6. evtQ = <<>>
  BY <1>4, <1>5, QueuedEvent
<1>7. state \notin {"CmdAssemble", "CmdExec"}
  BY <1>4, <1>5, QueuedEvent DEF Inv, ControlShape
<1> QED
  BY <1>1, <1>3, <1>5, <1>6, <1>7 DEF RowNo, Inv, TypeOK, CmdState

\* A line is executed in CmdAssemble, on its own completion event.
LEMMA ExecuteTurn ==
  ASSUME Inv, Dispatch({"cliExeCmd"})
  PROVE  /\ state = "CmdAssemble" /\ evtCnt = 1
         /\ \/ evtQ = <<"AssembleComplete">> /\ row' = 3
            \/ evtQ = <<"AssembleCompletePlus">> /\ row' = 4
<1>1. PICK e \in NextEvents : /\ e \in EventType
                              /\ row' = RowNo(state, e) /\ row' \in 1..11
                              /\ tcpCmdSrvStateTable[row'].rtn \in {"cliExeCmd"}
  BY DispatchRow
<1>2. row' \in {3, 4}
  BY <1>1, TableColumns DEF NULL
<1>3. alive
  BY DEF Dispatch
<1>4. state = "CmdAssemble"
  BY <1>1, <1>2 DEF RowNo
<1>5. PICK a \in {"AssembleComplete", "AssembleCompletePlus", "SocketShutdown"} :
        evtQ = <<a>>
  BY <1>3, <1>4 DEF Inv, ControlShape
<1>6. evtCnt = 1 /\ e = a
  BY <1>1, <1>3, <1>5, QueuedEvent
<1> QED
  BY <1>1, <1>2, <1>4, <1>5, <1>6 DEF RowNo

\* Cleanup runs when the command is finished and nothing else is in the ring; the
\* row without a routine is the timeout of CmdWait.
LEMMA CleanupTurn ==
  ASSUME Inv, Dispatch({"cliCleanupCmd", NULL})
  PROVE  \/ state = "CmdWait" /\ evtQ = <<>> /\ evtCnt = 0 /\ row' = 1
         \/ state = "CmdExec" /\ evtQ = <<"CmdFinished">> /\ evtCnt = 1 /\ row' = 7
<1>1. PICK e \in NextEvents : /\ e \in EventType
                              /\ row' = RowNo(state, e) /\ row' \in 1..11
                              /\ tcpCmdSrvStateTable[row'].rtn \in {"cliCleanupCmd", NULL}
  BY DispatchRow
<1>2. row' \in {1, 6, 7}
  BY <1>1, TableColumns DEF NULL
<1>3. alive
  BY DEF Dispatch
<1>4. state # "CmdAssemble"
  <2> SUFFICES ASSUME state = "CmdAssemble" PROVE FALSE
    OBVIOUS
  <2>1. PICK a \in {"AssembleComplete", "AssembleCompletePlus", "SocketShutdown"} :
          evtQ = <<a>>
    BY <1>3 DEF Inv, ControlShape
  <2>2. e = a
    BY <1>1, <1>3, <2>1, QueuedEvent
  <2> QED
    BY <1>1, <1>2, <2>2 DEF RowNo
<1>5. CASE row' = 1
  <2>1. state = "CmdWait"
    BY <1>1, <1>5 DEF RowNo
  <2> QED
    BY <1>3, <1>5, <2>1, EmptySeq DEF Inv, ControlShape
<1>6. CASE row' = 7
  <2>1. state = "CmdExec" /\ e = "CmdFinished"
    BY <1>1, <1>6 DEF RowNo
  <2>2. evtQ = <<"RemoteCmdStart", "CmdFinished">> => e = "RemoteCmdStart"
    BY <1>1, <1>3, QueuedEvent
  <2>3. evtQ = <<"CmdFinished">>
    BY <1>3, <2>1, <2>2 DEF Inv, ControlShape
  <2> QED
    BY <1>3, <1>6, <2>1, <2>3, QueuedEvent
<1>7. row' # 6
  BY <1>1, <1>4 DEF RowNo
<1> QED
  BY <1>2, <1>5, <1>6, <1>7

\* The rest of the ring is parsed when the command before it is finished.
LEMMA ParseTurn ==
  ASSUME Inv, Dispatch({"cliParseRemaingBuffer"})
  PROVE  state = "CmdExecPlus" /\ evtQ = <<"CmdFinished">> /\ evtCnt = 1 /\ row' = 9
<1>1. PICK e \in NextEvents : /\ e \in EventType
                              /\ row' = RowNo(state, e) /\ row' \in 1..11
                              /\ tcpCmdSrvStateTable[row'].rtn \in {"cliParseRemaingBuffer"}
  BY DispatchRow
<1>2. row' = 9
  BY <1>1, TableColumns DEF NULL
<1>3. alive
  BY DEF Dispatch
<1>4. e = "CmdFinished" /\ state = "CmdExecPlus"
  BY <1>1, <1>2 DEF RowNo, Inv, TypeOK, CmdState
<1>5. \A a : evtQ = <<a>> => a = "CmdFinished"
  BY <1>1, <1>3, <1>4, QueuedEvent
<1>6. \A a, b : evtQ = <<a, b>> => a = "CmdFinished"
  BY <1>1, <1>3, <1>4, QueuedEvent
<1>7. evtQ # <<>>
  <2> SUFFICES ASSUME evtQ = <<>> PROVE FALSE
    OBVIOUS
  <2>1. NextEvents \subseteq {"SocketInput", "SocketShutdown", "TimerExpired"}
    BY <1>3, EmptySeq DEF NextEvents, SocketEvents, Inv, TypeOK, ControlShape
  <2> QED
    BY <1>1, <1>4, <2>1
<1> QED
  BY <1>2, <1>3, <1>4, <1>5, <1>6, <1>7, QueuedEvent DEF Inv, ControlShape

-----------------------------------------------------------------------------
(* What the parts of a turn leave behind *)

\* With at most one event queued, the queue is left with what the turn added.
LEMMA QueueAfter ==
  ASSUME NEW added \in Seq(EventType), Queue(added),
         \/ evtQ = <<>> /\ evtCnt = 0
         \/ \E a : evtQ = <<a>> /\ evtCnt = 1
  PROVE  evtQ' = added /\ evtCnt' = Len(added)
<1>1. (IF evtCnt > 0 THEN Tail(evtQ) ELSE evtQ) = <<>>
  <2>1. ASSUME NEW a, evtQ = <<a>>, evtCnt = 1 PROVE Tail(evtQ) = <<>>
    BY <2>1
  <2> QED
    BY <2>1
<1>2. <<>> \o added = added
  BY ConcatEmptySeq
<1> QED
  BY <1>1, <1>2, Zenon DEF Queue

\* The state each row leads to, and the timer it leaves.
LEMMA ReturnAfter ==
  ASSUME ReturnOk, row' \in 1..11
  PROVE  /\ timer' \in {"off", "armed"}
         /\ row' \in {2, 5, 9} => state' = "CmdAssemble"
         /\ row' \in {3, 8} => state' = "CmdExec"
         /\ row' \in {4, 10} => state' = "CmdExecPlus"
         /\ row' \in {6, 7} => state' = "CmdWait"
         /\ row' = 1 => state' = state
<1>1. timer' \in {"off", "armed"}
  BY DEF ReturnOk, TimerAfter
<1>2. state' = IF tcpCmdSrvStateTable[row'].next = NO_STATE_CHANGE
               THEN state ELSE tcpCmdSrvStateTable[row'].next
  BY DEF ReturnOk, NextState
<1> QED
  BY <1>1, <1>2, TableColumns DEF NO_STATE_CHANGE

LEMMA ReplyAfter ==
  ASSUME Inv, Reply
  PROVE  proc' \in {"running", "killed"}
BY DEF Inv, TypeOK, Reply

\* Either a line is taken and its event queued, or nothing is and state stays.
LEMMA AssembleAfter ==
  ASSUME Inv, NEW r \in Seq(Byte), NEW buf \in Seq(Byte), AssembleCmdLine(r, buf),
         \/ evtQ = <<>> /\ evtCnt = 0
         \/ \E a : evtQ = <<a>> /\ evtCnt = 1
  PROVE  /\ ring' \in Seq(Byte) /\ recvBuf' \in Seq(Byte)
         /\ proc' \in {"running", "killed"}
         /\ timer' \in {"off", "armed"}
         /\ \/ /\ \E a \in {"AssembleComplete", "AssembleCompletePlus"} : evtQ' = <<a>>
               /\ evtCnt' = 1
               /\ ReturnOk /\ proc' = proc
            \/ evtQ' = <<>> /\ evtCnt' = 0 /\ state' = state
<1> DEFINE n == FifoSearch(r, CR)
<1>1. n \in Nat
  <2>1. n \in 0..Len(r) /\ Len(r) \in Nat
    BY FifoSearchFirst, LenProperties
  <2> QED
    BY <2>1
<1>2. FirstN(r, n - 1) \in Seq(Byte) /\ AfterN(r, n + 1) \in Seq(Byte)
  <2>1. n - 1 \in Int /\ n + 1 \in Nat
    BY <1>1
  <2> QED
    BY <2>1, FirstNProperties, AfterNProperties
<1> HIDE DEF n
<1>3. CASE n > 0
  <2>1. /\ recvBuf' = FirstN(r, n - 1) /\ ring' = AfterN(r, n + 1)
        /\ Queue(<<IF ring' # <<>> THEN "AssembleCompletePlus" ELSE "AssembleComplete">>)
        /\ ReturnOk /\ proc' = proc
    BY <1>3 DEF AssembleCmdLine, n
  <2>2. PICK a \in {"AssembleComplete", "AssembleCompletePlus"} : Queue(<<a>>)
    BY <2>1, Zenon
  <2>3. <<a>> \in Seq(EventType) /\ Len(<<a>>) = 1
    BY DEF EventType
  <2>4. evtQ' = <<a>> /\ evtCnt' = 1
    BY <2>2, <2>3, QueueAfter
  <2>5. timer' \in {"off", "armed"}
    BY <2>1 DEF ReturnOk, TimerAfter
  <2>6. proc' \in {"running", "killed"}
    BY <2>1 DEF Inv, TypeOK
  <2> QED
    BY <1>2, <2>1, <2>4, <2>5, <2>6
<1>4. CASE n = 0
  <2>1. recvBuf' = buf /\ ring' = r /\ Queue(<<>>) /\ ReturnError /\ Reply
    BY <1>4 DEF AssembleCmdLine, n
  <2>2. evtQ' = <<>> /\ evtCnt' = 0
    BY <2>1, QueueAfter, EmptySeq
  <2>3. timer' \in {"off", "armed"} /\ state' = state
    BY <2>1 DEF ReturnError, TimerAfter
  <2> QED
    BY <2>1, <2>2, <2>3, ReplyAfter
<1> QED
  BY <1>1, <1>3, <1>4

LEMMA RowType ==
  ASSUME row' \in 1..11
  PROVE  row' \in 0..Len(tcpCmdSrvStateTable)'
BY TableRows

-----------------------------------------------------------------------------
(* The invariant is inductive *)

LEMMA InitInv == Init => Inv
<1> SUFFICES ASSUME Init PROVE Inv
  OBVIOUS
<1>1. state = "CmdWait"
  BY TableRows DEF Init, SessionRows, Row
<1>2. timer \in {"off", "armed"}
  BY DEF Init, TimerAfter
<1>3. TypeOK
  BY <1>1, <1>2, TableRows, EmptySeq DEF Init, TypeOK, CmdState
<1>4. ControlShape
  BY <1>1, EmptySeq DEF Init, ControlShape
<1> QED
  BY <1>3, <1>4 DEF Inv

LEMMA RecvBytesInv == Inv /\ RecvBytes => Inv'
<1> SUFFICES ASSUME Inv, RecvBytes PROVE Inv'
  OBVIOUS
<1> DEFINE chunk == FirstN(inbox, MAX_RECV_BUF_SIZE)
           filled == FifoPut(ring, chunk, MAX_RECV_BUF_SIZE)
<1>1. /\ evtQ = <<>> /\ evtCnt = 0
      /\ \/ state = "CmdWait" /\ row' = 2
         \/ state = "CmdExecPlus" /\ row' = 10
  BY RecvTurn DEF RecvBytes
<1>2. MAX_RECV_BUF_SIZE \in Nat /\ MAX_RECV_BUF_SIZE \in Int
  BY BoundAssumption
<1>3. chunk \in Seq(Byte) /\ AfterN(inbox, MAX_RECV_BUF_SIZE) \in Seq(Byte)
  BY <1>2, FirstNProperties, AfterNProperties DEF Inv, TypeOK
<1>4. filled \in Seq(Byte)
  BY <1>2, <1>3, FifoPutProperties DEF Inv, TypeOK
<1>5. AssembleCmdLine(filled, chunk)
  BY DEF RecvBytes
<1> HIDE DEF chunk, filled
<1>6. /\ ring' \in Seq(Byte) /\ recvBuf' \in Seq(Byte)
      /\ proc' \in {"running", "killed"}
      /\ timer' \in {"off", "armed"}
      /\ \/ /\ \E a \in {"AssembleComplete", "AssembleCompletePlus"} : evtQ' = <<a>>
            /\ evtCnt' = 1
            /\ ReturnOk /\ proc' = proc
         \/ evtQ' = <<>> /\ evtCnt' = 0 /\ state' = state
  BY <1>1, <1>3, <1>4, <1>5, AssembleAfter
<1>7. row' \in 1..11
  BY <1>1
<1>8. /\ row' \in 0..Len(tcpCmdSrvStateTable)' /\ inbox' \in Seq(Byte)
      /\ UNCHANGED <<alive, wire, sock, sent, served>>
  BY <1>3, <1>7, RowType DEF RecvBytes
<1>9. CASE \E a \in {"AssembleComplete", "AssembleCompletePlus"} :
             evtQ' = <<a>> /\ evtCnt' = 1 /\ ReturnOk
  <2>1. PICK a \in {"AssembleComplete", "AssembleCompletePlus"} :
          evtQ' = <<a>> /\ evtCnt' = 1 /\ ReturnOk
    BY <1>9
  <2>2. \/ state = "CmdWait" /\ state' = "CmdAssemble"
        \/ state = "CmdExecPlus" /\ state' = "CmdExecPlus"
    BY <1>1, <1>7, <2>1, ReturnAfter
  <2>3. evtQ' \in Seq(EventType) /\ Len(evtQ') = 1
    BY <2>1 DEF EventType
  <2>4. TypeOK'
    BY <1>6, <1>8, <2>1, <2>2, <2>3 DEF Inv, TypeOK, CmdState
  <2>5. ControlShape'
    BY <2>1, <2>2, <2>3 DEF ControlShape
  <2> QED
    BY <2>4, <2>5 DEF Inv
<1>10. CASE evtQ' = <<>> /\ evtCnt' = 0 /\ state' = state
  <2>1. TypeOK'
    BY <1>6, <1>10, <1>8, EmptySeq DEF Inv, TypeOK
  <2>2. ControlShape'
    BY <1>1, <1>10, EmptySeq DEF ControlShape
  <2> QED
    BY <2>1, <2>2 DEF Inv
<1> QED
  BY <1>6, <1>9, <1>10

LEMMA RecvEndInv == Inv /\ RecvEnd => Inv'
<1> SUFFICES ASSUME Inv, RecvEnd PROVE Inv'
  OBVIOUS
<1>1. /\ evtQ = <<>> /\ evtCnt = 0
      /\ \/ state = "CmdWait" /\ row' = 2
         \/ state = "CmdExecPlus" /\ row' = 10
  BY RecvTurn DEF RecvEnd
<1>2. row' \in 1..11
  BY <1>1
<1>3. <<"SocketShutdown">> \in Seq(EventType) /\ Len(<<"SocketShutdown">>) = 1
  BY DEF EventType
<1>4. evtQ' = <<"SocketShutdown">> /\ evtCnt' = 1
  BY <1>1, <1>3, QueueAfter DEF RecvEnd
<1>5. /\ timer' \in {"off", "armed"}
      /\ \/ state = "CmdWait" /\ state' = "CmdAssemble"
         \/ state = "CmdExecPlus" /\ state' = "CmdExecPlus"
  BY <1>1, <1>2, ReturnAfter DEF RecvEnd
<1>6. TypeOK'
  <2>1. row' \in 0..Len(tcpCmdSrvStateTable)
    BY <1>2, RowType
  <2>2. UNCHANGED <<proc, alive, ring, recvBuf, wire, inbox, sock, sent, served>>
    BY DEF RecvEnd
  <2>3. evtQ' \in Seq(EventType) /\ evtCnt' \in Nat /\ state' \in CmdState
    BY <1>3, <1>4, <1>5 DEF CmdState
  <2> QED
    BY <1>5, <2>1, <2>2, <2>3 DEF Inv, TypeOK
<1>7. ControlShape'
  BY <1>3, <1>4, <1>5 DEF ControlShape
<1> QED
  BY <1>6, <1>7 DEF Inv

LEMMA cliExeCmdInv == Inv /\ cliExeCmd => Inv'
<1> SUFFICES ASSUME Inv, cliExeCmd PROVE Inv'
  OBVIOUS
<1>1. /\ state = "CmdAssemble" /\ evtCnt = 1
      /\ \/ evtQ = <<"AssembleComplete">> /\ row' = 3
         \/ evtQ = <<"AssembleCompletePlus">> /\ row' = 4
  BY ExecuteTurn DEF cliExeCmd
<1>2. row' \in 1..11
  BY <1>1
<1>3. PICK added \in {<<"CmdFinished">>, <<"RemoteCmdStart", "CmdFinished">>} : Queue(added)
  BY DEF cliExeCmd
<1>4. added \in Seq(EventType)
  <2>1. <<"CmdFinished">> \in Seq(EventType)
    BY DEF EventType
  <2>2. <<"RemoteCmdStart", "CmdFinished">> \in Seq(EventType)
    BY DEF EventType
  <2> QED
    BY <1>3, <2>1, <2>2
<1>5. evtQ' = added /\ evtCnt' = Len(added)
  BY <1>1, <1>3, <1>4, QueueAfter
<1>6. timer' \in {"off", "armed"} /\ state' \in {"CmdExec", "CmdExecPlus"}
  BY <1>1, <1>2, ReturnAfter DEF cliExeCmd
<1>7. served' \in Seq([line : Seq(Byte), ok : BOOLEAN])
  <2>1. parseCmd(recvBuf) \in BOOLEAN
    BY DEF parseCmd
  <2>2. [line |-> recvBuf, ok |-> parseCmd(recvBuf)] \in [line : Seq(Byte), ok : BOOLEAN]
    BY <2>1 DEF Inv, TypeOK
  <2>3. served' = Append(served, [line |-> recvBuf, ok |-> parseCmd(recvBuf)])
    BY DEF cliExeCmd
  <2> QED
    BY <2>2, <2>3, AppendProperties DEF Inv, TypeOK
<1>8. proc' \in {"running", "killed"}
  BY ReplyAfter DEF cliExeCmd
<1>9. Len(added) \in Nat
  BY <1>4, LenProperties
<1>10. TypeOK'
  <2>1. row' \in 0..Len(tcpCmdSrvStateTable)'
    BY <1>2, RowType
  <2>2. UNCHANGED <<alive, ring, recvBuf, wire, inbox, sock, sent>>
    BY DEF cliExeCmd
  <2> QED
    BY <1>4, <1>5, <1>6, <1>7, <1>8, <1>9, <2>1, <2>2 DEF Inv, TypeOK, CmdState
<1>11. ControlShape'
  BY <1>3, <1>5, <1>6 DEF ControlShape
<1> QED
  BY <1>10, <1>11 DEF Inv

LEMMA cliCleanupCmdInv == Inv /\ cliCleanupCmd => Inv'
<1> SUFFICES ASSUME Inv, cliCleanupCmd PROVE Inv'
  OBVIOUS
<1>1. \/ state = "CmdWait" /\ evtQ = <<>> /\ evtCnt = 0 /\ row' = 1
      \/ state = "CmdExec" /\ evtQ = <<"CmdFinished">> /\ evtCnt = 1 /\ row' = 7
  BY CleanupTurn DEF cliCleanupCmd
<1>2. row' \in 1..11
  BY <1>1
<1>3. evtQ' = <<>> /\ evtCnt' = 0
  BY <1>1, QueueAfter, EmptySeq DEF cliCleanupCmd
<1>4. timer' \in {"off", "armed"} /\ state' = "CmdWait"
  BY <1>1, <1>2, ReturnAfter DEF cliCleanupCmd
<1>5. TypeOK'
  <2>1. row' \in 0..Len(tcpCmdSrvStateTable)
    BY <1>2, RowType
  <2>2. UNCHANGED <<proc, alive, ring, recvBuf, wire, inbox, sock, sent, served>>
    BY DEF cliCleanupCmd
  <2>3. evtQ' \in Seq(EventType) /\ evtCnt' \in Nat /\ state' \in CmdState
    BY <1>3, <1>4, EmptySeq DEF CmdState
  <2> QED
    BY <1>4, <2>1, <2>2, <2>3 DEF Inv, TypeOK
<1>6. ControlShape'
  BY <1>3, <1>4, EmptySeq DEF ControlShape
<1> QED
  BY <1>5, <1>6 DEF Inv

LEMMA cliParseRemaingBufferInv == Inv /\ cliParseRemaingBuffer => Inv'
<1> SUFFICES ASSUME Inv, cliParseRemaingBuffer PROVE Inv'
  OBVIOUS
<1>1. state = "CmdExecPlus" /\ evtQ = <<"CmdFinished">> /\ evtCnt = 1 /\ row' = 9
  BY ParseTurn DEF cliParseRemaingBuffer
<1>2. row' \in 1..11
  BY <1>1
<1>3. ring \in Seq(Byte) /\ recvBuf \in Seq(Byte) /\ AssembleCmdLine(ring, recvBuf)
  BY DEF Inv, TypeOK, cliParseRemaingBuffer
<1>4. /\ ring' \in Seq(Byte) /\ recvBuf' \in Seq(Byte)
      /\ proc' \in {"running", "killed"}
      /\ timer' \in {"off", "armed"}
      /\ \/ /\ \E a \in {"AssembleComplete", "AssembleCompletePlus"} : evtQ' = <<a>>
            /\ evtCnt' = 1
            /\ ReturnOk /\ proc' = proc
         \/ evtQ' = <<>> /\ evtCnt' = 0 /\ state' = state
  BY <1>1, <1>3, AssembleAfter
<1>a. /\ row' \in 0..Len(tcpCmdSrvStateTable)
      /\ UNCHANGED <<alive, wire, inbox, sock, sent, served>>
  BY <1>2, RowType DEF cliParseRemaingBuffer
<1>5. CASE \E a \in {"AssembleComplete", "AssembleCompletePlus"} :
             evtQ' = <<a>> /\ evtCnt' = 1 /\ ReturnOk
  <2>1. PICK a \in {"AssembleComplete", "AssembleCompletePlus"} :
          evtQ' = <<a>> /\ evtCnt' = 1 /\ ReturnOk
    BY <1>5
  <2>2. state' = "CmdAssemble"
    BY <1>1, <1>2, <2>1, ReturnAfter
  <2>3. evtQ' \in Seq(EventType) /\ Len(evtQ') = 1
    BY <2>1 DEF EventType
  <2>4. TypeOK'
    <3>1. evtCnt' \in Nat /\ state' \in CmdState
      BY <2>1, <2>2 DEF CmdState
    <3> QED
      BY <1>4, <1>a, <2>3, <3>1 DEF Inv, TypeOK
  <2>5. ControlShape'
    BY <2>1, <2>2, <2>3 DEF ControlShape
  <2> QED
    BY <2>4, <2>5 DEF Inv
<1>6. CASE evtQ' = <<>> /\ evtCnt' = 0 /\ state' = state
  <2>1. TypeOK'
    <3>1. evtQ' \in Seq(EventType) /\ evtCnt' \in Nat /\ state' \in CmdState
      BY <1>6, EmptySeq DEF Inv, TypeOK
    <3> QED
      BY <1>4, <1>a, <3>1 DEF Inv, TypeOK
  <2>2. ControlShape'
    BY <1>1, <1>6, EmptySeq DEF ControlShape
  <2> QED
    BY <2>1, <2>2 DEF Inv
<1> QED
  BY <1>4, <1>5, <1>6

LEMMA tcpCmdSrvShutdownInv == Inv /\ tcpCmdSrvShutdown => Inv'
<1> SUFFICES ASSUME Inv, tcpCmdSrvShutdown PROVE Inv'
  OBVIOUS
<1>1. row' \in 1..11
  BY DispatchRow DEF tcpCmdSrvShutdown
<1>2. TypeOK'
  <2>1. evtQ' \in Seq(EventType)
    BY EmptySeq DEF tcpCmdSrvShutdown
  <2>2. row' \in 0..Len(tcpCmdSrvStateTable)'
    BY <1>1, RowType
  <2> QED
    BY <2>1, <2>2 DEF Inv, TypeOK, tcpCmdSrvShutdown
<1>3. ControlShape'
  <2>1. evtQ' = <<>> /\ evtCnt' = 0 /\ ~alive'
    BY DEF tcpCmdSrvShutdown
  <2> QED
    BY <2>1, EmptySeq DEF ControlShape
<1> QED
  BY <1>2, <1>3 DEF Inv

LEMMA PeerInv == Inv /\ Peer => Inv'
<1> SUFFICES ASSUME Inv, Peer PROVE Inv'
  OBVIOUS
<1>1. ControlShape'
  <2>1. UNCHANGED loopVars
    BY DEF Peer, PeerSend, Arrive, PeerClose, PeerReset
  <2> QED
    BY <2>1, Zenon DEF Inv, ControlShape, loopVars
<1>2. CASE PeerSend
  <2>1. PICK m \in Messages : wire' = wire \o m /\ sent' = Append(sent, m)
    BY <1>2 DEF PeerSend
  <2>2. wire' \in Seq(Byte)
    BY <2>1, ByteAssumption, ConcatProperties DEF Inv, TypeOK
  <2>3. sent' \in Seq(Messages)
    BY <2>1, AppendProperties DEF Inv, TypeOK
  <2>4. TypeOK'
    BY <1>2, <2>2, <2>3 DEF Inv, TypeOK, PeerSend, loopVars
  <2> QED
    BY <1>1, <2>4 DEF Inv
<1>3. CASE Arrive
  <2>1. PICK n \in 1..Len(wire) :
          inbox' = inbox \o FirstN(wire, n) /\ wire' = AfterN(wire, n)
    BY <1>3 DEF Arrive
  <2>2. n \in Nat /\ n \in Int
    BY <2>1
  <2>3. FirstN(wire, n) \in Seq(Byte) /\ AfterN(wire, n) \in Seq(Byte)
    BY <2>2, FirstNProperties, AfterNProperties DEF Inv, TypeOK
  <2>4. inbox' \in Seq(Byte) /\ wire' \in Seq(Byte)
    BY <2>1, <2>3, ConcatProperties DEF Inv, TypeOK
  <2>5. TypeOK'
    BY <1>3, <2>4 DEF Inv, TypeOK, Arrive, loopVars
  <2> QED
    BY <1>1, <2>5 DEF Inv
<1>4. CASE PeerClose
  <2>1. TypeOK'
    BY <1>4 DEF Inv, TypeOK, PeerClose, loopVars
  <2> QED
    BY <1>1, <2>1 DEF Inv
<1>5. CASE PeerReset
  <2>1. TypeOK'
    BY <1>5, EmptySeq DEF Inv, TypeOK, PeerReset, loopVars
  <2> QED
    BY <1>1, <2>1 DEF Inv
<1> QED
  BY <1>2, <1>3, <1>4, <1>5 DEF Peer

LEMMA TimerExpiresInv == Inv /\ TimerExpires => Inv'
<1> SUFFICES ASSUME Inv, TimerExpires PROVE Inv'
  OBVIOUS
<1>1. TypeOK'
  BY DEF Inv, TypeOK, TimerExpires
<1>2. ControlShape'
  BY DEF Inv, ControlShape, TimerExpires
<1> QED
  BY <1>1, <1>2 DEF Inv

\* The inductive invariant: every step of the session or of its environment keeps
\* the types and the shape of queue and counter.
THEOREM InvStep == Inv /\ [Next]_vars => Inv'
<1> SUFFICES ASSUME Inv, [Next]_vars PROVE Inv'
  OBVIOUS
<1>1. CASE RecvBytes
  BY <1>1, RecvBytesInv
<1>2. CASE RecvEnd
  BY <1>2, RecvEndInv
<1>3. CASE cliExeCmd
  BY <1>3, cliExeCmdInv
<1>4. CASE cliCleanupCmd
  BY <1>4, cliCleanupCmdInv
<1>5. CASE cliParseRemaingBuffer
  BY <1>5, cliParseRemaingBufferInv
<1>6. CASE tcpCmdSrvShutdown
  BY <1>6, tcpCmdSrvShutdownInv
<1>7. CASE TimerExpires
  BY <1>7, TimerExpiresInv
<1>8. CASE Peer
  BY <1>8, PeerInv
<1>9. CASE UNCHANGED vars
  <2>1. TypeOK'
    BY <1>9 DEF Inv, TypeOK, vars, loopVars
  <2>2. ControlShape'
    BY <1>9 DEF Inv, ControlShape, vars, loopVars
  <2> QED
    BY <2>1, <2>2 DEF Inv
<1> QED
  BY <1>1, <1>2, <1>3, <1>4, <1>5, <1>6, <1>7, <1>8, <1>9 DEF Next, Loop

LEMMA Invariance == Spec => []Inv
<1>1. Init => Inv
  BY InitInv
<1>2. Inv /\ [Next]_vars => Inv'
  BY InvStep
<1> QED
  BY <1>1, <1>2, PTL DEF Spec

\* Every variable of a session keeps its type, whatever the peer sends, however TCP
\* cuts it and whenever the timer fires.
THEOREM TypeCorrect == Spec => []TypeOK
<1>1. Inv => TypeOK
  BY DEF Inv
<1> QED
  BY <1>1, Invariance, PTL

\* The queue of a live session holds what its state implies, and nothing else.
THEOREM ControlShapeHolds == Spec => []ControlShape
<1>1. Inv => ControlShape
  BY DEF Inv
<1> QED
  BY <1>1, Invariance, PTL

\* tcpCmdSrvGetEvtType never copies from a null event: when the eventfd is
\* readable, getNextEventStruct has an event to return.
THEOREM NullEventImpossible == Spec => []NoNullEvent
<1>1. Inv => NoNullEvent
  BY LenProperties DEF Inv, TypeOK, ControlShape, NoNullEvent
<1> QED
  BY <1>1, Invariance, PTL

\* Reading the eventfd once for two queued events loses neither: an event left on
\* the queue is always one the eventfd still counts.
THEOREM NoEventStranded == Spec => []NoStrandedEvent
<1>1. Inv => NoStrandedEvent
  <2> SUFFICES ASSUME Inv, alive, evtQ # <<>> PROVE evtCnt > 0
    BY DEF NoStrandedEvent
  <2> QED
    BY EmptySeq DEF Inv, TypeOK, ControlShape
<1> QED
  BY <1>1, Invariance, PTL

\* In CmdExec no input and no timeout is served: the one event that is taken there
\* is of the line's own making.
THEOREM SinglePassStates == Spec => []SinglePass
<1>1. Inv => SinglePass
  <2> SUFFICES ASSUME Inv, alive, state = "CmdExec"
               PROVE  NextEvents \subseteq {"CmdFinished", "RemoteCmdStart"}
    BY DEF SinglePass
  <2>1. evtQ \in {<<"CmdFinished">>, <<"RemoteCmdStart", "CmdFinished">>}
    BY DEF Inv, ControlShape
  <2>2. CASE evtQ = <<"CmdFinished">>
    BY <2>2, QueuedEvent
  <2>3. CASE evtQ = <<"RemoteCmdStart", "CmdFinished">>
    BY <2>3, QueuedEvent
  <2> QED
    BY <2>1, <2>2, <2>3
<1> QED
  BY <1>1, Invariance, PTL

-----------------------------------------------------------------------------
(* A peer that waits for its answers.  The line it sent last is on its way in three   *)
(* pieces, ring, inbox and wire, until it is taken; then nothing else is anywhere.    *)

\* Every message is one line.
OneLineEach == \A m \in Messages : m[Len(m)] = CR /\ \A i \in 1..(Len(m) - 1) : m[i] # CR

LineOf(m) == FirstN(m, FifoSearch(m, CR) - 1)

\* No message is a remCmd, which ends the session it comes on.
NoRemoteCmd == \A m \in Messages : ~StartsWith(LineOf(m), RemWord)

\* s is what m has behind its first off bytes.
Piece(s, m, off) == off + Len(s) <= Len(m) /\ \A i \in 1..Len(s) : s[i] = m[off + i]

Due == sent[Len(sent)]
NothingLeft == ring = <<>> /\ inbox = <<>> /\ wire = <<>>

\* All was executed; the last line is on its way, or what came of it filled the ring
\* and no CR can come any more; it is taken.
Idle == Len(served) = Len(sent) /\ ~LineTaken /\ NothingLeft
OnTheWay == /\ Piece(ring, Due, 0) /\ Piece(inbox, Due, Len(ring))
            /\ Piece(wire, Due, Len(ring) + Len(inbox))
            /\ Len(ring) <= MAX_RECV_BUF_SIZE
Choked == Len(ring) = MAX_RECV_BUF_SIZE /\ \A i \in 1..Len(ring) : ring[i] # CR
Coming == Len(served) + 1 = Len(sent) /\ ~LineTaken /\ (OnTheWay \/ Choked)
Taken == /\ Len(served) + 1 = Len(sent) /\ evtQ = <<"AssembleComplete">>
         /\ recvBuf = LineOf(Due) /\ NothingLeft

SyncInv ==
  /\ ServedAsSent
  /\ Connected => state # "CmdExecPlus" /\ (Idle \/ Coming \/ Taken)

LEMMA PieceCut ==
  ASSUME NEW s \in Seq(Byte), NEW m \in Seq(Byte), NEW off \in Nat, NEW n \in Nat, Piece(s, m, off)
  PROVE  /\ FirstN(s, n) \in Seq(Byte) /\ Piece(FirstN(s, n), m, off)
         /\ AfterN(s, n) \in Seq(Byte) /\ Piece(AfterN(s, n), m, off + Len(FirstN(s, n)))
         /\ Len(FirstN(s, n)) + Len(AfterN(s, n)) = Len(s)
<1> DEFINE first == FirstN(s, n)
           rest == AfterN(s, n)
<1>1. Len(s) \in Nat /\ Len(m) \in Nat
  BY LenProperties
<1>2. /\ first \in Seq(Byte) /\ Len(first) = (IF n <= Len(s) THEN n ELSE Len(s))
      /\ \A i \in 1..Len(first) : first[i] = s[i]
  <2>1. /\ first \in Seq(Byte)
        /\ Len(first) = IF n <= 0 THEN 0 ELSE IF n <= Len(s) THEN n ELSE Len(s)
        /\ \A i \in 1..Len(first) : first[i] = s[i]
    <3>1. n \in Int
      OBVIOUS
    <3> QED
      BY <3>1, FirstNProperties
  <2> QED
    BY <1>1, <2>1
<1>3. /\ rest \in Seq(Byte) /\ Len(rest) = (IF n < Len(s) THEN Len(s) - n ELSE 0)
      /\ \A i \in 1..Len(rest) : rest[i] = s[n + i]
  BY AfterNProperties
<1> HIDE DEF first, rest
<1>4. /\ off + Len(s) <= Len(m) /\ \A i \in 1..Len(s) : s[i] = m[off + i]
  BY DEF Piece
<1>5. Piece(first, m, off)
  BY <1>1, <1>2, <1>4 DEF Piece
<1>6. Len(first) + Len(rest) = Len(s)
  <2>1. /\ Len(first) = IF n <= Len(s) THEN n ELSE Len(s)
        /\ Len(rest) = IF n < Len(s) THEN Len(s) - n ELSE 0
    BY <1>2, <1>3, Zenon
  <2>2. CASE n < Len(s)
    <3>1. n <= Len(s)
      BY <1>1, <2>2
    <3>2. Len(first) = n /\ Len(rest) = Len(s) - n
      BY <2>1, <2>2, <3>1
    <3> QED
      BY <1>1, <3>2
  <2>3. CASE ~(n < Len(s))
    <3>1. Len(rest) = 0 /\ Len(first) = Len(s)
      BY <1>1, <2>1, <2>3
    <3> QED
      BY <1>1, <3>1
  <2> QED
    BY <2>2, <2>3
<1>7. Piece(rest, m, off + Len(first))
  <2>1. off + Len(first) + Len(rest) <= Len(m)
    <3>1. Len(first) \in Nat /\ Len(rest) \in Nat
      BY <1>1, <1>2, <1>3
    <3> QED
      BY <1>1, <1>4, <1>6, <3>1
  <2>2. ASSUME NEW i \in 1..Len(rest) PROVE rest[i] = m[off + Len(first) + i]
    <3>1. Len(first) = n /\ n + i \in 1..Len(s) /\ off + (n + i) = off + Len(first) + i
      BY <1>1, <1>2, <1>3
    <3> QED
      BY <1>3, <1>4, <3>1
  <2> QED
    BY <2>1, <2>2 DEF Piece
<1> QED
  BY <1>2, <1>3, <1>5, <1>6, <1>7 DEF first, rest

LEMMA PieceJoin ==
  ASSUME NEW s \in Seq(Byte), NEW t \in Seq(Byte), NEW m \in Seq(Byte), NEW off \in Nat,
         Piece(s, m, off), Piece(t, m, off + Len(s))
  PROVE  s \o t \in Seq(Byte) /\ Len(s \o t) = Len(s) + Len(t) /\ Piece(s \o t, m, off)
<1> DEFINE j == s \o t
<1>1. Len(s) \in Nat /\ Len(t) \in Nat /\ Len(m) \in Nat
  BY LenProperties
<1>2. /\ j \in Seq(Byte) /\ Len(j) = Len(s) + Len(t)
      /\ \A i \in 1..Len(j) : j[i] = IF i <= Len(s) THEN s[i] ELSE t[i - Len(s)]
  BY <1>1, ConcatProperties
<1> HIDE DEF j
<1>3. ASSUME NEW i \in 1..Len(j) PROVE j[i] = m[off + i]
  <2>1. CASE i <= Len(s)
    <3>1. i \in 1..Len(s) /\ j[i] = s[i]
      BY <1>1, <1>2, <2>1
    <3> QED
      BY <3>1 DEF Piece
  <2>2. CASE i > Len(s)
    <3>1. i - Len(s) \in 1..Len(t) /\ off + Len(s) + (i - Len(s)) = off + i
      BY <1>1, <1>2, <2>2
    <3>2. t[i - Len(s)] = m[off + Len(s) + (i - Len(s))]
      BY <3>1 DEF Piece
    <3> QED
      BY <1>1, <1>2, <2>2, <3>1, <3>2
  <2> QED
    BY <1>1, <2>1, <2>2
<1>4. off + Len(j) <= Len(m)
  BY <1>1, <1>2 DEF Piece
<1> QED
  BY <1>2, <1>3, <1>4 DEF j, Piece

\* A line ends where its message does.
LEMMA LineEnd ==
  ASSUME OneLineEach, NEW m \in Messages
  PROVE  m \in Seq(Byte) /\ Len(m) \in Nat \ {0} /\ FifoSearch(m, CR) = Len(m)
<1>1. m \in Seq(Byte) /\ m # <<>>
  BY ByteAssumption
<1>2. Len(m) \in Nat \ {0}
  BY <1>1, EmptySeq
<1>3. /\ FifoSearch(m, CR) \in 0..Len(m)
      /\ FifoSearch(m, CR) = 0 => \A i \in 1..Len(m) : m[i] # CR
      /\ FifoSearch(m, CR) > 0 => m[FifoSearch(m, CR)] = CR
  BY <1>1, FifoSearchFirst
<1>4. m[Len(m)] = CR /\ \A i \in 1..(Len(m) - 1) : m[i] # CR
  BY DEF OneLineEach
<1> DEFINE n == FifoSearch(m, CR)
<1> HIDE DEF n
<1>5. n > 0 /\ n \in 1..Len(m)
  BY <1>2, <1>3, <1>4 DEF n
<1>6. n \notin 1..(Len(m) - 1)
  BY <1>3, <1>4, <1>5 DEF n
<1> QED
  BY <1>1, <1>2, <1>5, <1>6 DEF n

\* A CR is found when all of the line is there, and not before.
LEMMA LineWhole ==
  ASSUME OneLineEach, NEW m \in Messages, NEW r \in Seq(Byte), Piece(r, m, 0),
         FifoSearch(r, CR) > 0
  PROVE  r = m
<1> DEFINE n == FifoSearch(r, CR)
<1>1. m \in Seq(Byte) /\ Len(m) \in Nat \ {0} /\ Len(r) \in Nat
  BY LineEnd, LenProperties
<1>2. n \in 1..Len(r) /\ r[n] = CR
  BY <1>1, FifoSearchFirst
<1> HIDE DEF n
<1>3. Len(r) <= Len(m) /\ \A i \in 1..Len(r) : r[i] = m[i]
  BY <1>1 DEF Piece
<1>4. n \in 1..Len(m) /\ m[n] = CR
  BY <1>1, <1>2, <1>3
<1>5. n \notin 1..(Len(m) - 1)
  BY <1>4 DEF OneLineEach
<1>6. Len(r) = Len(m)
  BY <1>1, <1>2, <1>3, <1>4, <1>5
<1> QED
  BY <1>1, <1>3, <1>6, SeqEqual

LEMMA NoCrNoLine ==
  ASSUME NEW r \in Seq(Byte), \A i \in 1..Len(r) : r[i] # CR
  PROVE  FifoSearch(r, CR) = 0
<1>1. Len(r) \in Nat
  BY LenProperties
<1> DEFINE n == FifoSearch(r, CR)
<1>2. n \in 0..Len(r) /\ (n > 0 => r[n] = CR)
  BY FifoSearchFirst
<1> HIDE DEF n
<1>3. n = 0
  BY <1>1, <1>2
<1> QED
  BY <1>3 DEF n

\* What the ring holds after a recv(): all that came of the line, or, when it does not
\* fit, a full ring without a CR.
LEMMA FilledRing ==
  ASSUME OneLineEach, NEW m \in Messages, NEW q \in Seq(Byte), NEW c \in Seq(Byte),
         NEW cap \in Nat \ {0}, Len(q) <= cap, Piece(q, m, 0), Piece(c, m, Len(q))
  PROVE  LET r == FifoPut(q, c, cap)
         IN  /\ r \in Seq(Byte) /\ Piece(r, m, 0) /\ Len(r) <= cap
             /\ \/ Len(r) = Len(q) + Len(c)
                \/ Len(r) = cap /\ \A i \in 1..Len(r) : r[i] # CR
<1> DEFINE room == cap - Len(q)
           put == FirstN(c, room)
           r == FifoPut(q, c, cap)
<1>1. m \in Seq(Byte) /\ Len(m) \in Nat \ {0} /\ Len(q) \in Nat /\ Len(c) \in Nat
  BY LineEnd, LenProperties
<1>2. room \in Nat
  BY <1>1
<1> HIDE DEF room
<1>3. put \in Seq(Byte) /\ Piece(put, m, Len(q))
  BY <1>1, <1>2, PieceCut
<1>4. r = q \o put
  BY DEF FifoPut, room
<1>5. Len(put) = IF room <= Len(c) THEN room ELSE Len(c)
  <2>1. room \in Int /\ Len(put) = IF room <= 0 THEN 0 ELSE IF room <= Len(c) THEN room ELSE Len(c)
    BY <1>2, FirstNProperties
  <2> QED
    BY <1>1, <1>2, <2>1
<1> HIDE DEF put, r
<1>6. r \in Seq(Byte) /\ Len(r) = Len(q) + Len(put) /\ Piece(r, m, 0)
  <2>1. Piece(put, m, 0 + Len(q))
    BY <1>1, <1>3
  <2> QED
    BY <1>1, <1>3, <1>4, <2>1, PieceJoin
<1>7. CASE Len(c) <= room
  <2>1. Len(put) = Len(c)
    BY <1>1, <1>2, <1>5, <1>7
  <2> QED
    BY <1>1, <1>2, <1>6, <1>7, <2>1 DEF r, room
<1>8. CASE room < Len(c)
  <2>1. Len(put) = room
    BY <1>1, <1>2, <1>5, <1>8
  <2>2. Len(r) = cap
    BY <1>1, <1>6, <2>1 DEF room
  <2>3. Len(q) + Len(c) <= Len(m)
    BY DEF Piece
  <2>4. Len(r) < Len(m)
    BY <1>1, <1>2, <1>6, <1>8, <2>1, <2>3
  <2>5. ASSUME NEW i \in 1..Len(r) PROVE r[i] # CR
    <3>1. r[i] = m[i]
      BY <1>6, <2>2 DEF Piece
    <3>2. i \in 1..(Len(m) - 1)
      BY <1>1, <2>2, <2>4
    <3> QED
      BY <3>1, <3>2 DEF OneLineEach
  <2> QED
    BY <1>6, <2>2, <2>5 DEF r
<1> QED
  BY <1>1, <1>2, <1>7, <1>8

LEMMA DueLine ==
  ASSUME OneLineEach, Inv, Len(served) + 1 = Len(sent)
  PROVE  Due \in Messages /\ Due \in Seq(Byte) /\ Len(Due) \in Nat \ {0}
<1>1. Len(sent) \in Nat /\ Len(served) \in Nat
  BY LenProperties DEF Inv, TypeOK
<1>2. Len(sent) \in 1..Len(sent)
  BY <1>1
<1>3. Due \in Messages
  BY <1>2, ElementOfSeq DEF Inv, TypeOK, Due
<1> QED
  BY <1>3, LineEnd

\* A turn that tries to assemble a line takes all of the last one, or finds none.
LEMMA AssembleDue ==
  ASSUME OneLineEach, NEW m \in Messages, NEW r \in Seq(Byte), NEW buf, AssembleCmdLine(r, buf),
         evtQ = <<>>, evtCnt = 0,
         Piece(r, m, 0) \/ (\A i \in 1..Len(r) : r[i] # CR)
  PROVE  \/ r = m /\ recvBuf' = LineOf(m) /\ ring' = <<>> /\ evtQ' = <<"AssembleComplete">> /\ ReturnOk
         \/ ring' = r /\ evtQ' = <<>> /\ state' = state /\ \A i \in 1..Len(r) : r[i] # CR
<1> DEFINE n == FifoSearch(r, CR)
<1>1. n \in Nat /\ Len(r) \in Nat
  <2>1. n \in 0..Len(r) /\ Len(r) \in Nat
    BY FifoSearchFirst, LenProperties
  <2> QED
    BY <2>1
<1>2. CASE n > 0
  <2>1. r = m
    <3>1. n = 0 \/ Piece(r, m, 0)
      BY NoCrNoLine
    <3> QED
      BY <1>1, <1>2, <3>1, LineWhole
  <2>2. m \in Seq(Byte) /\ Len(m) \in Nat \ {0} /\ n = Len(m)
    BY <2>1, LineEnd
  <2>3. /\ recvBuf' = FirstN(r, n - 1) /\ ring' = AfterN(r, n + 1) /\ ReturnOk
        /\ Queue(<<IF ring' # <<>> THEN "AssembleCompletePlus" ELSE "AssembleComplete">>)
    BY <1>2 DEF AssembleCmdLine
  <2>4. ring' = <<>>
    <3>1. n + 1 \in Nat
      BY <1>1
    <3>2. /\ AfterN(r, n + 1) \in Seq(Byte)
          /\ Len(AfterN(r, n + 1)) = IF n + 1 < Len(r) THEN Len(r) - (n + 1) ELSE 0
      BY <3>1, AfterNProperties
    <3> HIDE DEF n
    <3>3. Len(AfterN(r, n + 1)) = 0
      BY <2>1, <2>2, <3>2
    <3> QED
      BY <2>3, <3>2, <3>3, EmptySeq
  <2>5. evtQ' = <<"AssembleComplete">>
    <3>1. Queue(<<"AssembleComplete">>)
      BY <2>3, <2>4
    <3>2. <<"AssembleComplete">> \in Seq(EventType)
      BY DEF EventType
    <3> QED
      BY <3>1, <3>2, QueueAfter
  <2> QED
    BY <2>1, <2>3, <2>4, <2>5 DEF LineOf
<1>3. CASE n = 0
  <2>1. ring' = r /\ Queue(<<>>) /\ ReturnError
    BY <1>3 DEF AssembleCmdLine
  <2>2. evtQ' = <<>> /\ state' = state
    BY <2>1, QueueAfter, EmptySeq DEF ReturnError
  <2>3. \A i \in 1..Len(r) : r[i] # CR
    BY <1>3, FifoSearchFirst
  <2> QED
    BY <2>1, <2>2, <2>3
<1> QED
  BY <1>1, <1>2, <1>3

LEMMA SyncRecvBytes ==
  ASSUME OneLineEach, Inv, SyncInv, RecvBytes
  PROVE  SyncInv'
<1> DEFINE chunk == FirstN(inbox, MAX_RECV_BUF_SIZE)
           rest == AfterN(inbox, MAX_RECV_BUF_SIZE)
           filled == FifoPut(ring, chunk, MAX_RECV_BUF_SIZE)
           m == Due
<1>1. Connected /\ MAX_RECV_BUF_SIZE \in Nat \ {0}
  BY BoundAssumption DEF Connected, RecvBytes, Dispatch
<1>2. evtQ = <<>> /\ evtCnt = 0 /\ state = "CmdWait" /\ row' = 2
  BY <1>1, RecvTurn DEF RecvBytes, SyncInv
<1>3. /\ inbox # <<>> /\ inbox' = rest /\ AssembleCmdLine(filled, chunk)
      /\ UNCHANGED <<alive, wire, sock, sent, served>>
  BY DEF RecvBytes
<1>4. Len(served) + 1 = Len(sent) /\ (OnTheWay \/ Choked)
  BY <1>1, <1>2, <1>3 DEF SyncInv, Idle, NothingLeft, Coming, Taken
<1>5. m \in Messages /\ m \in Seq(Byte) /\ Len(m) \in Nat \ {0} /\ m' = m
  BY <1>3, <1>4, DueLine DEF Due
<1>6. /\ ring \in Seq(Byte) /\ inbox \in Seq(Byte) /\ wire \in Seq(Byte)
      /\ Len(ring) \in Nat /\ Len(inbox) \in Nat /\ Len(wire) \in Nat
  BY LenProperties DEF Inv, TypeOK
<1>7. chunk \in Seq(Byte) /\ rest \in Seq(Byte) /\ Len(chunk) \in Nat /\ Len(rest) \in Nat
  <2>1. MAX_RECV_BUF_SIZE \in Nat /\ MAX_RECV_BUF_SIZE \in Int
    BY <1>1
  <2> QED
    BY <1>6, <2>1, FirstNProperties, AfterNProperties, LenProperties
<1> HIDE DEF chunk, rest, m
<1>8. /\ filled \in Seq(Byte) /\ Len(filled) \in Nat
      /\ \/ /\ Piece(filled, m, 0) /\ Len(filled) <= MAX_RECV_BUF_SIZE
            /\ Len(filled) = Len(ring) + Len(chunk)
            /\ Piece(rest, m, Len(filled)) /\ Piece(wire, m, Len(filled) + Len(rest))
         \/ Len(filled) = MAX_RECV_BUF_SIZE /\ \A i \in 1..Len(filled) : filled[i] # CR
  <2>1. CASE OnTheWay
    <3>1. /\ Piece(ring, m, 0) /\ Piece(inbox, m, Len(ring))
          /\ Piece(wire, m, Len(ring) + Len(inbox))
          /\ Len(ring) <= MAX_RECV_BUF_SIZE
      BY <2>1 DEF OnTheWay, m
    <3>2. /\ Piece(chunk, m, Len(ring)) /\ Piece(rest, m, Len(ring) + Len(chunk))
          /\ Len(chunk) + Len(rest) = Len(inbox)
      BY <1>1, <1>5, <1>6, <3>1, PieceCut DEF chunk, rest
    <3>3. /\ filled \in Seq(Byte) /\ Piece(filled, m, 0) /\ Len(filled) <= MAX_RECV_BUF_SIZE
          /\ \/ Len(filled) = Len(ring) + Len(chunk)
             \/ Len(filled) = MAX_RECV_BUF_SIZE /\ \A i \in 1..Len(filled) : filled[i] # CR
      BY <1>1, <1>5, <1>6, <1>7, <3>1, <3>2, FilledRing
    <3> HIDE DEF filled
    <3>4. Len(filled) \in Nat
      BY <3>3, LenProperties
    <3>5. ASSUME Len(filled) = Len(ring) + Len(chunk)
          PROVE  Piece(rest, m, Len(filled)) /\ Piece(wire, m, Len(filled) + Len(rest))
      <4>1. Len(chunk) + Len(rest) = Len(inbox)
        BY <3>2
      <4> DEFINE a == Len(ring)  b == Len(chunk)  c == Len(rest)
      <4>2. a \in Nat /\ b \in Nat /\ c \in Nat /\ Len(filled) = a + b /\ Len(inbox) = b + c
        BY <1>6, <1>7, <3>5, <4>1
      <4> HIDE DEF a, b, c
      <4>3. Len(filled) + c = a + Len(inbox)
        BY <4>2
      <4> QED
        BY <3>1, <3>2, <3>5, <4>3 DEF a, c
    <3> QED
      BY <3>3, <3>4, <3>5
  <2>2. CASE Choked
    <3>1. FirstN(chunk, MAX_RECV_BUF_SIZE - Len(ring)) = <<>>
      <4>1. MAX_RECV_BUF_SIZE - Len(ring) = 0
        BY <1>1, <2>2 DEF Choked
      <4>2. 0 \in Int
        OBVIOUS
      <4>3. FirstN(chunk, 0) \in Seq(Byte) /\ Len(FirstN(chunk, 0)) = 0
        BY <1>7, <4>2, FirstNProperties
      <4> QED
        BY <4>1, <4>3, EmptySeq
    <3>2. filled = ring
      BY <1>6, <3>1, ConcatEmptySeq DEF FifoPut
    <3> QED
      BY <1>6, <2>2, <3>2 DEF Choked
  <2> QED
    BY <1>4, <2>1, <2>2
<1> HIDE DEF filled
<1>9. \/ /\ filled = m /\ recvBuf' = LineOf(m) /\ ring' = <<>> /\ evtQ' = <<"AssembleComplete">>
         /\ ReturnOk
      \/ /\ ring' = filled /\ evtQ' = <<>> /\ state' = state
         /\ \A i \in 1..Len(filled) : filled[i] # CR
  BY <1>2, <1>3, <1>5, <1>8, AssembleDue
<1>10. ServedAsSent'
  BY <1>3 DEF SyncInv, ServedAsSent
<1>11. CASE filled = m /\ recvBuf' = LineOf(m) /\ ring' = <<>> /\ evtQ' = <<"AssembleComplete">> /\ ReturnOk
  <2>1. state' = "CmdAssemble"
    BY <1>2, <1>11, ReturnAfter
  <2>2. m[Len(m)] = CR /\ Len(m) \in 1..Len(m)
    BY <1>5 DEF OneLineEach
  <2>3. Piece(rest, m, Len(m)) /\ Piece(wire, m, Len(m) + Len(rest))
    BY <1>8, <1>11, <2>2
  <2>4. Len(rest) = 0 /\ Len(wire) = 0
    BY <1>5, <1>6, <1>7, <2>3 DEF Piece
  <2>5. rest = <<>> /\ wire = <<>>
    BY <1>6, <1>7, <2>4, EmptySeq
  <2>6. Taken'
    BY <1>3, <1>4, <1>5, <1>11, <2>5 DEF Taken, NothingLeft, m
  <2> QED
    BY <1>10, <2>1, <2>6 DEF SyncInv
<1>12. CASE /\ ring' = filled /\ evtQ' = <<>> /\ state' = state
            /\ \A i \in 1..Len(filled) : filled[i] # CR
  <2>1. ~LineTaken'
    BY <1>12 DEF LineTaken
  <2>2. OnTheWay' \/ Choked'
    BY <1>3, <1>5, <1>8, <1>12 DEF OnTheWay, Choked, m
  <2>3. Coming'
    BY <1>3, <1>4, <2>1, <2>2 DEF Coming
  <2> QED
    BY <1>2, <1>10, <1>12, <2>3 DEF SyncInv
<1> QED
  BY <1>9, <1>11, <1>12

LEMMA SyncExecute ==
  ASSUME OneLineEach, Inv, SyncInv, cliExeCmd
  PROVE  SyncInv'
<1>1. Connected
  BY DEF Connected, cliExeCmd, Dispatch
<1>2. /\ state = "CmdAssemble" /\ evtCnt = 1
      /\ \/ evtQ = <<"AssembleComplete">> /\ row' = 3
         \/ evtQ = <<"AssembleCompletePlus">> /\ row' = 4
  BY ExecuteTurn DEF cliExeCmd
<1>3. LineTaken
  BY <1>2 DEF LineTaken
<1>4. Taken
  BY <1>1, <1>3 DEF SyncInv, Idle, Coming
<1>5. row' = 3 /\ \E a : evtQ = <<a>>
  BY <1>2, <1>4 DEF Taken
<1>6. PICK added \in {<<"CmdFinished">>, <<"RemoteCmdStart", "CmdFinished">>} : Queue(added)
  BY DEF cliExeCmd
<1>7. evtQ' = added
  <2>1. <<"CmdFinished">> \in Seq(EventType) /\ <<"RemoteCmdStart", "CmdFinished">> \in Seq(EventType)
    BY DEF EventType
  <2>2. added \in Seq(EventType)
    BY <1>6, <2>1
  <2> QED
    BY <1>2, <1>6, <2>2, QueueAfter
<1>8. state' = "CmdExec"
  BY <1>5, ReturnAfter DEF cliExeCmd
<1>9. /\ UNCHANGED <<ring, inbox, wire, sent>>
      /\ served' = Append(served, [line |-> recvBuf, ok |-> parseCmd(recvBuf)])
  BY DEF cliExeCmd
<1> DEFINE e == [line |-> recvBuf, ok |-> parseCmd(recvBuf)]
<1>10. /\ Len(served) \in Nat /\ Len(sent) \in Nat /\ Len(served') = Len(served) + 1
       /\ \A i \in 1..Len(served) : served'[i] = served[i]
       /\ served'[Len(served) + 1] = e
  <2>1. served \in Seq([line : Seq(Byte), ok : BOOLEAN]) /\ sent \in Seq(Messages)
    BY DEF Inv, TypeOK
  <2>2. e \in [line : Seq(Byte), ok : BOOLEAN]
    BY DEF Inv, TypeOK, parseCmd
  <2> HIDE DEF e
  <2> QED
    BY <1>9, <2>1, <2>2, AppendProperties, LenProperties DEF e
<1>11. e.line = LineOf(sent[Len(sent)])
  BY <1>4 DEF Taken, Due
<1> HIDE DEF e
<1>12. ServedAsSent'
  <2>1. Len(served') = Len(sent)
    BY <1>4, <1>10 DEF Taken
  <2>2. ASSUME NEW i \in 1..Len(served')
        PROVE  served'[i].line = LineOf(sent[i])
    <3>1. CASE i \in 1..Len(served)
      BY <1>10, <3>1 DEF SyncInv, ServedAsSent, LineOf
    <3>2. CASE i = Len(served) + 1
      BY <1>4, <1>10, <1>11, <3>2 DEF Taken
    <3> QED
      BY <1>10, <3>1, <3>2
  <2> QED
    BY <1>9, <1>10, <2>1, <2>2 DEF ServedAsSent, LineOf
<1>13. Idle'
  <2>1. ~LineTaken'
    BY <1>6, <1>7 DEF LineTaken
  <2>2. Len(served') = Len(sent')
    BY <1>4, <1>9, <1>10 DEF Taken
  <2> QED
    BY <1>4, <1>9, <2>1, <2>2 DEF Idle, Taken, NothingLeft
<1> QED
  BY <1>8, <1>12, <1>13 DEF SyncInv

\* A turn that neither takes nor executes a line, and a message of the clock.
LEMMA SyncOtherTurn ==
  ASSUME OneLineEach, Inv, SyncInv, RecvEnd \/ cliCleanupCmd \/ TimerExpires
  PROVE  SyncInv'
<1>1. Connected
  BY DEF Connected, RecvEnd, cliCleanupCmd, TimerExpires, Dispatch
<1>2. UNCHANGED <<ring, inbox, wire, recvBuf, sent, served>>
  BY DEF RecvEnd, cliCleanupCmd, TimerExpires
<1>3. \/ evtQ' = evtQ /\ state' = state
      \/ ~LineTaken /\ ~LineTaken' /\ state' # "CmdExecPlus"
  <2>1. CASE RecvEnd
    <3>1. evtQ = <<>> /\ evtCnt = 0 /\ row' = 2
      BY <1>1, <2>1, RecvTurn DEF RecvEnd, SyncInv
    <3>2. <<"SocketShutdown">> \in Seq(EventType)
      BY DEF EventType
    <3>3. evtQ' = <<"SocketShutdown">>
      BY <2>1, <3>1, <3>2, QueueAfter DEF RecvEnd
    <3>4. state' = "CmdAssemble"
      BY <2>1, <3>1, ReturnAfter DEF RecvEnd
    <3> QED
      BY <3>1, <3>3, <3>4 DEF LineTaken
  <2>2. CASE cliCleanupCmd
    <3>1. \/ state = "CmdWait" /\ evtQ = <<>> /\ evtCnt = 0 /\ row' = 1
          \/ state = "CmdExec" /\ evtQ = <<"CmdFinished">> /\ evtCnt = 1 /\ row' = 7
      BY <2>2, CleanupTurn DEF cliCleanupCmd
    <3>2. evtQ' = <<>>
      BY <2>2, <3>1, QueueAfter, EmptySeq DEF cliCleanupCmd
    <3>3. state' = "CmdWait"
      BY <2>2, <3>1, ReturnAfter DEF cliCleanupCmd
    <3> QED
      BY <3>1, <3>2, <3>3 DEF LineTaken
  <2>3. CASE TimerExpires
    BY <2>3 DEF TimerExpires
  <2> QED
    BY <2>1, <2>2, <2>3
<1>4. ServedAsSent'
  BY <1>2 DEF SyncInv, ServedAsSent
<1>5. CASE evtQ' = evtQ /\ state' = state
  BY <1>1, <1>2, <1>4, <1>5
     DEF SyncInv, Idle, Coming, Taken, OnTheWay, Choked, NothingLeft, LineTaken, Due
<1>6. CASE ~LineTaken /\ ~LineTaken' /\ state' # "CmdExecPlus"
  <2>1. Idle \/ Coming
    BY <1>1, <1>6 DEF SyncInv, Taken, LineTaken
  <2>2. Idle' \/ Coming'
    BY <1>2, <1>6, <2>1 DEF Idle, Coming, OnTheWay, Choked, NothingLeft, Due
  <2> QED
    BY <1>4, <1>6, <2>2 DEF SyncInv
<1> QED
  BY <1>3, <1>5, <1>6

LEMMA SyncSend ==
  ASSUME OneLineEach, ~Pipelined, Inv, SyncInv, PeerSend
  PROVE  SyncInv'
<1>1. Connected /\ Len(served) = Len(sent)
  BY DEF PeerSend
<1>2. PICK m \in Messages : wire' = wire \o m /\ sent' = Append(sent, m)
  BY DEF PeerSend
<1>3. UNCHANGED <<loopVars, inbox, sock, served>>
  BY DEF PeerSend
<1>4. /\ sent \in Seq(Messages) /\ Len(sent) \in Nat /\ Len(served) \in Nat
      /\ Len(sent') = Len(sent) + 1 /\ sent'[Len(sent) + 1] = m
      /\ \A i \in 1..Len(sent) : sent'[i] = sent[i]
  BY <1>2, AppendProperties, LenProperties DEF Inv, TypeOK
<1>5. Idle /\ state # "CmdExecPlus"
  BY <1>1, <1>4 DEF SyncInv, Coming, Taken
<1>6. m \in Seq(Byte) /\ Len(m) \in Nat \ {0} /\ wire' = m
  BY <1>2, <1>5, LineEnd, ConcatEmptySeq DEF Idle, NothingLeft
<1>7. ServedAsSent'
  BY <1>1, <1>3, <1>4 DEF SyncInv, ServedAsSent
<1>8. Due' = m
  BY <1>4 DEF Due
<1>9. ring' = <<>> /\ inbox' = <<>> /\ Len(ring') = 0 /\ Len(inbox') = 0
  BY <1>3, <1>5, EmptySeq DEF Idle, NothingLeft, loopVars
<1>10. OnTheWay'
  <2>1. Piece(ring', m, 0) /\ Piece(inbox', m, 0)
    BY <1>6, <1>9 DEF Piece
  <2>2. Piece(wire', m, 0)
    BY <1>6 DEF Piece
  <2> QED
    BY <1>8, <1>9, <2>1, <2>2, BoundAssumption DEF OnTheWay
<1>11. Coming'
  BY <1>1, <1>3, <1>4, <1>5, <1>10 DEF Coming, Idle, LineTaken, loopVars
<1> QED
  BY <1>3, <1>5, <1>7, <1>11 DEF SyncInv, loopVars

LEMMA SyncArrive ==
  ASSUME OneLineEach, Inv, SyncInv, Arrive
  PROVE  SyncInv'
<1>1. Connected
  BY DEF Arrive
<1>2. PICK n \in 1..Len(wire) : inbox' = inbox \o FirstN(wire, n) /\ wire' = AfterN(wire, n)
  BY DEF Arrive
<1>3. UNCHANGED <<loopVars, sock, sent, served>>
  BY DEF Arrive
<1>4. /\ ring \in Seq(Byte) /\ inbox \in Seq(Byte) /\ wire \in Seq(Byte)
      /\ Len(ring) \in Nat /\ Len(inbox) \in Nat /\ Len(wire) \in Nat
  BY LenProperties DEF Inv, TypeOK
<1>5. Coming /\ state # "CmdExecPlus"
  BY <1>1, <1>2, <1>4 DEF SyncInv, Idle, Taken, NothingLeft
<1>6. ServedAsSent'
  BY <1>3 DEF SyncInv, ServedAsSent
<1>7. Due \in Seq(Byte) /\ Due' = Due
  BY <1>3, <1>5, DueLine DEF Coming, Due
<1>8. ASSUME OnTheWay PROVE OnTheWay'
  <2> DEFINE first == FirstN(wire, n)
             rest == AfterN(wire, n)
             behind == Len(ring) + Len(inbox)
             m == Due
  <2>1. behind \in Nat /\ n \in Nat /\ Piece(wire, m, behind) /\ Piece(inbox, m, Len(ring))
    BY <1>4, <1>8 DEF OnTheWay
  <2>2. /\ first \in Seq(Byte) /\ Piece(first, m, behind)
        /\ rest \in Seq(Byte) /\ Piece(rest, m, behind + Len(first))
    BY <1>4, <1>7, <2>1, PieceCut
  <2> HIDE DEF m, first, rest
  <2>3. /\ inbox \o first \in Seq(Byte) /\ Len(inbox \o first) = Len(inbox) + Len(first)
        /\ Piece(inbox \o first, m, Len(ring))
    BY <1>4, <1>7, <2>1, <2>2, PieceJoin DEF m
  <2>4. inbox' = inbox \o first /\ wire' = rest /\ ring' = ring
    BY <1>2, <1>3 DEF first, rest, loopVars
  <2>5. Len(ring') + Len(inbox') = behind + Len(first)
    <3> DEFINE a == Len(ring)  b == Len(inbox)  c == Len(first)
    <3>1. a \in Nat /\ b \in Nat /\ c \in Nat /\ Len(ring') = a /\ Len(inbox') = b + c
      BY <1>4, <2>2, <2>3, <2>4, LenProperties
    <3>2. behind = a + b
      OBVIOUS
    <3> HIDE DEF a, b, c, behind
    <3>3. Len(ring') + Len(inbox') = behind + c
      BY <3>1, <3>2
    <3> QED
      BY <3>3 DEF c
  <2> HIDE DEF behind
  <2>6. Piece(wire', m, Len(ring') + Len(inbox')) /\ Piece(inbox', m, Len(ring'))
    BY <2>2, <2>3, <2>4, <2>5
  <2> QED
    BY <1>7, <1>8, <2>4, <2>6 DEF OnTheWay, m
<1>9. ASSUME Choked PROVE Choked'
  BY <1>3, <1>9 DEF Choked, loopVars
<1>10. Coming'
  BY <1>3, <1>5, <1>8, <1>9 DEF Coming, LineTaken, loopVars
<1> QED
  BY <1>3, <1>5, <1>6, <1>10 DEF SyncInv, loopVars

\* What was on its way is lost with a reset.
LEMMA SyncGone ==
  ASSUME OneLineEach, Inv, SyncInv, PeerClose \/ PeerReset
  PROVE  SyncInv'
<1>1. Connected
  BY DEF PeerClose, PeerReset
<1>2. UNCHANGED <<loopVars, inbox, sent, served>> /\ (wire' = wire \/ wire' = <<>>)
  BY DEF PeerClose, PeerReset
<1>3. ServedAsSent'
  BY <1>2 DEF SyncInv, ServedAsSent
<1>4. state # "CmdExecPlus" /\ (Idle \/ Coming \/ Taken)
  BY <1>1 DEF SyncInv
<1>5. /\ Len(ring) \in Nat /\ Len(inbox) \in Nat /\ Len(wire) \in Nat
      /\ ring' = ring /\ inbox' = inbox /\ Due' = Due
  BY <1>2, LenProperties DEF Inv, TypeOK, loopVars, Due
<1>6. NothingLeft => NothingLeft'
  BY <1>2 DEF NothingLeft, loopVars
<1>7. ASSUME Coming, OnTheWay PROVE OnTheWay'
  <2>1. Piece(wire', Due, Len(ring) + Len(inbox))
    <3>1. CASE wire' = wire
      BY <1>7, <3>1 DEF OnTheWay
    <3>2. CASE wire' = <<>>
      <4>1. Len(Due) \in Nat
        BY <1>7, DueLine DEF Coming
      <4>2. Len(ring) + Len(inbox) + Len(wire) <= Len(Due)
        BY <1>7 DEF OnTheWay, Piece
      <4>3. Len(wire') = 0
        BY <3>2
      <4>4. Len(ring) + Len(inbox) + Len(wire') <= Len(Due)
        BY <1>5, <4>1, <4>2, <4>3
      <4> QED
        BY <4>3, <4>4 DEF Piece
    <3> QED
      BY <1>2, <3>1, <3>2
  <2> QED
    BY <1>5, <1>7, <2>1 DEF OnTheWay
<1>8. Choked => Choked'
  BY <1>5 DEF Choked
<1>9. LineTaken' <=> LineTaken
  BY <1>2 DEF LineTaken, loopVars
<1>10. Idle' \/ Coming' \/ Taken'
  BY <1>2, <1>4, <1>5, <1>6, <1>7, <1>8, <1>9 DEF Idle, Coming, Taken, loopVars
<1> QED
  BY <1>2, <1>3, <1>4, <1>10 DEF SyncInv, loopVars

LEMMA SyncInit == Init => SyncInv
<1> SUFFICES ASSUME Init PROVE SyncInv
  OBVIOUS
<1>1. state = "CmdWait"
  BY TableRows DEF Init, SessionRows, Row
<1>2. Idle
  BY DEF Init, Idle, LineTaken, NothingLeft
<1>3. ServedAsSent
  BY EmptySeq DEF Init, ServedAsSent
<1> QED
  BY <1>1, <1>2, <1>3 DEF SyncInv

LEMMA SyncStep ==
  ASSUME OneLineEach, ~Pipelined, Inv, SyncInv, [Next]_vars
  PROVE  SyncInv'
<1>1. CASE RecvBytes
  BY <1>1, SyncRecvBytes
<1>2. CASE cliExeCmd
  BY <1>2, SyncExecute
<1>3. CASE RecvEnd \/ cliCleanupCmd \/ TimerExpires
  BY <1>3, SyncOtherTurn
<1>4. CASE cliParseRemaingBuffer
  <2>1. Connected /\ state = "CmdExecPlus"
    BY <1>4, ParseTurn DEF cliParseRemaingBuffer, Dispatch, Connected
  <2> QED
    BY <2>1 DEF SyncInv
<1>5. CASE tcpCmdSrvShutdown
  BY <1>5 DEF tcpCmdSrvShutdown, SyncInv, ServedAsSent, Connected
<1>6. CASE PeerSend
  BY <1>6, SyncSend
<1>7. CASE Arrive
  BY <1>7, SyncArrive
<1>8. CASE PeerClose \/ PeerReset
  BY <1>8, SyncGone
<1>9. CASE UNCHANGED vars
  BY <1>9 DEF vars, loopVars, SyncInv, ServedAsSent, Connected, Idle, Coming, Taken, OnTheWay,
              Choked, NothingLeft, LineTaken, Due
<1> QED
  BY <1>1, <1>2, <1>3, <1>4, <1>5, <1>6, <1>7, <1>8, <1>9 DEF Next, Loop, Peer

LEMMA SyncHolds == OneLineEach /\ ~Pipelined => (Spec => []SyncInv)
<1> SUFFICES ASSUME OneLineEach, ~Pipelined PROVE Spec => []SyncInv
  OBVIOUS
<1>1. Inv /\ SyncInv /\ [Next]_vars => SyncInv'
  BY SyncStep
<1> QED
  BY <1>1, SyncInit, Invariance, PTL DEF Spec

\* Whatever the segmentation of the stream and wherever timeouts fall, the i-th line
\* executed is the i-th line sent (tcpCmdSrv.c:208-239, cli.c:353-408), for every peer
\* that waits for its answers; a line that is too long for the ring is not executed in part.
THEOREM LinesServedAsSent == OneLineEach /\ ~Pipelined => (Spec => []ServedAsSent)
<1>1. SyncInv => ServedAsSent
  BY DEF SyncInv
<1> QED
  BY SyncHolds, <1>1, PTL

\* What ends a session of such a peer: the end of the connection, or a remCmd.
LEMMA ShutdownTurn ==
  ASSUME Inv, SyncInv, tcpCmdSrvShutdown
  PROVE  \/ evtQ = <<"SocketShutdown">>
         \/ evtQ = <<"RemoteCmdStart", "CmdFinished">>
         \/ evtQ = <<>> /\ sock = "rst"
<1>1. PICK e \in NextEvents : /\ e \in EventType
                              /\ row' = RowNo(state, e) /\ row' \in 1..11
                              /\ tcpCmdSrvStateTable[row'].rtn \in {"tcpCmdSrvShutdown"}
  BY DispatchRow DEF tcpCmdSrvShutdown
<1>2. RowNo(state, e) = 11
  BY <1>1, TableColumns DEF NULL
<1>3. Connected /\ alive /\ state # "CmdExecPlus"
  BY DEF tcpCmdSrvShutdown, Dispatch, Connected, SyncInv
<1>4. CASE state = "CmdWait"
  <2>1. evtQ = <<>> /\ evtCnt = 0
    BY <1>3, <1>4, EmptySeq DEF Inv, ControlShape
  <2>2. e \notin {"TimerExpired", "SocketInput"}
    BY <1>2, <1>4 DEF RowNo
  <2>3. sock = "rst"
    BY <1>1, <2>1, <2>2 DEF NextEvents, SocketEvents, Inv, TypeOK
  <2> QED
    BY <2>1, <2>3
<1>5. CASE state = "CmdAssemble"
  <2>1. PICK a \in {"AssembleComplete", "AssembleCompletePlus", "SocketShutdown"} : evtQ = <<a>>
    BY <1>3, <1>5 DEF Inv, ControlShape
  <2>2. e = a
    BY <1>1, <1>3, <2>1, QueuedEvent
  <2> QED
    BY <1>2, <1>5, <2>1, <2>2 DEF RowNo
<1>6. CASE state = "CmdExec"
  <2>1. evtQ \in {<<"CmdFinished">>, <<"RemoteCmdStart", "CmdFinished">>}
    BY <1>3, <1>6 DEF Inv, ControlShape
  <2>2. evtQ = <<"CmdFinished">> => e = "CmdFinished"
    BY <1>1, <1>3, QueuedEvent
  <2> QED
    BY <1>2, <1>6, <2>1, <2>2 DEF RowNo
<1> QED
  BY <1>3, <1>4, <1>5, <1>6 DEF Inv, TypeOK, CmdState

\* The events that end a session are queued when the connection ended, and never for a
\* line that is no remCmd.
CloseInv ==
  /\ NoSpuriousClose
  /\ Connected => /\ evtQ = <<"SocketShutdown">> => sock # "open"
                  /\ evtQ # <<"RemoteCmdStart", "CmdFinished">>

LEMMA CloseStep ==
  ASSUME OneLineEach, NoRemoteCmd, Inv, SyncInv, CloseInv, [Next]_vars
  PROVE  CloseInv'
<1>1. CASE RecvBytes
  <2> DEFINE chunk == FirstN(inbox, MAX_RECV_BUF_SIZE)
             filled == FifoPut(ring, chunk, MAX_RECV_BUF_SIZE)
  <2>1. MAX_RECV_BUF_SIZE \in Nat /\ MAX_RECV_BUF_SIZE \in Int
    BY BoundAssumption
  <2>2. chunk \in Seq(Byte)
    BY <2>1, FirstNProperties DEF Inv, TypeOK
  <2>3. filled \in Seq(Byte)
    BY <2>1, <2>2, FifoPutProperties DEF Inv, TypeOK
  <2>4. AssembleCmdLine(filled, chunk) /\ alive' = alive /\ alive
    BY <1>1 DEF RecvBytes, Dispatch
  <2>5. evtQ = <<>> /\ evtCnt = 0
    BY <1>1, RecvTurn DEF RecvBytes
  <2> HIDE DEF chunk, filled
  <2>6. evtQ' = <<>> \/ \E a \in {"AssembleComplete", "AssembleCompletePlus"} : evtQ' = <<a>>
    BY <2>2, <2>3, <2>4, <2>5, AssembleAfter
  <2> QED
    BY <2>4, <2>6 DEF CloseInv, NoSpuriousClose
<1>2. CASE RecvEnd
  <2>1. Connected /\ alive' = alive /\ alive /\ inbox = <<>> /\ sock' = sock
    BY <1>2 DEF RecvEnd, Dispatch, Connected
  <2>2. evtQ = <<>> /\ evtCnt = 0 /\ state = "CmdWait" /\ row' = 2
    BY <1>2, <2>1, RecvTurn DEF RecvEnd, SyncInv
  <2>3. <<"SocketShutdown">> \in Seq(EventType)
    BY DEF EventType
  <2>4. evtQ' = <<"SocketShutdown">>
    BY <1>2, <2>2, <2>3, QueueAfter DEF RecvEnd
  <2>5. sock # "open"
    <3>1. PICK e \in NextEvents : row' = RowNo(state, e)
      BY <1>2, DispatchRow DEF RecvEnd
    <3>2. e # "TimerExpired"
      BY <2>2, <3>1 DEF RowNo
    <3> QED
      BY <2>1, <2>2, <3>1, <3>2 DEF NextEvents, SocketEvents
  <2> QED
    BY <2>1, <2>4, <2>5 DEF CloseInv, NoSpuriousClose
<1>3. CASE cliExeCmd
  <2>1. Connected /\ alive' = alive /\ alive
    BY <1>3 DEF cliExeCmd, Dispatch, Connected
  <2>2. evtCnt = 1 /\ \E a \in {"AssembleComplete", "AssembleCompletePlus"} : evtQ = <<a>>
    BY <1>3, ExecuteTurn DEF cliExeCmd
  <2>3. LineTaken
    BY <2>2 DEF LineTaken
  <2>4. Taken
    BY <2>1, <2>3 DEF SyncInv, Idle, Coming
  <2>5. ~StartsWith(recvBuf, RemWord)
    BY <2>4, DueLine DEF Taken, NoRemoteCmd
  <2>6. Queue(<<"CmdFinished">>)
    BY <1>3, <2>5 DEF cliExeCmd
  <2>7. <<"CmdFinished">> \in Seq(EventType)
    BY DEF EventType
  <2>8. evtQ' = <<"CmdFinished">>
    BY <2>2, <2>6, <2>7, QueueAfter
  <2> QED
    BY <2>1, <2>8 DEF CloseInv, NoSpuriousClose
<1>4. CASE cliCleanupCmd
  <2>1. alive' = alive /\ alive
    BY <1>4 DEF cliCleanupCmd, Dispatch
  <2>2. \/ evtQ = <<>> /\ evtCnt = 0
        \/ evtQ = <<"CmdFinished">> /\ evtCnt = 1
    BY <1>4, CleanupTurn DEF cliCleanupCmd
  <2>3. evtQ' = <<>>
    BY <1>4, <2>2, QueueAfter, EmptySeq DEF cliCleanupCmd
  <2> QED
    BY <2>1, <2>3 DEF CloseInv, NoSpuriousClose
<1>5. CASE cliParseRemaingBuffer
  <2>1. Connected /\ state = "CmdExecPlus"
    BY <1>5, ParseTurn DEF cliParseRemaingBuffer, Dispatch, Connected
  <2> QED
    BY <2>1 DEF SyncInv
<1>6. CASE tcpCmdSrvShutdown
  <2>1. Connected /\ alive' = FALSE /\ sock' = sock
    BY <1>6 DEF tcpCmdSrvShutdown, Dispatch, Connected
  <2>2. sock # "open"
    BY <1>6, <2>1, ShutdownTurn DEF CloseInv
  <2> QED
    BY <2>1, <2>2 DEF CloseInv, NoSpuriousClose, Connected
<1>7. CASE TimerExpires
  BY <1>7 DEF TimerExpires, CloseInv, NoSpuriousClose, Connected
<1>8. CASE Peer
  <2>1. UNCHANGED loopVars /\ (sock # "open" => sock' # "open")
    BY <1>8 DEF Peer, PeerSend, Arrive, PeerClose, PeerReset
  <2> QED
    BY <2>1 DEF loopVars, CloseInv, NoSpuriousClose, Connected
<1>9. CASE UNCHANGED vars
  BY <1>9 DEF vars, loopVars, CloseInv, NoSpuriousClose, Connected
<1> QED
  BY <1>1, <1>2, <1>3, <1>4, <1>5, <1>6, <1>7, <1>8, <1>9 DEF Next, Loop

\* A session ends when its connection does and not before: the wildcard row, which ends
\* it on any event the state has no row for (stateMachine.c:56-57), is not met.
THEOREM ClosedWhenGone ==
  OneLineEach /\ NoRemoteCmd /\ ~Pipelined => (Spec => []NoSpuriousClose)
<1> SUFFICES ASSUME OneLineEach, NoRemoteCmd, ~Pipelined PROVE Spec => []NoSpuriousClose
  OBVIOUS
<1>1. Init => CloseInv
  BY DEF Init, CloseInv, NoSpuriousClose
<1>2. Inv /\ SyncInv /\ CloseInv /\ [Next]_vars => CloseInv'
  BY CloseStep
<1>3. Spec => []SyncInv
  BY SyncHolds
<1>4. CloseInv => NoSpuriousClose
  BY DEF CloseInv
<1> QED
  BY <1>1, <1>2, <1>3, <1>4, Invariance, PTL DEF Spec

-----------------------------------------------------------------------------
(* A session implements CmdService: each turn of the loop is a step of the service or *)
(* leaves it alone.                                                                   *)

LEMMA InitStart == Init => Promise!Start
<1> SUFFICES ASSUME Init PROVE Promise!Start
  OBVIOUS
<1>1. Stage = "ready"
  BY DEF Init, Stage, LineTaken
<1> QED
  BY <1>1 DEF Init, TakenLine, Promise!Start

\* A turn that tries to assemble a line takes one, or does nothing, or dies of the
\* error message it writes.
LEMMA AssembleStep ==
  ASSUME proc = "running", alive, alive', Stage = "ready", TakenLine = <<>>,
         served' = served, recvBuf' \in Seq(Byte), proc' \in {"running", "killed"},
         \/ /\ \E a \in {"AssembleComplete", "AssembleCompletePlus"} : evtQ' = <<a>>
            /\ proc' = proc
         \/ evtQ' = <<>>
  PROVE  [Promise!Step]_(Promise!svcVars)
<1>1. CASE \E a \in {"AssembleComplete", "AssembleCompletePlus"} : evtQ' = <<a>> /\ proc' = proc
  <2>1. Stage' = "taken" /\ TakenLine' = recvBuf'
    BY <1>1 DEF Stage, LineTaken, TakenLine
  <2> QED
    BY <2>1 DEF Promise!Step, Promise!Take
<1>2. CASE evtQ' = <<>> /\ proc' = "running"
  <2>1. Stage' = "ready" /\ TakenLine' = <<>>
    BY <1>2 DEF Stage, LineTaken, TakenLine
  <2> QED
    BY <2>1 DEF Promise!svcVars
<1>3. CASE proc' = "killed"
  <2>1. Stage' = "closed" /\ TakenLine' = <<>>
    BY <1>3 DEF Stage, TakenLine
  <2> QED
    BY <2>1 DEF Promise!Step, Promise!Close
<1> QED
  BY <1>1, <1>2, <1>3

LEMMA RecvBytesStep == Inv /\ RecvBytes => [Promise!Step]_(Promise!svcVars)
<1> SUFFICES ASSUME Inv, RecvBytes PROVE [Promise!Step]_(Promise!svcVars)
  OBVIOUS
<1> DEFINE chunk == FirstN(inbox, MAX_RECV_BUF_SIZE)
           filled == FifoPut(ring, chunk, MAX_RECV_BUF_SIZE)
<1>1. evtQ = <<>> /\ evtCnt = 0
  BY RecvTurn DEF RecvBytes
<1>2. MAX_RECV_BUF_SIZE \in Nat /\ MAX_RECV_BUF_SIZE \in Int
  BY BoundAssumption
<1>3. chunk \in Seq(Byte)
  BY <1>2, FirstNProperties DEF Inv, TypeOK
<1>4. filled \in Seq(Byte)
  BY <1>2, <1>3, FifoPutProperties DEF Inv, TypeOK
<1>5. AssembleCmdLine(filled, chunk)
  BY DEF RecvBytes
<1>6. proc = "running" /\ alive /\ alive' /\ served' = served
  BY DEF RecvBytes, Dispatch
<1> HIDE DEF chunk, filled
<1>7. /\ recvBuf' \in Seq(Byte) /\ proc' \in {"running", "killed"}
      /\ \/ /\ \E a \in {"AssembleComplete", "AssembleCompletePlus"} : evtQ' = <<a>>
            /\ proc' = proc
         \/ evtQ' = <<>>
  BY <1>1, <1>3, <1>4, <1>5, AssembleAfter
<1>8. Stage = "ready" /\ TakenLine = <<>>
  BY <1>1, <1>6 DEF Stage, LineTaken, TakenLine
<1> QED
  BY <1>6, <1>7, <1>8, AssembleStep

LEMMA ParseStep == Inv /\ cliParseRemaingBuffer => [Promise!Step]_(Promise!svcVars)
<1> SUFFICES ASSUME Inv, cliParseRemaingBuffer PROVE [Promise!Step]_(Promise!svcVars)
  OBVIOUS
<1>1. evtQ = <<"CmdFinished">> /\ evtCnt = 1
  BY ParseTurn DEF cliParseRemaingBuffer
<1>2. ring \in Seq(Byte) /\ recvBuf \in Seq(Byte) /\ AssembleCmdLine(ring, recvBuf)
  BY DEF Inv, TypeOK, cliParseRemaingBuffer
<1>3. proc = "running" /\ alive /\ alive' /\ served' = served
  BY DEF cliParseRemaingBuffer, Dispatch
<1>4. /\ recvBuf' \in Seq(Byte) /\ proc' \in {"running", "killed"}
      /\ \/ /\ \E a \in {"AssembleComplete", "AssembleCompletePlus"} : evtQ' = <<a>>
            /\ proc' = proc
         \/ evtQ' = <<>>
  BY <1>1, <1>2, AssembleAfter
<1>5. Stage = "ready" /\ TakenLine = <<>>
  BY <1>1, <1>3 DEF Stage, LineTaken, TakenLine
<1> QED
  BY <1>3, <1>4, <1>5, AssembleStep

LEMMA ExecuteStep == Inv /\ cliExeCmd => Promise!Execute
<1> SUFFICES ASSUME Inv, cliExeCmd PROVE Promise!Execute
  OBVIOUS
<1>1. /\ evtCnt = 1
      /\ \E a \in {"AssembleComplete", "AssembleCompletePlus"} : evtQ = <<a>>
  BY ExecuteTurn DEF cliExeCmd
<1>2. PICK added \in {<<"CmdFinished">>, <<"RemoteCmdStart", "CmdFinished">>} : Queue(added)
  BY DEF cliExeCmd
<1>3. added \in Seq(EventType)
  <2>1. <<"CmdFinished">> \in Seq(EventType)
    BY DEF EventType
  <2>2. <<"RemoteCmdStart", "CmdFinished">> \in Seq(EventType)
    BY DEF EventType
  <2> QED
    BY <1>2, <2>1, <2>2
<1>4. evtQ' = added
  BY <1>1, <1>2, <1>3, QueueAfter
<1>5. proc = "running" /\ alive /\ alive'
  BY DEF cliExeCmd, Dispatch
<1>6. Stage = "taken" /\ TakenLine = recvBuf
  BY <1>1, <1>5 DEF Stage, LineTaken, TakenLine
<1>7. Stage' \in {"ready", "closed"} /\ TakenLine' = <<>>
  BY <1>2, <1>4 DEF Stage, LineTaken, TakenLine
<1>8. served' = Append(served, [line |-> recvBuf, ok |-> parseCmd(recvBuf)])
  BY DEF cliExeCmd
<1> QED
  BY <1>6, <1>7, <1>8 DEF Promise!Execute

\* The session ends: between two lines, or, when the peer sends ahead, with a line
\* that was assembled but finds no row in CmdExecPlus.
LEMMA ShutdownStep ==
  ASSUME Inv, tcpCmdSrvShutdown, Pipelined \/ SyncInv
  PROVE  Promise!Close
<1>1. Stage \in {"ready", "taken"}
  BY DEF tcpCmdSrvShutdown, Dispatch, Stage
<1>2. Stage' = "closed" /\ TakenLine' = <<>> /\ served' = served
  BY DEF tcpCmdSrvShutdown, Stage, TakenLine
<1>3. Pipelined \/ Stage = "ready"
  <2> SUFFICES ASSUME SyncInv PROVE ~LineTaken
    BY <1>1 DEF Stage
  <2> QED
    BY ShutdownTurn DEF LineTaken
<1> QED
  BY <1>1, <1>2, <1>3 DEF Promise!Close

\* The other steps are not seen by the peer.
LEMMA SilentStep ==
  ASSUME Inv, RecvEnd \/ cliCleanupCmd \/ TimerExpires \/ Peer \/ UNCHANGED vars
  PROVE  UNCHANGED Promise!svcVars
<1>1. ASSUME UNCHANGED <<proc, alive, evtQ, recvBuf, served>>
      PROVE  UNCHANGED Promise!svcVars
  BY <1>1 DEF Promise!svcVars, Stage, LineTaken, TakenLine
<1>2. CASE RecvEnd
  <2>1. evtQ = <<>> /\ evtCnt = 0
    BY <1>2, RecvTurn DEF RecvEnd
  <2>2. <<"SocketShutdown">> \in Seq(EventType)
    BY DEF EventType
  <2>3. evtQ' = <<"SocketShutdown">>
    BY <1>2, <2>1, <2>2, QueueAfter DEF RecvEnd
  <2>4. UNCHANGED <<proc, alive, served>>
    BY <1>2 DEF RecvEnd
  <2> QED
    BY <2>1, <2>3, <2>4 DEF Promise!svcVars, Stage, LineTaken, TakenLine
<1>3. CASE cliCleanupCmd
  <2>1. \/ evtQ = <<>> /\ evtCnt = 0
        \/ evtQ = <<"CmdFinished">> /\ evtCnt = 1
    BY <1>3, CleanupTurn DEF cliCleanupCmd
  <2>2. evtQ' = <<>>
    BY <1>3, <2>1, QueueAfter, EmptySeq DEF cliCleanupCmd
  <2>3. UNCHANGED <<proc, alive, served>>
    BY <1>3 DEF cliCleanupCmd
  <2> QED
    BY <2>1, <2>2, <2>3 DEF Promise!svcVars, Stage, LineTaken, TakenLine
<1>4. CASE TimerExpires
  BY <1>1, <1>4 DEF TimerExpires
<1>5. CASE Peer
  BY <1>1, <1>5 DEF Peer, PeerSend, Arrive, PeerClose, PeerReset, loopVars
<1>6. CASE UNCHANGED vars
  BY <1>1, <1>6 DEF vars, loopVars
<1> QED
  BY <1>2, <1>3, <1>4, <1>5, <1>6

LEMMA NextStep ==
  ASSUME Inv, [Next]_vars, Pipelined \/ SyncInv
  PROVE  [Promise!Step]_(Promise!svcVars)
<1>1. CASE RecvBytes
  BY <1>1, RecvBytesStep
<1>2. CASE cliExeCmd
  BY <1>2, ExecuteStep DEF Promise!Step
<1>3. CASE cliParseRemaingBuffer
  BY <1>3, ParseStep
<1>4. CASE tcpCmdSrvShutdown
  BY <1>4, ShutdownStep DEF Promise!Step
<1>5. CASE RecvEnd \/ cliCleanupCmd \/ TimerExpires \/ Peer \/ UNCHANGED vars
  BY <1>5, SilentStep
<1> QED
  BY <1>1, <1>2, <1>3, <1>4, <1>5 DEF Next, Loop

\* Every line a session takes is executed at most once, as it was taken and before
\* the next one is taken, and nothing is executed after the end.  A peer that waits for
\* its answers has every line that was taken executed.
THEOREM SessionIsService == Pipelined \/ OneLineEach => (Spec => ImplementsService)
<1>1. Init => Promise!Start
  BY InitStart
<1>2. CASE Pipelined
  <2>1. Inv /\ [Next]_vars => [Promise!Step]_(Promise!svcVars)
    BY <1>2, NextStep
  <2> QED
    BY <1>1, <2>1, Invariance, PTL DEF Spec, ImplementsService, Promise!Service
<1>3. CASE OneLineEach /\ ~Pipelined
  <2>1. Inv /\ SyncInv /\ [Next]_vars => [Promise!Step]_(Promise!svcVars)
    BY NextStep
  <2>2. Spec => []SyncInv
    BY <1>3, SyncHolds
  <2> QED
    BY <1>1, <2>1, <2>2, Invariance, PTL DEF Spec, ImplementsService, Promise!Service
<1> QED
  BY <1>2, <1>3
=============================================================================
