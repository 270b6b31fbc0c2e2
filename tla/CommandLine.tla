---------------------------- MODULE CommandLine ----------------------------
(***************************************************************************)
(* The command interpreter of the process (cli.c) at the level of words:   *)
(* the words of an assembled line, the commands and their arguments, the   *)
(* verdict, and what is written back.  Every command device runs it: the   *)
(* sessions (tcpCmdSrv.c) and the serial device (serialCmdSrv.c).  Each    *)
(* has its own argPtrs, which outlive a line; the log level (utils.c) is   *)
(* one for all of them.                                                    *)
(*                                                                         *)
(* CmdSession has the bytes, events and timers of a session; here a device *)
(* takes a line, executes it, or ends.  Input comes in whole lines that    *)
(* end in CR LF, or as a piece without a CR.  Left out: what the printing  *)
(* commands write besides the verdict, and lines of more words than        *)
(* MAX_ARGS.                                                               *)
(***************************************************************************)
EXTENDS Integers, Sequences, FiniteSets, Fifo

CONSTANTS
  Session,          \* the tcpCmdSrv devices
  Serial,           \* the serial device
  Word,             \* the words there are
  LineFeed,         \* the words that start with '\n'
  NamedBy(_),       \* the command whose name a word starts with, or NULL
  atoi(_),          \* the number a word starts with, 0 when there is none
  Chunk,            \* what arrives at once: the lines in it, none in a piece
  MaxLines          \* bound: the lines a device executes and the
                    \* answers it gets before it is given more

Device == Session \cup {Serial}
NULL == "NULL"

LOG_LVL_DBG == 1
LOG_LVL_NORMAL == 2
LOG_LVL_ALWAYS == 5

MAX_ARGS == 10
Line == UNION {{c[i] : i \in 1..Len(c)} : c \in Chunk}

\* The commands by name, with the number of arguments each takes.
cmdArray == [test |-> 2, prtdevs |-> 0, help |-> 0, prtfds |-> 0, prtnodes |-> 0,
             setloglvl |-> 1, pingReq |-> 0, prtStats |-> 0, remCmd |-> 2]

ASSUME DeviceAssumption == Serial \notin Session /\ MaxLines \in Nat
ASSUME WordAssumption ==
  /\ NULL \notin Word
  /\ \A w \in Word : NamedBy(w) \in DOMAIN cmdArray \cup {NULL} /\ atoi(w) \in Int
ASSUME LineAssumption ==
  /\ Chunk \subseteq Seq(Seq(Word))
  /\ \A c \in Chunk : \A i \in 1..Len(c) : Len(c[i]) <= MAX_ARGS

VARIABLES
  logLvl,           \* logLvl_g
  stage,            \* per device: "ready", "taken" (a line is in recvBuf) or "closed"
  line,             \* per device: the line in recvBuf
  ring,             \* per device: the lines left in rngId
  named,            \* per device: argPtrs[0] was set by some line
  replies,          \* per device: what was written to it
  log               \* history, per device: the lines executed, with their verdict

clVars == <<logLvl, stage, line, ring, named, replies, log>>

-----------------------------------------------------------------------------
(* cli.c and utils.c *)

\* Mutant: a message at the level itself is not written.
WrittenAbove(text, lvl, at) == IF lvl > at THEN <<text>> ELSE <<>>

\* logmsg: a message is written when its level is not below the one there is.
Written(text, lvl, at) == IF lvl >= at THEN <<text>> ELSE <<>>

\* parseCmd: the words strtok_r finds, but for the ones that start with '\n', are put
\* into argPtrs, in their order.
Kept(l) == {i \in 1..Len(l) : l[i] \notin LineFeed}
argPtr(l, k) == l[CHOOSE i \in Kept(l) : Cardinality({j \in Kept(l) : j < i}) = k]

\* Mutant: the count of a line without a word is 0.
argCountFromZero(l) == IF Kept(l) = {} THEN 0 ELSE Cardinality(Kept(l)) - 1

\* "minus 1 for cmd name"
argCount(l) == Cardinality(Kept(l)) - 1

\* What argPtrs[0] points at.  Without a word in the line it is NULL, or it points into
\* recvBuf where an earlier line had its first word, at what is there now.
Name(d) ==
  IF Kept(line[d]) # {} THEN {argPtr(line[d], 0)}
  ELSE IF named[d] THEN Word ELSE {NULL}

\* assembleCmdLine on a ring that holds the lines r.  When there is none, main()
\* writes the failure.
assembleCmdLine(d, r) ==
  \/ /\ r # <<>>
     /\ stage' = [stage EXCEPT ![d] = "taken"]
     /\ line' = [line EXCEPT ![d] = Head(r)]
     /\ ring' = [ring EXCEPT ![d] = Tail(r)]
     /\ UNCHANGED replies
  \/ /\ r = <<>>
     /\ replies' = [replies EXCEPT ![d] = @ \o Written("FAIL", LOG_LVL_ALWAYS, logLvl)]
     /\ UNCHANGED <<stage, line, ring>>

\* Mutant: the levels are counted from 0.
LevelOfFromZero(w) == atoi(w) - 1

\* setLogLvl
LevelOf(w) == atoi(w)

\* cliExeCmd: the command is done at the level it finds, the verdict is written at the
\* level it leaves.  remCmd ends a session when it finds the node's client (CmdSession).
cliExeCmd(d) ==
  /\ stage[d] = "taken"
  /\ \E name \in Name(d) :
       LET cmd == IF name = NULL THEN NULL ELSE NamedBy(name)
           ok == cmd # NULL /\ argCount(line[d]) = cmdArray[cmd]
           pong == IF ok /\ cmd = "pingReq" THEN Written("pong", LOG_LVL_NORMAL, logLvl) ELSE <<>>
           verdict == Written(IF ok THEN "OK" ELSE "FAILED", LOG_LVL_ALWAYS, logLvl')
       IN  /\ logLvl' = IF ok /\ cmd = "setloglvl" THEN LevelOf(argPtr(line[d], 1)) ELSE logLvl
           /\ replies' = [replies EXCEPT ![d] = @ \o pong \o verdict]
           /\ log' = [log EXCEPT ![d] = Append(@, [line |-> line[d], ok |-> ok])]
           /\ \E next \in {"ready"} \cup (IF ok /\ cmd = "remCmd" THEN {"closed"} ELSE {}) :
                stage' = [stage EXCEPT ![d] = next]
  /\ named' = [named EXCEPT ![d] = @ \/ Kept(line[d]) # {}]
  /\ line' = [line EXCEPT ![d] = <<>>]
  /\ UNCHANGED ring

\* After a line that was not the last in the ring.
cliParseRemaingBuffer(d) ==
  /\ stage[d] = "ready" /\ ring[d] # <<>>
  /\ assembleCmdLine(d, ring[d])
  /\ UNCHANGED <<logLvl, named, log>>

-----------------------------------------------------------------------------
(* The devices *)

Goes(d) == stage[d] = "ready" /\ Len(log[d]) < MaxLines /\ Len(replies[d]) < MaxLines

\* tcpCmdSrvInput
tcpCmdSrvInput(d, chunk) ==
  /\ d \in Session /\ Goes(d) /\ ring[d] = <<>>
  /\ assembleCmdLine(d, chunk)
  /\ UNCHANGED <<logLvl, named, log>>

\* serialInput: all that has come is read into recvBuf, and nothing of it into the ring.
serialInput(d, chunk) ==
  /\ d = Serial /\ Goes(d)
  /\ assembleCmdLine(d, ring[d])
  /\ UNCHANGED <<logLvl, named, log>>

Input(d, chunk) == tcpCmdSrvInput(d, chunk) \/ serialInput(d, chunk)

\* tcpCmdSrvShutdown: the peer has gone, or the wildcard row matched.  What it set the
\* log level to stays.
tcpCmdSrvShutdown(d) ==
  /\ d \in Session /\ stage[d] # "closed"
  /\ stage' = [stage EXCEPT ![d] = "closed"]
  /\ line' = [line EXCEPT ![d] = <<>>]
  /\ UNCHANGED <<logLvl, ring, named, replies, log>>

\* Every device is calloc()ed.
Init ==
  /\ logLvl = LOG_LVL_DBG
  /\ stage = [d \in Device |-> "ready"]
  /\ line = [d \in Device |-> <<>>] /\ ring = [d \in Device |-> <<>>]
  /\ named = [d \in Device |-> FALSE]
  /\ replies = [d \in Device |-> <<>>] /\ log = [d \in Device |-> <<>>]

Next == \E d \in Device :
          \/ \E chunk \in Chunk : Input(d, chunk)
          \/ cliExeCmd(d) \/ cliParseRemaingBuffer(d) \/ tcpCmdSrvShutdown(d)

Spec == Init /\ [][Next]_clVars

-----------------------------------------------------------------------------
(* Properties *)

TypeOK ==
  /\ logLvl \in {LOG_LVL_DBG} \cup {atoi(w) : w \in Word}
  /\ stage \in [Device -> {"ready", "taken", "closed"}]
  /\ line \in [Device -> Line \cup {<<>>}]
  /\ ring \in [Device -> Seq(Line)]
  /\ named \in [Device -> BOOLEAN]
  /\ replies \in [Device -> Seq({"pong", "OK", "FAILED", "FAIL"})]
  /\ log \in [Device -> Seq([line : Line, ok : BOOLEAN])]

\* What a line says, by itself: its first word names a command and the words that
\* follow are as many as that command takes.
Means(l) ==
  /\ Kept(l) # {}
  /\ NamedBy(argPtr(l, 0)) # NULL
  /\ Cardinality(Kept(l)) = 1 + cmdArray[NamedBy(argPtr(l, 0))]

\* Every device keeps the promise of CmdService with that verdict: what earlier lines
\* left in argPtrs and recvBuf, or what other devices execute in between, does not
\* decide what a line does (cli.c:172-206).
Promise(d) == INSTANCE CmdService WITH
  Line <- Line, Verdict <- Means, Lossy <- TRUE,
  stage <- stage[d], line <- line[d], log <- log[d]

VerdictOfLine ==
  /\ \A d \in Device : Promise(d)!Start
  /\ [][\A d \in Device : Promise(d)!Step \/ UNCHANGED <<stage[d], line[d], log[d]>>]_clVars

\* The verdicts among the replies of a device.
Verdicts(r) == Sublist(r, {i \in 1..Len(r) : r[i] \in {"OK", "FAILED"}})

\* A line of this device has set the level above the one of the verdicts.
Silences(d) ==
  \E i \in 1..Len(log[d]) :
    LET l == log[d][i].line
    IN  Means(l) /\ NamedBy(argPtr(l, 0)) = "setloglvl" /\ atoi(argPtr(l, 1)) > LOG_LVL_ALWAYS

\* A device is told the verdict of each of its lines, in their order and once, unless a
\* line of this or of any other device, one that may be gone by now, has set the log
\* level above LOG_LVL_ALWAYS (cli.c:305-321, utils.c:21-35).
AnsweredUnlessSilenced ==
  (~\E d \in Device : Silences(d)) =>
    \A d \in Device :
      Verdicts(replies[d]) = [i \in 1..Len(log[d]) |-> IF log[d][i].ok THEN "OK" ELSE "FAILED"]

-----------------------------------------------------------------------------
(* What a comment says and the code does not do *)

\* cli.c:350-352, of assembleCmdLine, which serialInput calls for what it read: "look
\* for the line terminator. If found then queue a command line complete event."
TerminatorCompletes ==
  [][\A d \in Device, chunk \in Chunk :
       Input(d, chunk) /\ chunk # <<>> => stage'[d] = "taken"]_clVars
=============================================================================
