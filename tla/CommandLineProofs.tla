-------------------------- MODULE CommandLineProofs --------------------------
(***************************************************************************)
(* What a line does is decided by its words alone, for every set of        *)
(* sessions, words and lines: the commands before it, whose pointers stay  *)
(* in argPtrs, and the other devices have no part in it.  Whether its      *)
(* verdict is written is decided by the one log level they share.          *)
(***************************************************************************)
EXTENDS CommandLine, FifoTheorems, FiniteSetTheorems

USE DEF Device, NULL

Record == [line : Line, ok : BOOLEAN]

Inv ==
  /\ stage \in [Device -> {"ready", "taken", "closed"}]
  /\ line \in [Device -> Line \cup {<<>>}]
  /\ ring \in [Device -> Seq(Line)]
  /\ log \in [Device -> Seq(Record)]
  /\ \A d \in Device : stage[d] = "taken" => line[d] \in Line

-----------------------------------------------------------------------------
(* Counting the words of a line *)

LEMMA KeptFinite ==
  ASSUME NEW l \in Seq(Word)
  PROVE  IsFiniteSet(Kept(l)) /\ Cardinality(Kept(l)) \in Nat
<1>1. IsFiniteSet(1..Len(l))
  BY FS_Interval, Len(l) \in Int, 1 \in Int
<1>2. Kept(l) \subseteq 1..Len(l)
  BY DEF Kept
<1> QED
  BY <1>1, <1>2, FS_Subset, FS_CardinalityType

\* A line without a word has one word less than a command without arguments.
LEMMA EmptyCount ==
  ASSUME NEW l, Kept(l) = {}
  PROVE  argCount(l) = -1
<1>1. Cardinality({}) = 0
  BY FS_EmptySet
<1> QED
  BY <1>1 DEF argCount

LEMMA ArgumentsOfCommand ==
  ASSUME NEW c \in DOMAIN cmdArray
  PROVE  cmdArray[c] \in Nat
BY DEF cmdArray

LEMMA LineWords == Line \subseteq Seq(Word)
BY LineAssumption DEF Line

LEMMA ChunkLines ==
  ASSUME NEW chunk \in Chunk
  PROVE  chunk \in Seq(Line)
<1>1. chunk \in Seq(Seq(Word))
  BY LineAssumption
<1>2. \A i \in 1..Len(chunk) : chunk[i] \in Line
  BY DEF Line
<1> QED
  BY <1>1, <1>2, LenProperties, ElementOfSeq, SeqDef

\* The first word that is kept is a word.
LEMMA FirstWord ==
  ASSUME NEW l \in Seq(Word), Kept(l) # {}
  PROVE  argPtr(l, 0) \in Word
<1> DEFINE before(i) == {j \in Kept(l) : j < i}
<1>1. Kept(l) \subseteq 1..Len(l) /\ Kept(l) \subseteq Nat
  BY DEF Kept
<1>2. PICK i \in Kept(l) : \A j \in Kept(l) : i <= j
  BY <1>1, LeastPosition
<1>3. before(i) = {}
  BY <1>1, <1>2
<1>4. Cardinality(before(i)) = 0
  BY <1>3, FS_EmptySet
<1> DEFINE least == CHOOSE k \in Kept(l) : Cardinality(before(k)) = 0
<1>5. least \in Kept(l)
  BY <1>2, <1>4, Zenon
<1>6. argPtr(l, 0) = l[least]
  BY Zenon DEF argPtr
<1> HIDE DEF least
<1> QED
  BY <1>1, <1>5, <1>6

\* Of two words that are kept, the second is a word.
LEMMA SecondWord ==
  ASSUME NEW l \in Seq(Word), Cardinality(Kept(l)) = 2
  PROVE  argPtr(l, 1) \in Word
<1> DEFINE before(i) == {j \in Kept(l) : j < i}
           others(i) == Kept(l) \ {i}
<1>1. Kept(l) \subseteq 1..Len(l) /\ Kept(l) \subseteq Nat /\ IsFiniteSet(Kept(l))
  BY KeptFinite DEF Kept
<1>2. Kept(l) # {}
  <2>1. Cardinality(Kept(l)) # 0
    OBVIOUS
  <2> QED
    BY <1>1, <2>1, FS_EmptySet, Zenon
<1>3. PICK i \in Kept(l) : \A j \in Kept(l) : i <= j
  BY <1>1, <1>2, LeastPosition
<1>4. others(i) # {}
  <2>1. Cardinality(others(i)) = Cardinality(Kept(l)) - 1
    BY <1>1, FS_RemoveElement
  <2>2. IsFiniteSet(others(i)) /\ Cardinality(others(i)) # 0
    BY <1>1, <2>1, FS_RemoveElement
  <2> QED
    BY <2>2, FS_EmptySet, Zenon
<1>5. PICK k \in others(i) : \A j \in others(i) : k <= j
  <2>1. others(i) \subseteq Nat
    BY <1>1
  <2> HIDE DEF others
  <2> QED
    BY <1>4, <2>1, LeastPosition
<1>6. before(k) = {i} /\ k \in Kept(l)
  BY <1>1, <1>3, <1>5
<1>7. Cardinality(before(k)) = 1
  BY <1>6, FS_Singleton
<1> DEFINE second == CHOOSE m \in Kept(l) : Cardinality(before(m)) = 1
<1>8. second \in Kept(l)
  BY <1>6, <1>7, Zenon
<1>9. argPtr(l, 1) = l[second]
  BY Zenon DEF argPtr
<1> HIDE DEF second
<1> QED
  BY <1>1, <1>8, <1>9

\* The verdict of cliExeCmd, whatever argPtrs[0] points at: with a word in the line
\* it is the line's own, without one the count fails every command.
LEMMA VerdictMeans ==
  ASSUME NEW l \in Line, NEW name,
         IF Kept(l) # {} THEN name = argPtr(l, 0) ELSE name \in Word \cup {NULL},
         NEW cmd, cmd = IF name = NULL THEN NULL ELSE NamedBy(name)
  PROVE  (cmd # NULL /\ argCount(l) = cmdArray[cmd]) <=> Means(l)
<1>1. l \in Seq(Word)
  BY LineWords
<1>2. cmd \in DOMAIN cmdArray \cup {NULL}
  BY <1>1, FirstWord, WordAssumption
<1>3. cmd # NULL => cmdArray[cmd] \in Nat
  BY <1>2, ArgumentsOfCommand
<1>4. CASE Kept(l) = {}
  <2>1. argCount(l) = -1
    BY <1>4, EmptyCount
  <2> QED
    BY <1>3, <1>4, <2>1 DEF Means
<1>5. CASE Kept(l) # {}
  <2>1. name = argPtr(l, 0) /\ name # NULL /\ cmd = NamedBy(argPtr(l, 0))
    BY <1>1, <1>5, FirstWord, WordAssumption
  <2>2. Cardinality(Kept(l)) \in Nat
    BY <1>1, KeptFinite
  <2>3. argCount(l) = Cardinality(Kept(l)) - 1
    BY DEF argCount
  <2> QED
    BY <1>3, <1>5, <2>1, <2>2, <2>3 DEF Means
<1> QED
  BY <1>4, <1>5

-----------------------------------------------------------------------------
(* The invariant, and the step of CmdService each action is *)

Mapped(d) == <<stage[d], line[d], log[d]>>
KeepsPromise == \A d \in Device : Promise(d)!Step \/ UNCHANGED Mapped(d)

\* Input and the rest of a buffer take a line for one device, or none.
LEMMA Assemble ==
  ASSUME Inv, NEW d \in Device, stage[d] = "ready", NEW r \in Seq(Line),
         assembleCmdLine(d, r), log' = log
  PROVE  Inv' /\ KeepsPromise
<1>1. CASE /\ r # <<>>
           /\ stage' = [stage EXCEPT ![d] = "taken"]
           /\ line' = [line EXCEPT ![d] = Head(r)]
           /\ ring' = [ring EXCEPT ![d] = Tail(r)]
  <2>1. Head(r) \in Line /\ Tail(r) \in Seq(Line)
    BY <1>1, HeadTailProperties
  <2>2. Inv'
    BY <1>1, <2>1 DEF Inv
  <2>3. Promise(d)!Take
    BY <1>1, <2>1 DEF Inv, Promise!Take
  <2>4. \A e \in Device : e # d => UNCHANGED Mapped(e)
    BY <1>1 DEF Inv, Mapped
  <2> QED
    BY <2>2, <2>3, <2>4 DEF KeepsPromise, Promise!Step
<1>2. CASE r = <<>> /\ UNCHANGED <<stage, line, ring>>
  BY <1>2 DEF Inv, KeepsPromise, Mapped
<1> QED
  BY <1>1, <1>2 DEF assembleCmdLine

LEMMA Execute ==
  ASSUME Inv, NEW d \in Device, cliExeCmd(d)
  PROVE  Inv' /\ KeepsPromise
<1>1. line[d] \in Line /\ stage[d] = "taken"
  BY DEF Inv, cliExeCmd
<1>2. PICK name \in Name(d), next \in {"ready", "closed"} :
        LET cmd == IF name = NULL THEN NULL ELSE NamedBy(name)
            ok == cmd # NULL /\ argCount(line[d]) = cmdArray[cmd]
        IN  /\ log' = [log EXCEPT ![d] = Append(@, [line |-> line[d], ok |-> ok])]
            /\ stage' = [stage EXCEPT ![d] = next]
  BY DEF cliExeCmd
<1> DEFINE cmd == IF name = NULL THEN NULL ELSE NamedBy(name)
           ok == cmd # NULL /\ argCount(line[d]) = cmdArray[cmd]
           record == [line |-> line[d], ok |-> Means(line[d])]
<1>3. IF Kept(line[d]) # {} THEN name = argPtr(line[d], 0) ELSE name \in Word \cup {NULL}
  BY DEF Name
<1>4. ok <=> Means(line[d])
  BY <1>1, <1>3, VerdictMeans
<1>5. ok = Means(line[d]) /\ Means(line[d]) \in BOOLEAN
  BY <1>4 DEF Means
<1>6. log' = [log EXCEPT ![d] = Append(@, record)] /\ stage' = [stage EXCEPT ![d] = next]
  BY <1>2, <1>5
<1>7. line' = [line EXCEPT ![d] = <<>>] /\ ring' = ring
  BY DEF cliExeCmd
<1>8. record \in Record
  BY <1>1, <1>5 DEF Record
<1> HIDE DEF record, ok, cmd
<1>9. Append(log[d], record) \in Seq(Record)
  BY <1>8, AppendProperties DEF Inv
<1>10. Inv'
  BY <1>6, <1>7, <1>9 DEF Inv
<1>11. Promise(d)!Execute
  BY <1>1, <1>6, <1>7 DEF Inv, Promise!Execute, record
<1>12. \A e \in Device : e # d => UNCHANGED Mapped(e)
  BY <1>6, <1>7 DEF Inv, Mapped
<1> QED
  BY <1>10, <1>11, <1>12 DEF KeepsPromise, Promise!Step

LEMMA Shutdown ==
  ASSUME Inv, NEW d \in Device, tcpCmdSrvShutdown(d)
  PROVE  Inv' /\ KeepsPromise
<1>1. Inv'
  BY DEF Inv, tcpCmdSrvShutdown
<1>2. Promise(d)!Close
  BY DEF Inv, tcpCmdSrvShutdown, Promise!Close
<1>3. \A e \in Device : e # d => UNCHANGED Mapped(e)
  BY DEF Inv, tcpCmdSrvShutdown, Mapped
<1> QED
  BY <1>1, <1>2, <1>3 DEF KeepsPromise, Promise!Step

LEMMA InitInv == Init => Inv
BY DEF Init, Inv

LEMMA NextInv == Inv /\ [Next]_clVars => Inv' /\ KeepsPromise
<1> SUFFICES ASSUME Inv, [Next]_clVars PROVE Inv' /\ KeepsPromise
  OBVIOUS
<1>1. ASSUME NEW d \in Device, NEW chunk \in Chunk, tcpCmdSrvInput(d, chunk)
      PROVE  Inv' /\ KeepsPromise
  <2>1. chunk \in Seq(Line)
    BY ChunkLines
  <2>2. stage[d] = "ready" /\ assembleCmdLine(d, chunk) /\ log' = log
    BY <1>1 DEF tcpCmdSrvInput, Goes
  <2> QED
    BY <2>1, <2>2, Assemble
<1>2. ASSUME NEW d \in Device, NEW chunk \in Chunk, serialInput(d, chunk)
      PROVE  Inv' /\ KeepsPromise
  BY <1>2, Assemble DEF serialInput, Goes, Inv
<1>3. ASSUME NEW d \in Device, cliExeCmd(d)
      PROVE  Inv' /\ KeepsPromise
  BY <1>3, Execute
<1>4. ASSUME NEW d \in Device, cliParseRemaingBuffer(d)
      PROVE  Inv' /\ KeepsPromise
  BY <1>4, Assemble DEF cliParseRemaingBuffer, Inv
<1>5. ASSUME NEW d \in Device, tcpCmdSrvShutdown(d)
      PROVE  Inv' /\ KeepsPromise
  BY <1>5, Shutdown
<1>6. CASE UNCHANGED clVars
  BY <1>6 DEF clVars, Inv, KeepsPromise, Mapped
<1> QED
  BY <1>1, <1>2, <1>3, <1>4, <1>5, <1>6 DEF Next, Input

\* The stage, the line and the executed lines of every device keep their type
\* (cli.c:214-408).
THEOREM InvHolds == Spec => []Inv
<1> QED
  BY InitInv, NextInv, PTL DEF Spec

\* Every device keeps the promise of CmdService with the verdict of the line itself,
\* whatever other devices and earlier lines did (cli.c:172-206).
THEOREM VerdictIsOfLine == Spec => VerdictOfLine
<1>1. Init => \A d \in Device : Promise(d)!Start
  BY DEF Init, Promise!Start
<1>2. KeepsPromise <=> \A d \in Device : Promise(d)!Step \/ UNCHANGED <<stage[d], line[d], log[d]>>
  BY DEF KeepsPromise, Mapped
<1> QED
  BY <1>1, <1>2, InvHolds, NextInv, PTL DEF Spec, VerdictOfLine

-----------------------------------------------------------------------------
(* The replies *)

Reply == {"pong", "OK", "FAILED", "FAIL"}
Quiet == ~\E d \in Device : Silences(d)
Outcomes(l) == [i \in 1..Len(l) |-> IF l[i].ok THEN "OK" ELSE "FAILED"]

\* The level is one that was set, and as long as nobody has silenced the verdicts it lets
\* them through; then the verdicts a device got are those of its lines.
Answered ==
  /\ logLvl \in {LOG_LVL_DBG} \cup {atoi(w) : w \in Word}
  /\ named \in [Device -> BOOLEAN]
  /\ replies \in [Device -> Seq(Reply)]
  /\ Quiet => logLvl <= LOG_LVL_ALWAYS
  /\ Quiet => \A d \in Device : Verdicts(replies[d]) = Outcomes(log[d])

LEMMA LevelIsInt ==
  ASSUME Answered
  PROVE  logLvl \in Int
BY WordAssumption DEF Answered, LOG_LVL_DBG

\* A reply more is a verdict more, if it is a verdict.
LEMMA VerdictsAppend ==
  ASSUME NEW r \in Seq(Reply), NEW e \in Reply
  PROVE  /\ Append(r, e) \in Seq(Reply)
         /\ Verdicts(Append(r, e)) = IF e \in {"OK", "FAILED"} THEN Append(Verdicts(r), e) ELSE Verdicts(r)
<1> DEFINE told(s) == {i \in 1..Len(s) : s[i] \in {"OK", "FAILED"}}
           n == Len(r)
           s == Append(r, e)
<1>1. /\ n \in Nat /\ s \in Seq(Reply) /\ Len(s) = n + 1 /\ s[n + 1] = e
      /\ \A i \in 1..n : s[i] = r[i]
  BY LenProperties, AppendProperties
<1> HIDE DEF s
<1>2. told(s) \cap 1..n = told(r) \cap 1..n
  BY <1>1
<1>3. n + 1 \in told(s) <=> e \in {"OK", "FAILED"}
  BY <1>1
<1> HIDE DEF told
<1>4. Sublist(s, told(s)) = IF n + 1 \in told(s) THEN Append(Sublist(r, told(r)), e) ELSE Sublist(r, told(r))
  BY <1>2, SublistAppend DEF s
<1>5. Verdicts(s) = Sublist(s, told(s)) /\ Verdicts(r) = Sublist(r, told(r))
  BY DEF Verdicts, told
<1> QED
  BY <1>1, <1>3, <1>4, <1>5 DEF s

\* What logmsg adds to the replies: the message, or nothing.
LEMMA WrittenAdds ==
  ASSUME NEW r \in Seq(Reply), NEW e \in Reply, NEW lvl \in Int, NEW at \in Int
  PROVE  /\ r \o Written(e, lvl, at) = IF lvl >= at THEN Append(r, e) ELSE r
         /\ r \o Written(e, lvl, at) \in Seq(Reply)
<1>1. Written(e, lvl, at) = IF lvl >= at THEN <<e>> ELSE <<>>
  BY DEF Written
<1>2. r \o <<e>> = Append(r, e) /\ r \o <<>> = r /\ Append(r, e) \in Seq(Reply)
  BY AppendProperties, AppendIsConcat, ConcatEmptySeq
<1> QED
  BY <1>1, <1>2

\* A line more is an outcome more.
LEMMA OutcomesAppend ==
  ASSUME NEW l \in Seq(Record), NEW r \in Record
  PROVE  Outcomes(Append(l, r)) = Append(Outcomes(l), IF r.ok THEN "OK" ELSE "FAILED")
<1> DEFINE n == Len(l)
           o == Outcomes(l)
           e == IF r.ok THEN "OK" ELSE "FAILED"
<1>1. /\ n \in Nat /\ Len(Append(l, r)) = n + 1 /\ Append(l, r)[n + 1] = r
      /\ \A i \in 1..n : Append(l, r)[i] = l[i]
  BY LenProperties, AppendProperties
<1>2. /\ Outcomes(Append(l, r)) \in [1..(n + 1) -> {"OK", "FAILED"}]
      /\ \A i \in 1..n : Outcomes(Append(l, r))[i] = o[i]
      /\ Outcomes(Append(l, r))[n + 1] = e
  BY <1>1 DEF Outcomes
<1>3. o \in Seq({"OK", "FAILED"}) /\ Len(o) = n /\ e \in {"OK", "FAILED"}
  BY <1>1 DEF Outcomes
<1> HIDE DEF o, e
<1>4. /\ Append(o, e) \in Seq({"OK", "FAILED"}) /\ Len(Append(o, e)) = n + 1
      /\ Append(o, e)[n + 1] = e /\ \A i \in 1..n : Append(o, e)[i] = o[i]
  BY <1>3, AppendProperties
<1>5. \A i \in 1..(n + 1) : Outcomes(Append(l, r))[i] = Append(o, e)[i]
  BY <1>1, <1>2, <1>4
<1>6. Append(o, e) \in [1..(n + 1) -> {"OK", "FAILED"}]
  <2> DEFINE s == Append(o, e)
  <2>1. s \in Seq({"OK", "FAILED"}) /\ Len(s) = n + 1
    BY <1>4
  <2> HIDE DEF s
  <2>2. s \in [1..Len(s) -> {"OK", "FAILED"}]
    BY <2>1
  <2> QED
    BY <2>1, <2>2 DEF s
<1> QED
  BY <1>2, <1>5, <1>6 DEF o, e

\* A device takes input, or the rest of its buffer: nobody is silenced by that, and
\* "FAIL" is no verdict.
LEMMA AssembleAnswered ==
  ASSUME Inv, Answered, NEW d \in Device, NEW r \in Seq(Line), assembleCmdLine(d, r),
         UNCHANGED <<logLvl, named, log>>
  PROVE  Answered'
<1>1. Quiet' <=> Quiet
  BY DEF Quiet, Silences
<1>2. CASE UNCHANGED replies
  BY <1>1, <1>2 DEF Answered
<1>3. CASE replies' = [replies EXCEPT ![d] = @ \o Written("FAIL", LOG_LVL_ALWAYS, logLvl)]
  <2>1. "FAIL" \in Reply /\ LOG_LVL_ALWAYS \in Int /\ logLvl \in Int /\ replies[d] \in Seq(Reply)
    BY LevelIsInt DEF Reply, LOG_LVL_ALWAYS, Answered
  <2> DEFINE told == replies[d] \o Written("FAIL", LOG_LVL_ALWAYS, logLvl)
  <2>2. told \in Seq(Reply) /\ told \in {replies[d], Append(replies[d], "FAIL")}
    BY <2>1, WrittenAdds
  <2>3. Verdicts(told) = Verdicts(replies[d])
    BY <2>1, <2>2, VerdictsAppend
  <2>4. replies' = [replies EXCEPT ![d] = told]
    BY <1>3
  <2> HIDE DEF told
  <2>5. replies' \in [Device -> Seq(Reply)]
    BY <2>2, <2>4 DEF Answered
  <2>6. \A e \in Device : Verdicts(replies'[e]) = Verdicts(replies[e])
    BY <2>3, <2>4 DEF Answered
  <2> QED
    BY <1>1, <2>5, <2>6 DEF Answered
<1> QED
  BY <1>2, <1>3 DEF assembleCmdLine

\* What cliExeCmd makes of the level and of the log.
LEMMA ExecuteEffect ==
  ASSUME Inv, Answered, NEW d \in Device, cliExeCmd(d)
  PROVE  LET l == line[d]
             sets == Means(l) /\ NamedBy(argPtr(l, 0)) = "setloglvl"
             verdict == IF Means(l) THEN "OK" ELSE "FAILED"
         IN  /\ l \in Line /\ Means(l) \in BOOLEAN
             /\ log' = [log EXCEPT ![d] = Append(log[d], [line |-> l, ok |-> Means(l)])]
             /\ logLvl' = IF sets THEN atoi(argPtr(l, 1)) ELSE logLvl
             /\ sets => argPtr(l, 1) \in Word
             /\ \E pong \in {<<>>, Written("pong", LOG_LVL_NORMAL, logLvl)} :
                  replies' = [replies EXCEPT ![d] =
                    (replies[d] \o pong) \o Written(verdict, LOG_LVL_ALWAYS, logLvl')]
<1> DEFINE l == line[d]
           cmd(name) == IF name = NULL THEN NULL ELSE NamedBy(name)
           ok(name) == cmd(name) # NULL /\ argCount(l) = cmdArray[cmd(name)]
           sets == Means(l) /\ NamedBy(argPtr(l, 0)) = "setloglvl"
<1>1. PICK name \in Name(d) :
        /\ logLvl' = IF ok(name) /\ cmd(name) = "setloglvl" THEN LevelOf(argPtr(l, 1)) ELSE logLvl
        /\ replies' = [replies EXCEPT ![d] =
             (replies[d] \o (IF ok(name) /\ cmd(name) = "pingReq" THEN Written("pong", LOG_LVL_NORMAL, logLvl)
                             ELSE <<>>))
             \o Written(IF ok(name) THEN "OK" ELSE "FAILED", LOG_LVL_ALWAYS, logLvl')]
        /\ log' = [log EXCEPT ![d] = Append(log[d], [line |-> l, ok |-> ok(name)])]
  BY Zenon DEF cliExeCmd
<1>2. l \in Line /\ l \in Seq(Word)
  BY LineWords DEF Inv, cliExeCmd
<1>3. IF Kept(l) # {} THEN name = argPtr(l, 0) ELSE name \in Word \cup {NULL}
  BY DEF Name
<1>4. ok(name) <=> Means(l)
  BY <1>2, <1>3, VerdictMeans
<1>5. ok(name) = Means(l) /\ Means(l) \in BOOLEAN
  BY <1>4 DEF Means
<1>6. ok(name) /\ cmd(name) = "setloglvl" <=> sets
  <2>1. Means(l) => Kept(l) # {} /\ name = argPtr(l, 0)
    BY <1>3 DEF Means
  <2>2. Kept(l) # {} => name # NULL
    BY <1>2, <1>3, FirstWord, WordAssumption
  <2>3. Means(l) => cmd(name) = NamedBy(argPtr(l, 0))
    BY <2>1, <2>2
  <2> HIDE DEF ok, cmd
  <2> QED
    BY <1>4, <2>3
<1>7. sets => argPtr(l, 1) \in Word
  <2>1. sets => Cardinality(Kept(l)) = 1 + cmdArray["setloglvl"]
    BY DEF Means
  <2>2. cmdArray["setloglvl"] = 1
    BY DEF cmdArray
  <2> HIDE DEF sets
  <2> QED
    BY <1>2, <2>1, <2>2, SecondWord
<1>8. log' = [log EXCEPT ![d] = Append(log[d], [line |-> l, ok |-> Means(l)])]
  BY <1>1, <1>5, Zenon
<1>9. logLvl' = IF sets THEN atoi(argPtr(l, 1)) ELSE logLvl
  BY <1>1, <1>6, Zenon DEF LevelOf
<1>10. \E pong \in {<<>>, Written("pong", LOG_LVL_NORMAL, logLvl)} :
         replies' = [replies EXCEPT ![d] =
           (replies[d] \o pong) \o Written(IF Means(l) THEN "OK" ELSE "FAILED", LOG_LVL_ALWAYS, logLvl')]
  <2> DEFINE pong == IF ok(name) /\ cmd(name) = "pingReq" THEN Written("pong", LOG_LVL_NORMAL, logLvl)
                     ELSE <<>>
  <2>1. pong \in {<<>>, Written("pong", LOG_LVL_NORMAL, logLvl)}
    OBVIOUS
  <2>2. replies' = [replies EXCEPT ![d] =
           (replies[d] \o pong) \o Written(IF Means(l) THEN "OK" ELSE "FAILED", LOG_LVL_ALWAYS, logLvl')]
    BY <1>1, <1>5, Zenon
  <2> HIDE DEF pong
  <2> QED
    BY <2>1, <2>2, Zenon
<1> QED
  BY <1>2, <1>5, <1>7, <1>8, <1>9, <1>10, Zenon

LEMMA ExecuteAnswered ==
  ASSUME Inv, Answered, NEW d \in Device, cliExeCmd(d)
  PROVE  Answered'
<1> DEFINE l == line[d]
           sets == Means(l) /\ NamedBy(argPtr(l, 0)) = "setloglvl"
           verdict == IF Means(l) THEN "OK" ELSE "FAILED"
           record == [line |-> l, ok |-> Means(l)]
<1>1. /\ l \in Line /\ Means(l) \in BOOLEAN
      /\ log' = [log EXCEPT ![d] = Append(log[d], record)]
      /\ logLvl' = IF sets THEN atoi(argPtr(l, 1)) ELSE logLvl
      /\ sets => argPtr(l, 1) \in Word
  BY ExecuteEffect, Zenon
<1>2. PICK pong \in {<<>>, Written("pong", LOG_LVL_NORMAL, logLvl)} :
        replies' = [replies EXCEPT ![d] =
          (replies[d] \o pong) \o Written(verdict, LOG_LVL_ALWAYS, logLvl')]
  BY ExecuteEffect, Zenon
<1>3. /\ record \in Record /\ record.line = l /\ record.ok = Means(l)
      /\ verdict \in Reply /\ verdict \in {"OK", "FAILED"}
  BY <1>1 DEF Record, Reply
<1>4. logLvl \in Int /\ logLvl' \in Int /\ logLvl' \in {LOG_LVL_DBG} \cup {atoi(w) : w \in Word}
  BY <1>1, LevelIsInt, WordAssumption DEF Answered
<1>5. log[d] \in Seq(Record) /\ replies[d] \in Seq(Reply) /\ log \in [Device -> Seq(Record)]
  BY DEF Inv, Answered
<1> HIDE DEF record, verdict
<1>6. /\ Len(log[d]) \in Nat /\ Len(Append(log[d], record)) = Len(log[d]) + 1
      /\ Append(log[d], record)[Len(log[d]) + 1] = record
      /\ \A i \in 1..Len(log[d]) : Append(log[d], record)[i] = log[d][i]
  BY <1>3, <1>5, LenProperties, AppendProperties
<1>7. log'[d] = Append(log[d], record) /\ \A e \in Device : e # d => log'[e] = log[e]
  BY <1>1, <1>5
<1>8. Quiet' => Quiet
  <2>1. \A e \in Device : \A i \in 1..Len(log[e]) : i \in 1..Len(log'[e]) /\ log'[e][i] = log[e][i]
    <3>1. \A i \in 1..Len(log[d]) : i \in 1..(Len(log[d]) + 1)
      BY <1>6
    <3>2. \A i \in 1..Len(log[d]) : i \in 1..Len(log'[d]) /\ log'[d][i] = log[d][i]
      BY <1>6, <1>7, <3>1, Zenon
    <3> QED
      BY <1>7, <3>2, Zenon
  <2>2. ASSUME NEW e \in Device, Silences(e) PROVE Silences(e)'
    BY <2>1, <2>2, Zenon DEF Silences
  <2> QED
    BY <2>2 DEF Quiet
<1>9. Quiet' => logLvl' <= LOG_LVL_ALWAYS
  <2>1. CASE sets
    <3>1. Quiet' => ~(atoi(argPtr(l, 1)) > LOG_LVL_ALWAYS)
      <4>1. SUFFICES ASSUME atoi(argPtr(l, 1)) > LOG_LVL_ALWAYS PROVE Silences(d)'
        BY DEF Quiet
      <4>2. /\ Len(log[d]) + 1 \in 1..Len(log'[d])
            /\ log'[d][Len(log[d]) + 1].line = l
        BY <1>3, <1>6, <1>7
      <4>3. Means(l) /\ NamedBy(argPtr(l, 0)) = "setloglvl" /\ atoi(argPtr(l, 1)) > LOG_LVL_ALWAYS
        BY <2>1, <4>1
      <4> HIDE DEF l
      <4> QED
        BY <4>2, <4>3, Zenon DEF Silences
    <3> QED
      BY <1>1, <1>4, <2>1, <3>1 DEF LOG_LVL_ALWAYS
  <2>2. CASE ~sets
    BY <1>1, <1>8, <2>2 DEF Answered
  <2> QED
    BY <2>1, <2>2
<1> DEFINE ponged == replies[d] \o pong
           told == ponged \o Written(verdict, LOG_LVL_ALWAYS, logLvl')
<1>10. ponged \in Seq(Reply) /\ Verdicts(ponged) = Verdicts(replies[d])
  <2>1. "pong" \in Reply /\ LOG_LVL_NORMAL \in Int
    BY DEF Reply, LOG_LVL_NORMAL
  <2>2. /\ replies[d] \o Written("pong", LOG_LVL_NORMAL, logLvl)
             \in {replies[d], Append(replies[d], "pong")} \cap Seq(Reply)
        /\ replies[d] \o <<>> = replies[d]
    BY <1>4, <1>5, <2>1, WrittenAdds, ConcatEmptySeq
  <2>3. Verdicts(Append(replies[d], "pong")) = Verdicts(replies[d])
    BY <1>5, <2>1, VerdictsAppend
  <2>4. ponged \in {replies[d], Append(replies[d], "pong")} \cap Seq(Reply)
    BY <1>5, <2>2
  <2> HIDE DEF ponged
  <2> QED
    BY <2>3, <2>4
<1> HIDE DEF ponged
<1>11. told \in Seq(Reply) /\ (logLvl' <= LOG_LVL_ALWAYS => Verdicts(told) = Append(Verdicts(replies[d]), verdict))
  <2>1. LOG_LVL_ALWAYS \in Int
    BY DEF LOG_LVL_ALWAYS
  <2>2. told = (IF LOG_LVL_ALWAYS >= logLvl' THEN Append(ponged, verdict) ELSE ponged) /\ told \in Seq(Reply)
    BY <1>3, <1>4, <1>10, <2>1, WrittenAdds
  <2>3. Verdicts(Append(ponged, verdict)) = Append(Verdicts(ponged), verdict)
    BY <1>3, <1>10, VerdictsAppend
  <2> HIDE DEF told
  <2> QED
    BY <1>4, <1>10, <2>1, <2>2, <2>3
<1>12. replies' = [replies EXCEPT ![d] = told]
  BY <1>2 DEF ponged
<1> HIDE DEF told
<1>13. replies' \in [Device -> Seq(Reply)]
       /\ replies'[d] = told /\ \A e \in Device : e # d => replies'[e] = replies[e]
  BY <1>11, <1>12 DEF Answered
<1>14. Outcomes(log'[d]) = Append(Outcomes(log[d]), verdict)
  <2>1. Outcomes(Append(log[d], record)) = Append(Outcomes(log[d]), IF record.ok THEN "OK" ELSE "FAILED")
    BY <1>3, <1>5, OutcomesAppend
  <2> QED
    BY <1>3, <1>7, <2>1 DEF verdict
<1>15. Quiet' => \A e \in Device : Verdicts(replies'[e]) = Outcomes(log'[e])
  <2>1. SUFFICES ASSUME Quiet', NEW e \in Device PROVE Verdicts(replies'[e]) = Outcomes(log'[e])
    BY Zenon
  <2>2. Verdicts(replies[e]) = Outcomes(log[e])
    BY <1>8, <2>1 DEF Answered
  <2>3. CASE e = d
    BY <1>9, <1>11, <1>13, <1>14, <2>1, <2>2, <2>3
  <2>4. CASE e # d
    BY <1>7, <1>13, <2>2, <2>4
  <2> QED
    BY <2>3, <2>4
<1>16. named' \in [Device -> BOOLEAN]
  <2>1. (named[d] \/ Kept(l) # {}) \in BOOLEAN
    OBVIOUS
  <2>2. named' = [named EXCEPT ![d] = named[d] \/ Kept(l) # {}]
    BY DEF cliExeCmd
  <2> QED
    BY <2>1, <2>2 DEF Answered
<1> QED
  BY <1>4, <1>9, <1>13, <1>15, <1>16 DEF Answered

LEMMA InitAnswered == Init => Answered
<1> SUFFICES ASSUME Init PROVE Answered
  OBVIOUS
<1>1. logLvl = 1 /\ LOG_LVL_ALWAYS = 5
  BY DEF Init, LOG_LVL_DBG, LOG_LVL_ALWAYS
<1>2. \A d \in Device : replies[d] = <<>> /\ log[d] = <<>>
  BY DEF Init
<1>3. Verdicts(<<>>) = <<>> /\ Outcomes(<<>>) = <<>>
  BY SublistOfEmpty DEF Verdicts, Outcomes
<1>4. \A d \in Device : Verdicts(replies[d]) = Outcomes(log[d])
  BY <1>2, <1>3
<1>5. named \in [Device -> BOOLEAN] /\ replies \in [Device -> Seq(Reply)]
  BY EmptySeq DEF Init
<1> QED
  BY <1>1, <1>4, <1>5 DEF Answered, LOG_LVL_DBG

LEMMA NextAnswered == Inv /\ Answered /\ [Next]_clVars => Answered'
<1> SUFFICES ASSUME Inv, Answered, [Next]_clVars PROVE Answered'
  OBVIOUS
<1>1. ASSUME NEW d \in Device, NEW chunk \in Chunk, tcpCmdSrvInput(d, chunk)
      PROVE  Answered'
  <2>1. chunk \in Seq(Line)
    BY ChunkLines
  <2> QED
    BY <1>1, <2>1, AssembleAnswered DEF tcpCmdSrvInput
<1>2. ASSUME NEW d \in Device, NEW chunk \in Chunk, serialInput(d, chunk)
      PROVE  Answered'
  <2>1. ring[d] \in Seq(Line)
    BY DEF Inv
  <2> QED
    BY <1>2, <2>1, AssembleAnswered DEF serialInput
<1>3. ASSUME NEW d \in Device, cliExeCmd(d)
      PROVE  Answered'
  BY <1>3, ExecuteAnswered
<1>4. ASSUME NEW d \in Device, cliParseRemaingBuffer(d)
      PROVE  Answered'
  <2>1. ring[d] \in Seq(Line)
    BY DEF Inv
  <2> QED
    BY <1>4, <2>1, AssembleAnswered DEF cliParseRemaingBuffer
<1>5. ASSUME NEW d \in Device, UNCHANGED <<logLvl, named, replies, log>>
      PROVE  Answered'
  BY <1>5 DEF Answered, Quiet, Silences
<1>6. ASSUME NEW d \in Device, tcpCmdSrvShutdown(d)
      PROVE  Answered'
  BY <1>5, <1>6 DEF tcpCmdSrvShutdown
<1>7. CASE UNCHANGED clVars
  BY <1>7 DEF clVars, Answered, Quiet, Silences
<1> QED
  BY <1>1, <1>2, <1>3, <1>4, <1>6, <1>7 DEF Next, Input

\* With Answered the invariant is inductive.
THEOREM AnsweredHolds == Spec => [](Inv /\ Answered)
<1> QED
  BY InitInv, InitAnswered, NextInv, NextAnswered, PTL DEF Spec

\* The level, the buffers, the flags of argPtrs and the replies of every device keep
\* their type: setLogLvl is only ever given a word (cli.c:214-236, utils.c:21-35).
THEOREM CommandTypeCorrect == Spec => []TypeOK
<1>1. Inv /\ Answered => TypeOK
  BY DEF Inv, Answered, TypeOK, Record, Reply
<1> QED
  BY AnsweredHolds, <1>1, PTL

\* A device is told the verdict of each of its lines, in their order and once, unless a
\* line, of whatever device and however long ago, has set the level above the one of
\* the verdicts (cli.c:305-321, utils.c:21-35).
THEOREM VerdictsReachDevices == Spec => []AnsweredUnlessSilenced
<1>1. Answered => AnsweredUnlessSilenced
  BY DEF Answered, AnsweredUnlessSilenced, Quiet, Outcomes
<1> QED
  BY AnsweredHolds, <1>1, PTL

=============================================================================
