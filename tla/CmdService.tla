----------------------------- MODULE CmdService -----------------------------
(***************************************************************************)
(* What a command session promises its peer, without sockets, queues or    *)
(* timers: one line is taken at a time; a line that was taken is executed, *)
(* at most once and as it was taken, before the next one is taken; after   *)
(* the end nothing is executed.  Unless the service is lossy, a line that  *)
(* was taken is executed before the session ends.                          *)
(***************************************************************************)
EXTENDS Sequences

CONSTANTS Line,          \* the lines there are
          Verdict(_),    \* what executing a line answers
          Lossy          \* the session may end between taking and executing

VARIABLES stage,         \* "ready", "taken" or "closed"
          line,          \* the line that was taken
          log            \* the lines executed, with what was answered

svcVars == <<stage, line, log>>

Start == stage = "ready" /\ line = <<>> /\ log = <<>>

Take ==
  /\ stage = "ready" /\ stage' = "taken"
  /\ line' \in Line
  /\ log' = log

\* The process may die while it answers.
Execute ==
  /\ stage = "taken" /\ stage' \in {"ready", "closed"}
  /\ line' = <<>>
  /\ log' = Append(log, [line |-> line, ok |-> Verdict(line)])

Close ==
  /\ stage = "ready" \/ (stage = "taken" /\ Lossy)
  /\ stage' = "closed" /\ line' = <<>>
  /\ log' = log

Step == Take \/ Execute \/ Close

Service == Start /\ [][Step]_svcVars

FairService == Service /\ WF_svcVars(Execute)
=============================================================================
