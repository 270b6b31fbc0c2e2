---------------------------- MODULE StateMachine ----------------------------
(***************************************************************************)
(* The table-driven state machine every device of the server runs on       *)
(* (stateMachine.c).  A state table is a sequence of rows; a row is        *)
(*                                                                         *)
(*   [cur, evt, next, rtn, secs]                                           *)
(*                                                                         *)
(* for its currentState, event, nextState, transRtnPtr and secTimerVal.    *)
(* errState and errTransRtnPtr are left out: every live table gives them   *)
(* NO_STATE_CHANGE and NULL.  The row {stateLastState} that ends a C table *)
(* is the end of the sequence.                                             *)
(***************************************************************************)
EXTENDS Integers, Sequences

NO_STATE_CHANGE == "NO_STATE_CHANGE"
WILDCARD_STATE  == "WILDCARD_STATE"
WILDCARD_EVENT  == "WILDCARD_EVENT"
NULL            == "NULL"

Row(cur, evt, next, rtn, secs) ==
  [cur |-> cur, evt |-> evt, next |-> next, rtn |-> rtn, secs |-> secs]

\* A row with a wildcard in one column matches whatever the other column holds: they
\* are compared only together.  (No live table has a wildcard event.)
RowMatches(row, st, ev) ==
  \/ row.cur = st /\ row.evt = ev
  \/ row.cur = WILDCARD_STATE
  \/ row.evt = WILDCARD_EVENT

\* Mutant: the last row that matches.
getTransRtnLast(tbl, st, ev) ==
  LET hits == {i \in 1..Len(tbl) : RowMatches(tbl[i], st, ev)}
  IN  IF hits = {} THEN 0 ELSE CHOOSE i \in hits : \A j \in hits : i >= j

\* The loop of getTransRtn: the first row that matches, 0 for NO_STATE_TRANS_FOUND.
getTransRtn(tbl, st, ev) ==
  LET hits == {i \in 1..Len(tbl) : RowMatches(tbl[i], st, ev)}
  IN  IF hits = {} THEN 0 ELSE CHOOSE i \in hits : \A j \in hits : i <= j

\* Mutant: NO_STATE_CHANGE is taken for a state.
NextStateRaw(row, st) == row.next

\* What main() makes of the state when the routine returned OK.
NextState(row, st) == IF row.next = NO_STATE_CHANGE THEN st ELSE row.next

\* The device timer main() leaves behind: secTimerVal seconds, 0 disarms it.
\* (remainingSeconds is copied from the time just set, not from the time that
\* was left, so it is 0 and never overrides secTimerVal.)
TimerAfter(row) == IF row.secs = 0 THEN "off" ELSE "armed"
=============================================================================
