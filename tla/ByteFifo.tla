------------------------------ MODULE ByteFifo ------------------------------
(***************************************************************************)
(* What rnglib.c promises: a first-in first-out queue of bytes with a      *)
(* fixed capacity, into which bytes can also be written ahead of the queue *)
(* and be made part of it later, all at once.                              *)
(***************************************************************************)
EXTENDS Fifo

CONSTANTS Byte, Capacity

VARIABLES q,       \* the bytes put and not yet got
          ahead,   \* the bytes written ahead, not yet part of q
          ret      \* what the last call returned: how many bytes, and which

fifoVars == <<q, ahead, ret>>

Room == Capacity - Len(q)
Returned(n, bytes) == [n |-> n, bytes |-> bytes]

FifoInit == q = <<>> /\ ahead = <<>> /\ ret = Returned(0, <<>>)

\* Put takes as much as there is room for, and writes over what was ahead.
Put(c) ==
  /\ q' = FifoPut(q, c, Capacity)
  /\ ret' = Returned(Len(q') - Len(q), <<>>)
  /\ ahead' = <<>>

Get(n) ==
  /\ q' = AfterN(q, n)
  /\ ret' = Returned(Len(q) - Len(q'), FirstN(q, n))
  /\ ahead' = ahead

PutAhead(b) ==
  /\ Len(ahead) < Room
  /\ ahead' = Append(ahead, b)
  /\ ret' = Returned(0, <<>>)
  /\ q' = q

MoveAhead(n) ==
  /\ n <= Len(ahead)
  /\ q' = q \o FirstN(ahead, n)
  /\ ahead' = AfterN(ahead, n)
  /\ ret' = Returned(0, <<>>)

Flush == FifoInit'

FifoNext ==
  \/ \E k \in 0..(Capacity + 1) :
       \/ \E c \in [1..k -> Byte] : Put(c)
       \/ Get(k)
       \/ MoveAhead(k)
  \/ \E b \in Byte : PutAhead(b)
  \/ Flush

FifoSpec == FifoInit /\ [][FifoNext]_fifoVars
=============================================================================
