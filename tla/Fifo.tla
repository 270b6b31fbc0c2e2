-------------------------------- MODULE Fifo --------------------------------
(***************************************************************************)
(* What a ring buffer of rnglib.c promises its callers, as operators on    *)
(* the sequence of bytes it holds.  CmdSession computes with these;        *)
(* RngBuf shows that the two-index ring of the code implements them.       *)
(* Sublist is what is left of a linked list of utils.c when some of its    *)
(* elements are unlinked.                                                  *)
(***************************************************************************)
EXTENDS Integers, Sequences

\* Mutant: the bound is forgotten.
FirstNAll(q, n) == q

\* The first n elements of q (all of them when there are fewer), and the rest.
FirstN(q, n) == SubSeq(q, 1, IF n <= Len(q) THEN n ELSE Len(q))
AfterN(q, n) == SubSeq(q, n + 1, Len(q))

\* Mutant: what is put replaces what is there.
FifoPutOver(q, c, cap) == FirstN(c, cap)

\* Append as much of c as fits in a queue of capacity cap; the rest is dropped.
FifoPut(q, c, cap) == q \o FirstN(c, cap - Len(q))

\* Mutant: the last byte is not looked at.
FifoSearchShort(q, b) ==
  LET at == {i \in 1..(Len(q) - 1) : q[i] = b}
  IN  IF at = {} THEN 0 ELSE CHOOSE i \in at : \A j \in at : i <= j

\* Position of the first b in q, counted from 1; 0 when there is none.
FifoSearch(q, b) ==
  LET at == {i \in 1..Len(q) : q[i] = b}
  IN  IF at = {} THEN 0 ELSE CHOOSE i \in at : \A j \in at : i <= j

\* The elements of a list at the positions to keep, in their order: a walk over the
\* list with remque for each of the others.
Sublist(list, keep) ==
  LET upTo[n \in 0..Len(list)] ==
        IF n = 0 THEN <<>>
        ELSE IF n \in keep THEN Append(upTo[n - 1], list[n]) ELSE upTo[n - 1]
  IN  upTo[Len(list)]
=============================================================================
