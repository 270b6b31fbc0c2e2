------------------------------- MODULE RngBuf -------------------------------
(***************************************************************************)
(* The ring buffer of rnglib.c and of the macros of rnglib.h: an array of  *)
(* bufSize bytes with an index to write at and an index to read from.  The *)
(* byte before the read index always stays empty, so that equal indices    *)
(* mean an empty ring.  The device sessions use rngCreate, rngBufPut,      *)
(* rngBufGet, rngNBytes and rngSearch; the rest of the library is here     *)
(* too.  A call runs to its end before the next one: the server has one    *)
(* thread.                                                                 *)
(***************************************************************************)
EXTENDS Integers, Sequences, Fifo

CONSTANTS Byte,      \* the values of a char
          nbytes     \* what rngCreate is asked for

ASSUME RingAssumption == Byte # {} /\ nbytes \in Nat \ {0}

VARIABLES pToBuf,    \* where to write next
          pFromBuf,  \* where to read next
          buf,       \* the array
          ahead,     \* history: the bytes rngPutAhead wrote, not moved over yet
          ret        \* what the last call returned

ringVars == <<pToBuf, pFromBuf, buf, ahead, ret>>

bufSize == nbytes + 1
Index == 0..(bufSize - 1)
Returned(n, bytes) == [n |-> n, bytes |-> bytes]

Lesser(a, b) == IF a <= b THEN a ELSE b

\* Bytes first..first+n-1 of c, copied to the array from index at on.
Stored(at, c, first, n) ==
  [i \in Index |-> IF at <= i /\ i < at + n THEN c[first + i - at] ELSE buf[i]]

\* n bytes of the array from index at on.
Fetched(at, n) == [i \in 1..n |-> buf[at + i - 1]]

-----------------------------------------------------------------------------
(* Queries *)

rngNBytes ==
  LET n == pToBuf - pFromBuf IN IF n < 0 THEN n + bufSize ELSE n

\* Mutant: the byte that stays empty is counted as free.
rngFreeBytesNoGap ==
  LET n == pFromBuf - pToBuf IN IF n < 0 THEN n + bufSize ELSE n

rngFreeBytes ==
  LET n == pFromBuf - pToBuf - 1 IN IF n < 0 THEN n + bufSize ELSE n

rngIsEmpty == pToBuf = pFromBuf

rngIsFull == LET n == pToBuf - pFromBuf + 1 IN n = 0 \/ n = bufSize

\* Mutant: the walk starts at the start of the array.
rngSearchFromStart(b) ==
  LET walk[n \in 0..bufSize] == [i \in 0..bufSize |->
        IF n = 0 THEN 0
        ELSE LET at == IF i >= bufSize THEN 0 ELSE i
             IN  IF buf[at] = b THEN (rngNBytes - n) + 1 ELSE walk[n - 1][at + 1]]
  IN  walk[rngNBytes][0]

\* The walk of rngSearch: n bytes are left to look at, the next one at index i.
rngSearch(b) ==
  LET walk[n \in 0..bufSize] == [i \in 0..bufSize |->
        IF n = 0 THEN 0
        ELSE LET at == IF i >= bufSize THEN 0 ELSE i
             IN  IF buf[at] = b THEN (rngNBytes - n) + 1 ELSE walk[n - 1][at + 1]]
  IN  walk[rngNBytes][pFromBuf]

\* What is in the ring, in the order it will be read.
RingByte(k) ==
  LET i == pFromBuf + k - 1 IN buf[IF i >= bufSize THEN i - bufSize ELSE i]

Contents == [k \in 1..rngNBytes |-> RingByte(k)]

-----------------------------------------------------------------------------
(* Calls *)

\* Mutant: the byte before the read index is written.
PutLimitNoGap ==
  IF pFromBuf > pToBuf THEN pFromBuf
  ELSE IF pFromBuf = 0 THEN bufSize - 1 ELSE bufSize

\* Where rngBufPut stops when it need not wrap: short of the read index, short
\* of the end when the read index is 0, at the end otherwise.
PutLimit ==
  IF pFromBuf > pToBuf THEN pFromBuf - 1
  ELSE IF pFromBuf = 0 THEN bufSize - 1 ELSE bufSize

rngBufPut(c) ==
  LET put  == Lesser(Len(c), PutLimit - pToBuf)
      put2 == Lesser(Len(c) - put, pFromBuf - 1)
  IN  /\ \/ /\ pToBuf + put # bufSize
            /\ buf' = Stored(pToBuf, c, 1, put)
            /\ pToBuf' = pToBuf + put
            /\ ret' = Returned(put, <<>>)
         \/ /\ pToBuf + put = bufSize
            /\ buf' = [i \in Index |-> IF i < put2 THEN c[put + i + 1]
                                       ELSE Stored(pToBuf, c, 1, put)[i]]
            /\ pToBuf' = put2
            /\ ret' = Returned(put + put2, <<>>)
      /\ ahead' = <<>>
      /\ UNCHANGED pFromBuf

rngBufGet(maxbytes) ==
  /\ \/ /\ pToBuf >= pFromBuf
        /\ LET got == Lesser(maxbytes, pToBuf - pFromBuf)
           IN  /\ pFromBuf' = pFromBuf + got
               /\ ret' = Returned(got, Fetched(pFromBuf, got))
     \/ /\ pToBuf < pFromBuf
        /\ LET got  == Lesser(maxbytes, bufSize - pFromBuf)
               got2 == Lesser(maxbytes - got, pToBuf)
           IN  IF pFromBuf + got = bufSize
               THEN /\ pFromBuf' = got2
                    /\ ret' = Returned(got + got2, Fetched(pFromBuf, got) \o Fetched(0, got2))
               ELSE /\ pFromBuf' = pFromBuf + got
                    /\ ret' = Returned(got, Fetched(pFromBuf, got))
  /\ UNCHANGED <<pToBuf, buf, ahead>>

\* The macros RNG_ELEM_PUT and RNG_ELEM_GET.
rngElemPut(b) ==
  /\ \/ /\ \/ pToBuf = pFromBuf - 1
           \/ pToBuf = bufSize - 1 /\ pFromBuf = 0
        /\ ret' = Returned(0, <<>>)
        /\ UNCHANGED <<pToBuf, buf>>
     \/ /\ pToBuf # pFromBuf - 1
        /\ pToBuf = bufSize - 1 => pFromBuf # 0
        /\ buf' = [buf EXCEPT ![pToBuf] = b]
        /\ pToBuf' = IF pToBuf = bufSize - 1 THEN 0 ELSE pToBuf + 1
        /\ ret' = Returned(1, <<>>)
  /\ ahead' = <<>>
  /\ UNCHANGED pFromBuf

\* Mutant: the read index does not wrap.
rngElemGetNoWrap ==
  /\ \/ pToBuf = pFromBuf /\ ret' = Returned(0, <<>>) /\ UNCHANGED pFromBuf
     \/ /\ pToBuf # pFromBuf
        /\ pFromBuf' = pFromBuf + 1
        /\ ret' = Returned(1, <<buf[pFromBuf]>>)
  /\ UNCHANGED <<pToBuf, buf, ahead>>

rngElemGet ==
  /\ \/ pToBuf = pFromBuf /\ ret' = Returned(0, <<>>) /\ UNCHANGED pFromBuf
     \/ /\ pToBuf # pFromBuf
        /\ pFromBuf' = IF pFromBuf + 1 = bufSize THEN 0 ELSE pFromBuf + 1
        /\ ret' = Returned(1, <<buf[pFromBuf]>>)
  /\ UNCHANGED <<pToBuf, buf, ahead>>

\* The caller has verified that there is room ("offset + 1 bytes are available")
\* and fills one offset after the other.
rngPutAhead(b) ==
  LET n == pToBuf + Len(ahead) IN
  /\ Len(ahead) + 1 <= rngFreeBytes
  /\ buf' = [buf EXCEPT ![IF n >= bufSize THEN n - bufSize ELSE n] = b]
  /\ ahead' = Append(ahead, b)
  /\ ret' = Returned(0, <<>>)
  /\ UNCHANGED <<pToBuf, pFromBuf>>

rngMoveAhead(n) ==
  /\ n <= Len(ahead)
  /\ pToBuf' = IF n + pToBuf >= bufSize THEN n + pToBuf - bufSize ELSE n + pToBuf
  /\ ahead' = AfterN(ahead, n)
  /\ ret' = Returned(0, <<>>)
  /\ UNCHANGED <<pFromBuf, buf>>

rngFlush ==
  /\ pToBuf' = 0 /\ pFromBuf' = 0
  /\ ahead' = <<>>
  /\ ret' = Returned(0, <<>>)
  /\ UNCHANGED buf

-----------------------------------------------------------------------------
\* malloc leaves the bytes of the array undefined.
rngCreate ==
  /\ pToBuf = 0 /\ pFromBuf = 0
  /\ buf \in [Index -> Byte]
  /\ ahead = <<>>
  /\ ret = Returned(0, <<>>)

Next ==
  \/ \E k \in 0..bufSize :
       \/ \E c \in [1..k -> Byte] : rngBufPut(c)
       \/ rngBufGet(k)
       \/ rngMoveAhead(k)
  \/ \E b \in Byte : rngElemPut(b) \/ rngPutAhead(b)
  \/ rngElemGet
  \/ rngFlush

Spec == rngCreate /\ [][Next]_ringVars

-----------------------------------------------------------------------------
(* Properties *)

TypeOK ==
  /\ pToBuf \in Index /\ pFromBuf \in Index
  /\ buf \in [Index -> Byte]
  /\ ahead \in Seq(Byte)
  /\ ret \in [n : Nat, bytes : Seq(Byte)]

\* The counts of the library agree with each other, also when the indices have
\* wrapped: used and free bytes add up to what rngCreate was asked for, and
\* empty and full are what the counts say (rnglib.c:266-335).
CountsAgree ==
  /\ rngNBytes \in 0..nbytes
  /\ rngNBytes + rngFreeBytes = nbytes
  /\ rngIsEmpty <=> rngNBytes = 0
  /\ rngIsFull <=> rngFreeBytes = 0

\* rngSearch finds the first occurrence of a byte among the bytes in the ring and
\* counts from 1, across the end of the array (rnglib.c:395-432).
SearchFindsFirst == \A b \in Byte : rngSearch(b) = FifoSearch(Contents, b)

\* The ring implements the byte queue: whatever the order of calls and wherever
\* the indices wrap, bytes come out once, in order, and no call overwrites a
\* byte that was not read.
Promise == INSTANCE ByteFifo WITH Capacity <- nbytes, q <- Contents
ImplementsFifo == Promise!FifoSpec
=============================================================================
