---------------------------- MODULE RngBufProofs ----------------------------
(***************************************************************************)
(* Proofs about RngBuf, for every size of the ring and every set of bytes: *)
(* the indices stay inside the array, whatever the order of calls, and the *)
(* counts agree.                                                           *)
(***************************************************************************)
EXTENDS RngBuf, FifoTheorems

USE DEF bufSize, Index

LEMMA ReturnedType ==
  ASSUME NEW n \in Nat, NEW s \in Seq(Byte)
  PROVE  Returned(n, s) \in [n : Nat, bytes : Seq(Byte)]
BY DEF Returned

\* Copying from a sequence that is long enough keeps the array an array of bytes.
LEMMA StoredType ==
  ASSUME TypeOK, NEW k \in Nat, NEW c \in [1..k -> Byte],
         NEW at \in Nat, NEW n \in Nat, n <= k
  PROVE  Stored(at, c, 1, n) \in [Index -> Byte]
<1>1. ASSUME NEW i \in Index, at <= i, i < at + n PROVE c[1 + i - at] \in Byte
  <2>1. 1 + i - at \in 1..k
    BY <1>1, RingAssumption
  <2> QED
    BY <2>1
<1> QED
  BY <1>1, Zenon DEF Stored, TypeOK

\* Bytes fetched from inside the array are a sequence of bytes.
LEMMA FetchedType ==
  ASSUME TypeOK, NEW at \in Nat, NEW n \in Nat, at + n <= bufSize
  PROVE  Fetched(at, n) \in Seq(Byte)
<1>1. ASSUME NEW i \in 1..n PROVE buf[at + i - 1] \in Byte
  <2>1. at + i - 1 \in Index
    BY RingAssumption
  <2> QED
    BY <2>1 DEF TypeOK
<1> QED
  BY <1>1 DEF Fetched

LEMMA LenOfTuple ==
  ASSUME NEW k \in Nat, NEW c \in [1..k -> Byte]
  PROVE  Len(c) = k
OBVIOUS

\* A put that goes to the end of the array started behind the read index, and what
\* is left of it goes below the read index.
LEMMA PutBounds ==
  ASSUME TypeOK, NEW k \in Nat,
         NEW put, put = Lesser(k, PutLimit - pToBuf),
         NEW put2, put2 = Lesser(k - put, pFromBuf - 1)
  PROVE  /\ put \in Nat /\ put <= k /\ pToBuf + put <= bufSize
         /\ pToBuf + put = bufSize => put2 \in Nat /\ put2 < pFromBuf /\ put + put2 <= k
<1>1. /\ pToBuf \in Nat /\ pFromBuf \in Nat
      /\ pToBuf < bufSize /\ pFromBuf < bufSize /\ nbytes \in Nat
  BY RingAssumption DEF TypeOK
<1> QED
  BY <1>1 DEF Lesser, PutLimit

LEMMA PutType ==
  ASSUME TypeOK, NEW k \in Nat, NEW c \in [1..k -> Byte], rngBufPut(c)
  PROVE  TypeOK'
<1> DEFINE put == Lesser(Len(c), PutLimit - pToBuf)
           put2 == Lesser(Len(c) - put, pFromBuf - 1)
<1>1. Len(c) = k
  BY LenOfTuple
<1>2. /\ put \in Nat /\ put <= k /\ pToBuf + put <= bufSize
      /\ pToBuf + put = bufSize => put2 \in Nat /\ put2 < pFromBuf /\ put + put2 <= k
  BY <1>1, PutBounds
<1>3. \/ /\ pToBuf + put # bufSize
         /\ buf' = Stored(pToBuf, c, 1, put)
         /\ pToBuf' = pToBuf + put
         /\ ret' = Returned(put, <<>>)
      \/ /\ pToBuf + put = bufSize
         /\ buf' = [i \in Index |-> IF i < put2 THEN c[put + i + 1]
                                    ELSE Stored(pToBuf, c, 1, put)[i]]
         /\ pToBuf' = put2
         /\ ret' = Returned(put + put2, <<>>)
  BY DEF rngBufPut
<1>4. pFromBuf' = pFromBuf /\ ahead' = <<>>
  BY DEF rngBufPut
<1> HIDE DEF put, put2
<1>5. pToBuf \in Nat /\ pFromBuf \in Nat /\ pFromBuf < bufSize /\ nbytes \in Nat
  BY RingAssumption DEF TypeOK
<1>6. Stored(pToBuf, c, 1, put) \in [Index -> Byte]
  BY <1>2, <1>5, StoredType
<1>7. CASE pToBuf + put # bufSize
  <2>1. pToBuf' \in Index
    BY <1>2, <1>3, <1>5, <1>7
  <2>2. buf' \in [Index -> Byte]
    BY <1>3, <1>6, <1>7
  <2>3. ret' \in [n : Nat, bytes : Seq(Byte)]
    BY <1>2, <1>3, <1>7, EmptySeq, ReturnedType
  <2> QED
    BY <1>4, <2>1, <2>2, <2>3, EmptySeq DEF TypeOK
<1>8. CASE pToBuf + put = bufSize
  <2>1. pToBuf' \in Index
    BY <1>2, <1>3, <1>5, <1>8
  <2>2. ASSUME NEW i \in Index, i < put2 PROVE c[put + i + 1] \in Byte
    <3>1. put + i + 1 \in 1..k
      BY <1>2, <1>5, <1>8, <2>2
    <3> QED
      BY <3>1
  <2>3. buf' = [i \in Index |-> IF i < put2 THEN c[put + i + 1]
                                ELSE Stored(pToBuf, c, 1, put)[i]]
    BY <1>3, <1>8
  <2>4. buf' \in [Index -> Byte]
    BY <1>6, <2>2, <2>3
  <2>5. ret' \in [n : Nat, bytes : Seq(Byte)]
    <3>1. put + put2 \in Nat
      BY <1>2, <1>8
    <3> QED
      BY <1>3, <1>5, <1>8, <3>1, EmptySeq, ReturnedType
  <2> QED
    BY <1>4, <2>1, <2>4, <2>5, EmptySeq DEF TypeOK
<1> QED
  BY <1>7, <1>8

LEMMA GetType ==
  ASSUME TypeOK, NEW k \in Nat, rngBufGet(k)
  PROVE  TypeOK'
<1>1. /\ pToBuf \in Nat /\ pFromBuf \in Nat /\ nbytes \in Nat
      /\ pToBuf < bufSize /\ pFromBuf < bufSize
  BY RingAssumption DEF TypeOK
<1>2. UNCHANGED <<pToBuf, buf, ahead>>
  BY DEF rngBufGet
<1>3. CASE pToBuf >= pFromBuf
  <2> DEFINE got == Lesser(k, pToBuf - pFromBuf)
  <2>1. got \in Nat /\ pFromBuf + got <= pToBuf
    BY <1>1, <1>3 DEF Lesser
  <2>2. pFromBuf' = pFromBuf + got /\ ret' = Returned(got, Fetched(pFromBuf, got))
    BY <1>1, <1>3 DEF rngBufGet
  <2> HIDE DEF got
  <2>3. pFromBuf + got <= bufSize
    BY <1>1, <2>1
  <2>4. Fetched(pFromBuf, got) \in Seq(Byte)
    BY <1>1, <2>1, <2>3, FetchedType
  <2>5. ret' \in [n : Nat, bytes : Seq(Byte)]
    BY <2>1, <2>2, <2>4, ReturnedType
  <2>6. pFromBuf' \in Index
    BY <1>1, <2>1, <2>2
  <2> QED
    BY <1>2, <2>5, <2>6 DEF TypeOK
<1>4. CASE pToBuf < pFromBuf
  <2> DEFINE got == Lesser(k, bufSize - pFromBuf)
             got2 == Lesser(k - got, pToBuf)
  <2>1. /\ got \in Nat /\ pFromBuf + got <= bufSize
        /\ got2 \in Nat /\ got2 <= pToBuf
    BY <1>1, <1>4 DEF Lesser
  <2>2. IF pFromBuf + got = bufSize
        THEN /\ pFromBuf' = got2
             /\ ret' = Returned(got + got2, Fetched(pFromBuf, got) \o Fetched(0, got2))
        ELSE /\ pFromBuf' = pFromBuf + got
             /\ ret' = Returned(got, Fetched(pFromBuf, got))
    BY <1>1, <1>4 DEF rngBufGet
  <2> HIDE DEF got, got2
  <2>3. Fetched(pFromBuf, got) \in Seq(Byte)
    BY <1>1, <2>1, FetchedType
  <2>4. Fetched(0, got2) \in Seq(Byte)
    <3>1. 0 \in Nat /\ 0 + got2 <= bufSize
      BY <1>1, <2>1
    <3> QED
      BY <2>1, <3>1, FetchedType
  <2>5. ret' \in [n : Nat, bytes : Seq(Byte)]
    <3>1. got + got2 \in Nat
      BY <2>1
    <3>2. Fetched(pFromBuf, got) \o Fetched(0, got2) \in Seq(Byte)
      BY <2>3, <2>4, ConcatProperties
    <3>3. Returned(got + got2, Fetched(pFromBuf, got) \o Fetched(0, got2))
            \in [n : Nat, bytes : Seq(Byte)]
      BY <3>1, <3>2, ReturnedType
    <3>4. Returned(got, Fetched(pFromBuf, got)) \in [n : Nat, bytes : Seq(Byte)]
      BY <2>1, <2>3, ReturnedType
    <3> QED
      BY <2>2, <3>3, <3>4, Zenon
  <2>6. pFromBuf' \in Index
    BY <1>1, <2>1, <2>2
  <2> QED
    BY <1>2, <2>5, <2>6 DEF TypeOK
<1> QED
  BY <1>1, <1>3, <1>4

\* The calls that move one byte, or none.
LEMMA ElemType ==
  ASSUME TypeOK, NEW b \in Byte, rngElemPut(b) \/ rngElemGet
  PROVE  TypeOK'
<1>1. /\ pToBuf \in Nat /\ pFromBuf \in Nat /\ nbytes \in Nat
      /\ pToBuf < bufSize /\ pFromBuf < bufSize
  BY RingAssumption DEF TypeOK
<1>2. /\ Returned(0, <<>>) \in [n : Nat, bytes : Seq(Byte)]
      /\ Returned(1, <<>>) \in [n : Nat, bytes : Seq(Byte)]
  BY EmptySeq, ReturnedType
<1>3. CASE rngElemPut(b)
  <2>1. ret' \in [n : Nat, bytes : Seq(Byte)]
    BY <1>2, <1>3 DEF rngElemPut
  <2>2. pToBuf' \in Index /\ buf' \in [Index -> Byte]
    BY <1>1, <1>3 DEF rngElemPut, TypeOK
  <2> QED
    BY <1>3, <2>1, <2>2, EmptySeq DEF rngElemPut, TypeOK
<1>4. CASE rngElemGet
  <2>1. Returned(1, <<buf[pFromBuf]>>) \in [n : Nat, bytes : Seq(Byte)]
    <3>1. <<buf[pFromBuf]>> \in Seq(Byte)
      BY DEF TypeOK
    <3> QED
      BY <3>1, ReturnedType
  <2>2. ret' \in [n : Nat, bytes : Seq(Byte)]
    BY <1>2, <1>4, <2>1 DEF rngElemGet
  <2>3. pFromBuf' \in Index
    BY <1>1, <1>4 DEF rngElemGet
  <2> QED
    BY <1>4, <2>2, <2>3 DEF rngElemGet, TypeOK
<1> QED
  BY <1>3, <1>4

\* Writing ahead of the write index: the byte lands in the array and the write
\* index moves at most once around it.
LEMMA AheadType ==
  ASSUME TypeOK, NEW b \in Byte, NEW k \in 0..bufSize, rngPutAhead(b) \/ rngMoveAhead(k)
  PROVE  TypeOK'
<1>1. /\ pToBuf \in Nat /\ pFromBuf \in Nat /\ nbytes \in Nat
      /\ pToBuf < bufSize /\ pFromBuf < bufSize
  BY RingAssumption DEF TypeOK
<1>2. Len(ahead) \in Nat
  BY LenProperties DEF TypeOK
<1>3. Returned(0, <<>>) \in [n : Nat, bytes : Seq(Byte)]
  BY EmptySeq, ReturnedType
<1>4. CASE rngPutAhead(b)
  <2> DEFINE n == pToBuf + Len(ahead)
             at == IF n >= bufSize THEN n - bufSize ELSE n
  <2>1. buf' = [buf EXCEPT ![at] = b]
    BY <1>4 DEF rngPutAhead
  <2> HIDE DEF at
  <2>2. buf' \in [Index -> Byte]
    BY <2>1 DEF TypeOK
  <2>3. ahead' \in Seq(Byte)
    BY <1>4, AppendProperties DEF rngPutAhead, TypeOK
  <2> QED
    BY <1>3, <1>4, <2>2, <2>3 DEF rngPutAhead, TypeOK
<1>5. CASE rngMoveAhead(k)
  <2>1. k \in Nat
    BY <1>1
  <2>2. ahead' \in Seq(Byte)
    BY <1>5, <2>1, AfterNProperties DEF rngMoveAhead, TypeOK
  <2>3. pToBuf' \in Index
    BY <1>1, <1>5 DEF rngMoveAhead
  <2> QED
    BY <1>3, <1>5, <2>2, <2>3 DEF rngMoveAhead, TypeOK
<1> QED
  BY <1>4, <1>5

LEMMA FlushType == TypeOK /\ rngFlush => TypeOK'
<1> SUFFICES ASSUME TypeOK, rngFlush PROVE TypeOK'
  OBVIOUS
<1>1. 0 \in Index
  BY RingAssumption
<1>2. Returned(0, <<>>) \in [n : Nat, bytes : Seq(Byte)]
  BY EmptySeq, ReturnedType
<1> QED
  BY <1>1, <1>2, EmptySeq DEF rngFlush, TypeOK

\* Whatever the order of calls, both indices stay inside the array and every byte
\* returned is a byte: rngBufPut and rngBufGet never copy outside it.
THEOREM RingTypeCorrect == Spec => []TypeOK
<1>1. rngCreate => TypeOK
  <2>1. Returned(0, <<>>) \in [n : Nat, bytes : Seq(Byte)]
    BY EmptySeq, ReturnedType
  <2> QED
    BY <2>1, RingAssumption, EmptySeq DEF rngCreate, TypeOK
<1>2. TypeOK /\ [Next]_ringVars => TypeOK'
  <2> SUFFICES ASSUME TypeOK, [Next]_ringVars PROVE TypeOK'
    OBVIOUS
  <2>1. ASSUME NEW k \in 0..bufSize, NEW c \in [1..k -> Byte], rngBufPut(c) PROVE TypeOK'
    <3>1. k \in Nat
      BY RingAssumption
    <3> QED
      BY <2>1, <3>1, PutType
  <2>2. ASSUME NEW k \in 0..bufSize, rngBufGet(k) PROVE TypeOK'
    <3>1. k \in Nat
      BY RingAssumption
    <3> QED
      BY <2>2, <3>1, GetType
  <2>3. ASSUME NEW k \in 0..bufSize, rngMoveAhead(k) PROVE TypeOK'
    <3>1. \E b : b \in Byte
      BY RingAssumption
    <3> QED
      BY <2>3, <3>1, AheadType
  <2>4. ASSUME NEW b \in Byte, rngElemPut(b) PROVE TypeOK'
    BY <2>4, ElemType
  <2>5. ASSUME NEW b \in Byte, rngPutAhead(b) PROVE TypeOK'
    <3>1. 0 \in 0..bufSize
      BY RingAssumption
    <3> QED
      BY <2>5, <3>1, AheadType
  <2>6. ASSUME rngElemGet PROVE TypeOK'
    <3>1. \E b : b \in Byte
      BY RingAssumption
    <3> QED
      BY <2>6, <3>1, ElemType
  <2>7. CASE rngFlush
    BY <2>7, FlushType
  <2>8. CASE UNCHANGED ringVars
    BY <2>8 DEF ringVars, TypeOK
  <2> QED
    BY <2>1, <2>2, <2>3, <2>4, <2>5, <2>6, <2>7, <2>8 DEF Next
<1> QED
  BY <1>1, <1>2, PTL DEF Spec

\* The byte before the read index stays empty, so the counts never mistake a full
\* ring for an empty one.
THEOREM RingCountsAgree == Spec => []CountsAgree
<1>1. TypeOK => CountsAgree
  <2> SUFFICES ASSUME TypeOK PROVE CountsAgree
    OBVIOUS
  <2>1. /\ pToBuf \in Nat /\ pFromBuf \in Nat /\ nbytes \in Nat
        /\ pToBuf <= nbytes /\ pFromBuf <= nbytes
    BY RingAssumption DEF TypeOK
  <2> QED
    BY <2>1 DEF CountsAgree, rngNBytes, rngFreeBytes, rngIsEmpty, rngIsFull
<1> QED
  BY <1>1, RingTypeCorrect, PTL
=============================================================================
