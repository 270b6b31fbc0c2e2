-------------------------- MODULE RngBufRefinement --------------------------
(***************************************************************************)
(* The ring of rnglib.c implements the byte queue of ByteFifo, for every   *)
(* size and every set of bytes.  The calls that put come down to PutsAt,   *)
(* the calls that get to GetsAt: what they do to the cells of the array,   *)
(* counted from the index they start at and without the case of a wrap.    *)
(* The search of the ring is the search of that queue.                     *)
(***************************************************************************)
EXTENDS RngBufProofs

USE DEF bufSize, Index

Wrap(i) == IF i >= bufSize THEN i - bufSize ELSE i

\* How far it is from index i on to index j, and from the write index on.
Distance(i, j) == IF j >= i THEN j - i ELSE j - i + bufSize
Offset(j) == Distance(pToBuf, j)

\* What was written ahead is in the free cells behind the write index.
AheadInRing ==
  /\ Len(ahead) <= rngFreeBytes
  /\ \A k \in 1..Len(ahead) : buf[Wrap(pToBuf + k - 1)] = ahead[k]

RInv == TypeOK /\ AheadInRing

PutsAt(c) ==
  LET n == Lesser(Len(c), rngFreeBytes)
  IN  /\ pToBuf' = Wrap(pToBuf + n)
      /\ \A j \in Index : buf'[j] = IF Offset(j) < n THEN c[Offset(j) + 1] ELSE buf[j]
      /\ ret' = Returned(n, <<>>)
      /\ pFromBuf' = pFromBuf /\ ahead' = <<>>

GetsAt(max) ==
  LET n == Lesser(max, rngNBytes)
  IN  /\ pFromBuf' = Wrap(pFromBuf + n)
      /\ ret' = Returned(n, [i \in 1..n |-> buf[Wrap(pFromBuf + i - 1)]])
      /\ UNCHANGED <<pToBuf, buf, ahead>>

-----------------------------------------------------------------------------
LEMMA Indices ==
  TypeOK => /\ pToBuf \in Nat /\ pFromBuf \in Nat /\ nbytes \in Nat
            /\ pToBuf <= nbytes /\ pFromBuf <= nbytes /\ bufSize = nbytes + 1
BY RingAssumption DEF TypeOK

\* The contents are the cells from the read index on.
CellsOK ==
  /\ rngNBytes \in 0..nbytes /\ rngFreeBytes = nbytes - rngNBytes
  /\ Contents \in Seq(Byte) /\ Len(Contents) = rngNBytes
  /\ \A k \in 1..rngNBytes : Contents[k] = buf[Wrap(pFromBuf + k - 1)]

LEMMA ContentsCells == TypeOK => CellsOK
<1> SUFFICES ASSUME TypeOK PROVE CellsOK
  OBVIOUS
<1>1. rngNBytes \in 0..nbytes /\ rngFreeBytes = nbytes - rngNBytes
  BY Indices DEF rngNBytes, rngFreeBytes
<1>2. ASSUME NEW k \in 1..rngNBytes
      PROVE  RingByte(k) = buf[Wrap(pFromBuf + k - 1)] /\ RingByte(k) \in Byte
  <2>1. Wrap(pFromBuf + k - 1) \in Index
    BY <1>1, Indices DEF Wrap
  <2>2. RingByte(k) = buf[Wrap(pFromBuf + k - 1)]
    BY DEF RingByte, Wrap
  <2> QED
    BY <2>1, <2>2 DEF TypeOK
<1>3. Contents = [k \in 1..rngNBytes |-> RingByte(k)]
  BY DEF Contents
<1>4. Contents \in [1..rngNBytes -> Byte]
  BY <1>2, <1>3
<1>5. Contents \in Seq(Byte) /\ Len(Contents) = rngNBytes
  <2> HIDE DEF Contents
  <2> DEFINE n == rngNBytes
  <2>1. n \in Nat /\ Contents \in [1..n -> Byte]
    BY <1>1, <1>4
  <2> HIDE DEF n
  <2>2. Contents \in Seq(Byte) /\ Len(Contents) = n
    BY <2>1
  <2> QED
    BY <2>2 DEF n
<1> QED
  BY <1>1, <1>2, <1>3, <1>5 DEF CellsOK

LEMMA ContentsCellsNext == TypeOK' => CellsOK'
BY ContentsCells, PTL

LEMMA IndicesNext ==
  TypeOK' => /\ pToBuf' \in Nat /\ pFromBuf' \in Nat
             /\ pToBuf' <= nbytes /\ pFromBuf' <= nbytes
BY RingAssumption DEF TypeOK

\* Counting cells: n more of them behind the d from index f to index t, as long as
\* one stays empty.
LEMMA WrapAdds ==
  ASSUME NEW f \in Index, NEW t \in Index, NEW n \in Nat, Distance(f, t) + n <= nbytes
  PROVE  Wrap(t + n) \in Index /\ Distance(f, Wrap(t + n)) = Distance(f, t) + n
<1>1. nbytes \in Nat
  BY RingAssumption
<1>2. CASE t + n >= bufSize
  <2>1. Wrap(t + n) = t + n - bufSize
    BY <1>1, <1>2 DEF Wrap
  <2>2. f <= t /\ Distance(f, t) = t - f /\ t + n - bufSize < f
    BY <1>1, <1>2 DEF Distance
  <2> QED
    BY <1>1, <1>2, <2>1, <2>2 DEF Distance
<1>3. CASE t + n < bufSize
  <2>1. Wrap(t + n) = t + n
    BY <1>1, <1>3 DEF Wrap
  <2> QED
    BY <1>1, <1>3, <2>1 DEF Distance
<1> QED
  BY <1>1, <1>2, <1>3

LEMMA WrapDistance ==
  ASSUME NEW f \in Index, NEW t \in Index, NEW i \in 1..nbytes
  PROVE  /\ Wrap(f + i - 1) \in Index
         /\ i > Distance(f, t) => Distance(t, Wrap(f + i - 1)) = i - Distance(f, t) - 1
         /\ i <= Distance(f, t) => Distance(t, Wrap(f + i - 1)) + Distance(f, t) >= bufSize
<1>1. nbytes \in Nat
  BY RingAssumption
<1>2. CASE f + i - 1 >= bufSize
  <2>1. Wrap(f + i - 1) = f + i - 1 - bufSize
    BY <1>1, <1>2 DEF Wrap
  <2>2. Wrap(f + i - 1) \in Index /\ Wrap(f + i - 1) < f
    BY <1>1, <1>2, <2>1
  <2> QED
    BY <1>1, <1>2, <2>1, <2>2 DEF Distance
<1>3. CASE f + i - 1 < bufSize
  <2>1. Wrap(f + i - 1) = f + i - 1
    BY <1>1, <1>3 DEF Wrap
  <2> QED
    BY <1>1, <1>3, <2>1 DEF Distance
<1> QED
  BY <1>1, <1>2, <1>3

\* The count of the library is the distance of its indices.
LEMMA CountIsDistance == TypeOK => rngNBytes = Distance(pFromBuf, pToBuf)
BY Indices DEF rngNBytes, Distance

LEMMA CountIsDistanceNext == TypeOK' => rngNBytes' = Distance(pFromBuf', pToBuf')
BY IndicesNext DEF rngNBytes, Distance

\* Two sequences of bytes are equal when their lengths and their bytes are.
LEMMA SameBytes ==
  ASSUME NEW s \in Seq(Byte), NEW t \in Seq(Byte), Len(s) = Len(t),
         \A i \in 1..Len(s) : s[i] = t[i]
  PROVE  s = t
BY SeqEqual

-----------------------------------------------------------------------------
(* Searching *)

\* Where the walk of rngSearch looks when its index is i.
At(i) == IF i >= bufSize THEN 0 ELSE i

\* v answers the search for b in what is behind the first m bytes of the contents.
FirstBehind(b, v, m) ==
  /\ v \in 0..rngNBytes
  /\ v = 0 => \A k \in (m + 1)..rngNBytes : Contents[k] # b
  /\ v > 0 => v > m /\ Contents[v] = b /\ \A k \in (m + 1)..(v - 1) : Contents[k] # b

\* One step of the walk: the byte is behind the first m, or the rest of the walk finds it.
LEMMA SearchStep ==
  ASSUME TypeOK, NEW b, NEW m \in 0..(rngNBytes - 1), NEW v,
         buf[Wrap(pFromBuf + m)] = b => v = m + 1,
         buf[Wrap(pFromBuf + m)] # b => FirstBehind(b, v, m + 1)
  PROVE  FirstBehind(b, v, m)
<1>1. rngNBytes \in Nat /\ m + 1 \in 1..rngNBytes
  BY ContentsCells DEF CellsOK
<1>2. Contents[m + 1] = buf[Wrap(pFromBuf + m)]
  <2>1. Contents[m + 1] = buf[Wrap(pFromBuf + (m + 1) - 1)]
    BY <1>1, ContentsCells DEF CellsOK
  <2>2. pFromBuf + (m + 1) - 1 = pFromBuf + m
    BY <1>1, Indices
  <2> QED
    BY <2>1, <2>2
<1>3. CASE Contents[m + 1] = b
  <2>1. v = m + 1
    BY <1>2, <1>3
  <2> QED
    BY <1>1, <1>3, <2>1 DEF FirstBehind
<1>4. CASE Contents[m + 1] # b
  <2>1. FirstBehind(b, v, m + 1)
    BY <1>2, <1>4
  <2> QED
    BY <1>1, <1>4, <2>1 DEF FirstBehind
<1> QED
  BY <1>3, <1>4

\* The walk of rngSearch as an equation.
SearchWalk(b, walk) ==
  walk = [n \in 0..bufSize |-> [i \in 0..bufSize |->
            IF n = 0 THEN 0
            ELSE LET at == IF i >= bufSize THEN 0 ELSE i
                 IN  IF buf[at] = b THEN (rngNBytes - n) + 1 ELSE walk[n - 1][at + 1]]]

LEMMA SearchWalkExists ==
  ASSUME TypeOK, NEW b
  PROVE  \E walk : SearchWalk(b, walk)
<1> DEFINE N == bufSize
           V == [0..N -> Int]
           base == [i \in 0..N |-> 0]
           next(n, g) == [i \in 0..N |-> IF buf[At(i)] = b THEN (rngNBytes - n) + 1 ELSE g[At(i) + 1]]
           step == [n \in 1..N |-> [g \in V |-> next(n, g)]]
<1>1. N \in Nat /\ rngNBytes \in Int
  BY Indices, ContentsCells DEF CellsOK
<1>2. \A i \in 0..N : At(i) + 1 \in 0..N
  BY Indices DEF At
<1>3. base \in V
  OBVIOUS
<1>4. \A n \in 1..N, g \in V : next(n, g) \in V
  BY <1>1, <1>2
<1>5. step \in [1..N -> [V -> V]]
  <2> HIDE DEF V, next
  <2> QED
    BY <1>4
<1>6. PICK f \in [0..N -> V] : Recursive(f, N, base, step)
  <2> HIDE DEF N, V, base, step
  <2> QED
    BY <1>1, <1>3, <1>5, RecursionExists
<1>7. f[0] = base /\ \A n \in 1..N : f[n] = next(n, f[n - 1])
  <2>1. ASSUME NEW n \in 1..N PROVE f[n] = next(n, f[n - 1])
    <3> HIDE DEF V, next
    <3>1. n - 1 \in 0..N /\ f[n - 1] \in V
      BY <1>1
    <3>2. step[n][f[n - 1]] = next(n, f[n - 1])
      BY <3>1
    <3> QED
      BY <1>6, <3>2 DEF Recursive
  <2> QED
    BY <1>6, <2>1 DEF Recursive
<1>8. ASSUME NEW n \in 0..N
      PROVE  f[n] = [i \in 0..N |-> IF n = 0 THEN 0
                       ELSE IF buf[At(i)] = b THEN (rngNBytes - n) + 1 ELSE f[n - 1][At(i) + 1]]
  <2>1. CASE n = 0
    BY <1>7, <2>1
  <2>2. CASE n # 0
    <3>1. n \in 1..N
      BY <1>1, <2>2
    <3>2. f[n] = next(n, f[n - 1])
      BY <1>7, <3>1
    <3> QED
      BY <2>2, <3>2
  <2> QED
    BY <2>1, <2>2
<1>9. f = [n \in 0..N |-> f[n]]
  OBVIOUS
<1>10. f = [n \in 0..N |-> [i \in 0..N |-> IF n = 0 THEN 0
                       ELSE IF buf[At(i)] = b THEN (rngNBytes - n) + 1 ELSE f[n - 1][At(i) + 1]]]
  BY <1>8, <1>9, Zenon
<1>11. SearchWalk(b, f)
  BY <1>10 DEF SearchWalk, At
<1> QED
  BY <1>11

\* Wherever the contents start in the array, the walk finds the first of the bytes
\* that are left.
LEMMA SearchFinds ==
  ASSUME TypeOK, NEW b
  PROVE  rngSearch(b) = FifoSearch(Contents, b)
<1> DEFINE cnt == rngNBytes
           walk == CHOOSE w : SearchWalk(b, w)
           T == {n \in 0..cnt : \A i \in 0..bufSize :
                   n = 0 \/ At(i) = Wrap(pFromBuf + (cnt - n)) => FirstBehind(b, walk[n][i], cnt - n)}
<1>1. nbytes \in Nat /\ cnt \in 0..nbytes /\ cnt \in Nat /\ bufSize \in Nat /\ bufSize = nbytes + 1 /\ pFromBuf \in 0..nbytes
  BY Indices, ContentsCells DEF CellsOK
<1>2. rngSearch(b) = walk[cnt][pFromBuf]
  BY DEF rngSearch, SearchWalk
<1>3. SearchWalk(b, walk)
  BY SearchWalkExists, Zenon
<1>4. ASSUME NEW n \in 1..cnt, NEW i \in 0..bufSize
      PROVE  walk[n][i] = IF buf[At(i)] = b THEN (cnt - n) + 1 ELSE walk[n - 1][At(i) + 1]
  <2>1. n \in 0..bufSize /\ n # 0
    BY <1>1
  <2>2. walk = [k \in 0..bufSize |-> [l \in 0..bufSize |->
                  IF k = 0 THEN 0
                  ELSE IF buf[At(l)] = b THEN (cnt - k) + 1 ELSE walk[k - 1][At(l) + 1]]]
    BY <1>3 DEF SearchWalk, At
  <2> HIDE DEF walk, cnt
  <2>3. walk[n] = [l \in 0..bufSize |->
                  IF n = 0 THEN 0
                  ELSE IF buf[At(l)] = b THEN (cnt - n) + 1 ELSE walk[n - 1][At(l) + 1]]
    BY <2>1, <2>2, Zenon
  <2> QED
    BY <2>1, <2>3
<1>5. \A i \in 0..bufSize : walk[0][i] = 0
  <2>1. walk = [k \in 0..bufSize |-> [l \in 0..bufSize |->
                  IF k = 0 THEN 0
                  ELSE IF buf[At(l)] = b THEN (cnt - k) + 1 ELSE walk[k - 1][At(l) + 1]]]
    BY <1>3 DEF SearchWalk, At
  <2> HIDE DEF walk, cnt
  <2>2. walk[0] = [l \in 0..bufSize |->
                  IF 0 = 0 THEN 0
                  ELSE IF buf[At(l)] = b THEN (cnt - 0) + 1 ELSE walk[0 - 1][At(l) + 1]]
    <3>1. 0 \in 0..bufSize
      BY <1>1
    <3> QED
      BY <2>1, <3>1, Zenon
  <2> QED
    BY <2>2
<1> HIDE DEF walk
<1>6. 0 \in T
  <2>1. ASSUME NEW i \in 0..bufSize PROVE FirstBehind(b, walk[0][i], cnt - 0)
    <3>1. walk[0][i] = 0
      BY <1>5
    <3> QED
      BY <1>1, <3>1 DEF FirstBehind
  <2> QED
    BY <1>1, <2>1
<1>7. ASSUME NEW n \in 0..(cnt - 1), n \in T PROVE n + 1 \in T
  <2> DEFINE m == cnt - (n + 1)
  <2>1. /\ m \in 0..(cnt - 1) /\ m + 1 = cnt - n /\ n + 1 \in 1..cnt /\ n + 1 - 1 = n
        /\ (cnt - (n + 1)) + 1 = m + 1 /\ n \in 0..cnt
    BY <1>1
  <2>2. ASSUME NEW i \in 0..bufSize, At(i) = Wrap(pFromBuf + m)
        PROVE  FirstBehind(b, walk[n + 1][i], m)
    <3>1. walk[n + 1][i] = IF buf[At(i)] = b THEN m + 1 ELSE walk[n][At(i) + 1]
      BY <1>4, <2>1
    <3>2. At(i) + 1 \in 0..bufSize
      BY <1>1 DEF At
    <3>3. n = 0 \/ At(At(i) + 1) = Wrap(pFromBuf + (m + 1))
      BY <1>1, <2>1, <2>2 DEF At, Wrap
    <3>4. FirstBehind(b, walk[n][At(i) + 1], m + 1)
      <4>1. pFromBuf + (m + 1) = pFromBuf + (cnt - n)
        BY <2>1
      <4>2. FirstBehind(b, walk[n][At(i) + 1], cnt - n)
        BY <1>7, <3>2, <3>3, <4>1
      <4> QED
        BY <2>1, <4>2
    <3> QED
      BY <2>1, <2>2, <3>1, <3>4, SearchStep
  <2> QED
    BY <2>1, <2>2
<1>8. cnt \in T
  <2> HIDE DEF T, cnt
  <2>1. \A n \in 0..cnt : n \in T
    BY <1>1, <1>6, <1>7, UpToBound
  <2> QED
    BY <1>1, <2>1
<1>9. FirstBehind(b, walk[cnt][pFromBuf], 0)
  <2>1. CASE cnt = 0
    <3>1. walk[cnt][pFromBuf] = 0
      BY <1>1, <1>5, <2>1
    <3> QED
      BY <2>1, <3>1 DEF FirstBehind
  <2>2. CASE cnt > 0
    <3>1. At(pFromBuf) = Wrap(pFromBuf + (cnt - cnt)) /\ pFromBuf \in 0..bufSize /\ cnt - cnt = 0
      BY <1>1 DEF At, Wrap
    <3> QED
      BY <1>8, <2>2, <3>1
  <2> QED
    BY <1>1, <2>1, <2>2
<1>10. /\ FifoSearch(Contents, b) \in 0..cnt
       /\ FifoSearch(Contents, b) = 0 => \A i \in 1..cnt : Contents[i] # b
       /\ FifoSearch(Contents, b) > 0 =>
            /\ Contents[FifoSearch(Contents, b)] = b
            /\ \A i \in 1..(FifoSearch(Contents, b) - 1) : Contents[i] # b
  <2>1. Contents \in Seq(Byte) /\ Len(Contents) = cnt
    BY ContentsCells DEF CellsOK
  <2> QED
    BY <2>1, FifoSearchFirst
<1> QED
  <2> DEFINE v == walk[cnt][pFromBuf]
             u == FifoSearch(Contents, b)
  <2>1. /\ v \in 0..cnt
        /\ v = 0 => \A k \in 1..cnt : Contents[k] # b
        /\ v > 0 => Contents[v] = b /\ \A k \in 1..(v - 1) : Contents[k] # b
    BY <1>9 DEF FirstBehind
  <2> HIDE DEF v, u, cnt
  <2>2. u \in 0..cnt /\ (u = 0 => \A i \in 1..cnt : Contents[i] # b)
        /\ (u > 0 => Contents[u] = b /\ \A i \in 1..(u - 1) : Contents[i] # b)
    BY <1>10 DEF u
  <2>3. v = u
    BY <1>1, <2>1, <2>2
  <2> QED
    BY <1>2, <2>3 DEF u, v

\* rngSearch finds the first occurrence of a byte among the bytes in the ring and
\* counts from 1, wherever the contents wrap (rnglib.c:395-432).
THEOREM SearchCorrect == Spec => []SearchFindsFirst
<1>1. TypeOK => SearchFindsFirst
  BY SearchFinds DEF SearchFindsFirst
<1> QED
  BY <1>1, RingTypeCorrect, PTL

-----------------------------------------------------------------------------
(* Putting *)

LEMMA PutCells ==
  ASSUME TypeOK, NEW k \in Nat, NEW c \in [1..k -> Byte], rngBufPut(c)
  PROVE  PutsAt(c)
<1> DEFINE put == Lesser(Len(c), PutLimit - pToBuf)
           put2 == Lesser(Len(c) - put, pFromBuf - 1)
           n == Lesser(Len(c), rngFreeBytes)
<1>1. Len(c) = k
  BY LenOfTuple
<1>2. /\ put \in Nat /\ put <= k /\ pToBuf + put <= bufSize
      /\ pToBuf + put = bufSize => put2 \in Nat /\ put2 < pFromBuf /\ put + put2 <= k
  BY <1>1, PutBounds
<1>3. n = (IF pToBuf + put = bufSize THEN put + put2 ELSE put)
  <2>1. CASE pFromBuf > pToBuf
    BY <1>1, <2>1, Indices DEF Lesser, rngFreeBytes, PutLimit
  <2>2. CASE pFromBuf = 0
    BY <1>1, <2>2, Indices DEF Lesser, rngFreeBytes, PutLimit
  <2>3. CASE 0 < pFromBuf /\ pFromBuf <= pToBuf
    <3>1. PutLimit = bufSize /\ rngFreeBytes = bufSize - pToBuf + (pFromBuf - 1)
      BY <2>3, Indices DEF rngFreeBytes, PutLimit
    <3>2. put = Lesser(k, bufSize - pToBuf) /\ put2 = Lesser(k - put, pFromBuf - 1)
      BY <1>1, <3>1
    <3>3. CASE k < bufSize - pToBuf
      BY <1>1, <2>3, <3>1, <3>2, <3>3, Indices DEF Lesser
    <3>4. CASE bufSize - pToBuf <= k
      <4>1. put = bufSize - pToBuf /\ pToBuf + put = bufSize
        BY <3>2, <3>4, Indices DEF Lesser
      <4>2. put2 = Lesser(k - (bufSize - pToBuf), pFromBuf - 1)
        BY <3>2, <4>1
      <4> HIDE DEF put, put2
      <4>3. n = put + put2
        <5>1. n = Lesser(k, bufSize - pToBuf + (pFromBuf - 1))
          BY <1>1, <3>1
        <5> HIDE DEF n
        <5>2. CASE k - (bufSize - pToBuf) <= pFromBuf - 1
          BY <3>4, <4>1, <4>2, <5>1, <5>2, Indices DEF Lesser
        <5>3. CASE k - (bufSize - pToBuf) > pFromBuf - 1
          BY <3>4, <4>1, <4>2, <5>1, <5>3, Indices DEF Lesser
        <5> QED
          BY <5>2, <5>3, Indices
      <4> QED
        BY <4>1, <4>3
    <3> QED
      BY <3>3, <3>4, Indices
  <2> QED
    BY <2>1, <2>2, <2>3, Indices
<1>4. \/ /\ pToBuf + put # bufSize
         /\ buf' = Stored(pToBuf, c, 1, put)
         /\ pToBuf' = pToBuf + put
         /\ ret' = Returned(put, <<>>)
      \/ /\ pToBuf + put = bufSize
         /\ buf' = [i \in Index |-> IF i < put2 THEN c[put + i + 1]
                                    ELSE Stored(pToBuf, c, 1, put)[i]]
         /\ pToBuf' = put2
         /\ ret' = Returned(put + put2, <<>>)
  BY DEF rngBufPut
<1>5. pFromBuf' = pFromBuf /\ ahead' = <<>>
  BY DEF rngBufPut
<1> HIDE DEF put, put2, n
<1>6. \A i \in Index : Stored(pToBuf, c, 1, put)[i] =
                         IF pToBuf <= i /\ i < pToBuf + put THEN c[1 + i - pToBuf] ELSE buf[i]
  BY DEF Stored
<1>7. pToBuf' = Wrap(pToBuf + n) /\ ret' = Returned(n, <<>>)
  BY <1>2, <1>3, <1>4, Indices DEF Wrap
<1>8. ASSUME NEW j \in Index
      PROVE  buf'[j] = IF Offset(j) < n THEN c[Offset(j) + 1] ELSE buf[j]
  <2>0. j \in Nat /\ j < bufSize
    BY Indices
  <2>1. CASE pToBuf + put # bufSize
    <3>1. n = put /\ pToBuf + n < bufSize
      BY <1>2, <1>3, <2>1, Indices
    <3>2. buf'[j] = IF pToBuf <= j /\ j < pToBuf + put THEN c[1 + j - pToBuf] ELSE buf[j]
      BY <1>4, <1>6, <2>1
    <3>3. (pToBuf <= j /\ j < pToBuf + put) <=> Offset(j) < n
      BY <1>2, <2>0, <3>1, Indices DEF Offset, Distance
    <3>4. Offset(j) < n => 1 + j - pToBuf = Offset(j) + 1
      BY <1>2, <2>0, <3>1, Indices DEF Offset, Distance
    <3> QED
      BY <3>2, <3>3, <3>4
  <2>2. CASE pToBuf + put = bufSize
    <3>1. n = put + put2 /\ put2 < pToBuf
      <4>1. n = put + put2 /\ put2 < pFromBuf
        BY <1>2, <1>3, <2>2
      <4>2. pFromBuf <= pToBuf
        <5>1. CASE pFromBuf > pToBuf
          <6>1. put <= pFromBuf - 1 - pToBuf
            BY <1>1, <5>1, Indices DEF put, PutLimit, Lesser
          <6> QED
            BY <1>2, <2>2, <6>1, Indices
        <5> QED
          BY <5>1, Indices
      <4> QED
        BY <1>2, <2>2, <4>1, <4>2, Indices
    <3>2. buf'[j] = IF j < put2 THEN c[put + j + 1]
                    ELSE IF pToBuf <= j /\ j < pToBuf + put THEN c[1 + j - pToBuf] ELSE buf[j]
      BY <1>4, <1>6, <2>2
    <3>3. CASE j < put2
      <4>1. Offset(j) < n /\ put + j + 1 = Offset(j) + 1
        BY <1>2, <2>0, <2>2, <3>1, <3>3, Indices DEF Offset, Distance
      <4> QED
        BY <3>2, <3>3, <4>1
    <3>4. CASE pToBuf <= j
      <4>1. Offset(j) < n /\ 1 + j - pToBuf = Offset(j) + 1 /\ ~(j < put2) /\ j < pToBuf + put
        BY <1>2, <2>0, <2>2, <3>1, <3>4, Indices DEF Offset, Distance
      <4> QED
        BY <3>2, <3>4, <4>1
    <3>5. CASE ~(j < put2) /\ ~(pToBuf <= j)
      <4>1. ~(Offset(j) < n)
        BY <1>2, <2>0, <2>2, <3>1, <3>5, Indices DEF Offset, Distance
      <4> QED
        BY <3>2, <3>5, <4>1
    <3> QED
      BY <3>3, <3>4, <3>5
  <2> QED
    BY <2>1, <2>2
<1> QED
  BY <1>5, <1>7, <1>8 DEF PutsAt, n
LEMMA ElemPutCells ==
  ASSUME TypeOK, NEW b \in Byte, rngElemPut(b)
  PROVE  PutsAt(<<b>>)
<1> DEFINE n == Lesser(1, rngFreeBytes)
<1>1. pFromBuf' = pFromBuf /\ ahead' = <<>> /\ Len(<<b>>) = 1 /\ <<b>>[1] = b
  BY DEF rngElemPut
<1>2. \A j \in Index : Offset(j) \in Nat /\ (Offset(j) < 1 <=> j = pToBuf)
  BY Indices DEF Offset, Distance
<1>3. CASE rngFreeBytes = 0
  <2>1. n = 0 /\ Wrap(pToBuf + n) = pToBuf
    BY <1>3, Indices DEF Lesser, Wrap
  <2>2. ret' = Returned(0, <<>>) /\ UNCHANGED <<pToBuf, buf>>
    BY <1>3, Indices DEF rngElemPut, rngFreeBytes
  <2> HIDE DEF n
  <2>3. \A j \in Index : ~(Offset(j) < n)
    BY <1>2, <2>1
  <2> QED
    BY <1>1, <2>1, <2>2, <2>3 DEF PutsAt, n
<1>4. CASE rngFreeBytes # 0
  <2>1. n = 1
    BY <1>4, Indices DEF Lesser, rngFreeBytes
  <2>2. /\ ret' = Returned(1, <<>>)
        /\ buf' = [buf EXCEPT ![pToBuf] = b]
        /\ pToBuf' = IF pToBuf = bufSize - 1 THEN 0 ELSE pToBuf + 1
    BY <1>4, Indices DEF rngElemPut, rngFreeBytes
  <2>3. pToBuf' = Wrap(pToBuf + 1)
    BY <2>2, Indices DEF Wrap
  <2>4. ASSUME NEW j \in Index
        PROVE  buf'[j] = IF Offset(j) < 1 THEN <<b>>[Offset(j) + 1] ELSE buf[j]
    <3>1. CASE j = pToBuf
      <4>1. Offset(j) < 1 /\ Offset(j) + 1 = 1
        BY <3>1, Indices DEF Offset, Distance
      <4> QED
        BY <1>1, <2>2, <3>1, <4>1 DEF TypeOK
    <3>2. CASE j # pToBuf
      BY <1>2, <2>2, <3>2 DEF TypeOK
    <3> QED
      BY <3>1, <3>2
  <2> HIDE DEF n
  <2> QED
    BY <1>1, <2>1, <2>2, <2>3, <2>4 DEF PutsAt, n
<1> QED
  BY <1>3, <1>4

\* What is put comes behind what is there, as much as fits.
LEMMA PutImplements ==
  ASSUME TypeOK, TypeOK', NEW k \in Nat, NEW c \in [1..k -> Byte], PutsAt(c)
  PROVE  Promise!Put(c) /\ AheadInRing'
<1> DEFINE n == Lesser(k, rngFreeBytes)
           old == rngNBytes
           fits == FirstN(c, nbytes - Len(Contents))
<1>1. Len(c) = k /\ c \in Seq(Byte)
  BY LenOfTuple
<1>2. CellsOK /\ CellsOK'
  BY ContentsCells, ContentsCellsNext
<1>3. n \in Nat /\ n <= k /\ old + n <= nbytes /\ old \in Nat /\ Len(Contents) = old
  BY <1>2, Indices DEF CellsOK, Lesser
<1>4. /\ pToBuf' = Wrap(pToBuf + n) /\ pFromBuf' = pFromBuf
      /\ ahead' = <<>> /\ ret' = Returned(n, <<>>)
  BY <1>1 DEF PutsAt
<1>b. \A j \in Index : buf'[j] = IF Offset(j) < n THEN c[Offset(j) + 1] ELSE buf[j]
  BY <1>1 DEF PutsAt
<1>5. fits \in Seq(Byte) /\ Len(fits) = n /\ \A i \in 1..n : fits[i] = c[i]
  <2>1. nbytes - Len(Contents) \in Int
    BY <1>3, Indices
  <2>2. /\ fits \in Seq(Byte)
        /\ Len(fits) = IF nbytes - Len(Contents) <= 0 THEN 0
                       ELSE IF nbytes - Len(Contents) <= Len(c) THEN nbytes - Len(Contents)
                       ELSE Len(c)
        /\ \A i \in 1..Len(fits) : fits[i] = c[i]
    BY <1>1, <2>1, FirstNProperties
  <2> HIDE DEF fits
  <2>3. Len(fits) = n
    BY <1>1, <1>2, <2>2, Indices DEF CellsOK, Lesser
  <2> QED
    BY <2>2, <2>3
<1>c. old = Distance(pFromBuf, pToBuf) /\ rngNBytes' = Distance(pFromBuf', pToBuf')
  BY CountIsDistance, CountIsDistanceNext
<1>d. pFromBuf \in Index /\ pToBuf \in Index
  BY DEF TypeOK
<1> HIDE DEF n, fits, old
<1>6. rngNBytes' = old + n
  BY <1>3, <1>4, <1>c, <1>d, WrapAdds
<1>7. /\ Contents' \in Seq(Byte) /\ Len(Contents') = old + n
      /\ \A i \in 1..(old + n) : Contents'[i] = buf'[Wrap(pFromBuf + i - 1)]
  BY <1>2, <1>4, <1>6 DEF CellsOK, Wrap
<1>8. /\ FifoPut(Contents, c, nbytes) \in Seq(Byte)
      /\ Len(FifoPut(Contents, c, nbytes)) = old + n
      /\ \A i \in 1..(old + n) :
           FifoPut(Contents, c, nbytes)[i] = IF i <= old THEN Contents[i] ELSE fits[i - old]
  <2>1. Contents \in Seq(Byte)
    BY <1>2 DEF CellsOK
  <2> DEFINE both == Contents \o fits
  <2>2. FifoPut(Contents, c, nbytes) = both
    BY DEF FifoPut, fits
  <2>3. /\ both \in Seq(Byte) /\ Len(both) = Len(Contents) + Len(fits)
        /\ \A i \in 1..Len(Contents) + Len(fits) :
             both[i] = IF i <= Len(Contents) THEN Contents[i] ELSE fits[i - Len(Contents)]
    BY <1>5, <2>1, ConcatProperties
  <2> HIDE DEF both
  <2>4. Len(Contents) = old /\ Len(fits) = n
    BY <1>3, <1>5, Zenon
  <2>5. /\ both \in Seq(Byte) /\ Len(both) = old + n
        /\ \A i \in 1..(old + n) : both[i] = IF i <= old THEN Contents[i] ELSE fits[i - old]
    BY <2>3, <2>4, Zenon
  <2> QED
    BY <2>2, <2>5
<1>9. ASSUME NEW i \in 1..(old + n)
      PROVE  Contents'[i] = FifoPut(Contents, c, nbytes)[i]
  <2> DEFINE j == Wrap(pFromBuf + i - 1)
  <2>1. /\ j \in Index /\ i \in 1..nbytes /\ i \in Nat
        /\ i > old => Offset(j) = i - old - 1
        /\ i <= old => Offset(j) + old >= bufSize
    <3>1. i \in 1..nbytes
      BY <1>3, Indices
    <3> QED
      BY <1>c, <1>d, <3>1, WrapDistance DEF Offset
  <2> HIDE DEF j
  <2>a. Offset(j) \in Int
    BY <1>d, <2>1, Indices DEF Offset, Distance
  <2>2. CASE i <= old
    <3>1. ~(Offset(j) < n)
      BY <1>3, <2>1, <2>a, <2>2, Indices
    <3>2. Contents[i] = buf[j]
      BY <1>2, <1>3, <2>1, <2>2 DEF CellsOK, j, old
    <3> QED
      BY <1>b, <1>3, <1>7, <1>8, <2>1, <2>2, <3>1, <3>2 DEF j
  <2>3. CASE old < i
    <3>1. Offset(j) = i - old - 1 /\ Offset(j) < n
      BY <1>3, <2>1, <2>a, <2>3
    <3>2. buf'[j] = c[i - old]
      <4>1. Offset(j) + 1 = i - old
        BY <1>3, <2>1, <3>1
      <4> QED
        BY <1>b, <2>1, <3>1, <4>1
    <3>3. fits[i - old] = c[i - old]
      BY <1>3, <1>5, <2>1, <2>3
    <3> QED
      BY <1>3, <1>7, <1>8, <2>1, <2>3, <3>2, <3>3 DEF j
  <2> QED
    BY <1>3, <2>1, <2>2, <2>3
<1>10. Contents' = FifoPut(Contents, c, nbytes)
  BY <1>7, <1>8, <1>9, SameBytes
<1>11. Len(Contents') - Len(Contents) = n
  BY <1>3, <1>7
<1>12. Promise!Put(c)
  BY <1>4, <1>10, <1>11 DEF Promise!Put, Promise!Returned, Returned,
     FifoPut, FirstN, Promise!FifoPut, Promise!FirstN
<1>13. AheadInRing'
  <2>1. Len(ahead') = 0 /\ rngFreeBytes' \in Nat
    BY <1>2, <1>4, Indices DEF CellsOK
  <2> QED
    BY <2>1 DEF AheadInRing
<1> QED
  BY <1>12, <1>13

-----------------------------------------------------------------------------
(* Getting *)

LEMMA FetchedCells ==
  ASSUME TypeOK, NEW at \in Nat, NEW n \in Nat, at + n <= bufSize
  PROVE  /\ Fetched(at, n) \in Seq(Byte) /\ Len(Fetched(at, n)) = n
         /\ \A i \in 1..n : Fetched(at, n)[i] = buf[at + i - 1]
<1>1. Fetched(at, n) = [i \in 1..n |-> buf[at + i - 1]]
  BY DEF Fetched
<1>2. Fetched(at, n) \in Seq(Byte)
  BY FetchedType
<1> DEFINE s == Fetched(at, n)
<1>3. s \in Seq(Byte) /\ DOMAIN s = 1..n /\ \A i \in 1..n : s[i] = buf[at + i - 1]
  BY <1>1, <1>2
<1> HIDE DEF s
<1>4. Len(s) = n
  BY <1>3
<1> QED
  BY <1>3, <1>4 DEF s

LEMMA GetCells ==
  ASSUME TypeOK, NEW k \in Nat, rngBufGet(k)
  PROVE  GetsAt(k)
<1> DEFINE n == Lesser(k, rngNBytes)
           cells == [i \in 1..n |-> buf[Wrap(pFromBuf + i - 1)]]
<1>1. UNCHANGED <<pToBuf, buf, ahead>>
  BY DEF rngBufGet
<1>2. CASE pToBuf >= pFromBuf
  <2>1. n = Lesser(k, pToBuf - pFromBuf)
    BY <1>2, Indices DEF rngNBytes
  <2>2. n \in Nat /\ pFromBuf + n <= pToBuf
    BY <1>2, <2>1, Indices DEF Lesser
  <2>3. pFromBuf' = pFromBuf + n /\ ret' = Returned(n, Fetched(pFromBuf, n))
    BY <1>2, <2>1, Indices DEF rngBufGet
  <2> HIDE DEF n
  <2>4. \A i \in 1..n : Wrap(pFromBuf + i - 1) = pFromBuf + i - 1
    BY <2>2, Indices DEF Wrap
  <2>5. Fetched(pFromBuf, n) = cells
    BY <2>4 DEF Fetched
  <2>6. pFromBuf' = Wrap(pFromBuf + n)
    BY <2>2, <2>3, Indices DEF Wrap
  <2> QED
    BY <1>1, <2>3, <2>5, <2>6 DEF GetsAt, n
<1>3. CASE pToBuf < pFromBuf
  <2> DEFINE got == Lesser(k, bufSize - pFromBuf)
             got2 == Lesser(k - got, pToBuf)
  <2>1. rngNBytes = (bufSize - pFromBuf) + pToBuf
    BY <1>3, Indices DEF rngNBytes
  <2>2. IF pFromBuf + got = bufSize
        THEN /\ pFromBuf' = got2
             /\ ret' = Returned(got + got2, Fetched(pFromBuf, got) \o Fetched(0, got2))
        ELSE /\ pFromBuf' = pFromBuf + got
             /\ ret' = Returned(got, Fetched(pFromBuf, got))
    BY <1>3, Indices DEF rngBufGet
  <2>3. CASE k < bufSize - pFromBuf
    <3>1. got = k /\ n = k /\ pFromBuf + got # bufSize
      BY <1>3, <2>1, <2>3, Indices DEF Lesser
    <3> HIDE DEF got, n
    <3>2. pFromBuf' = pFromBuf + n /\ ret' = Returned(n, Fetched(pFromBuf, n))
      BY <2>2, <3>1
    <3>3. \A i \in 1..n : Wrap(pFromBuf + i - 1) = pFromBuf + i - 1
      BY <2>3, <3>1, Indices DEF Wrap
    <3>4. Fetched(pFromBuf, n) = cells
      BY <3>3 DEF Fetched
    <3>5. pFromBuf' = Wrap(pFromBuf + n)
      BY <2>3, <3>1, <3>2, Indices DEF Wrap
    <3> QED
      BY <1>1, <3>2, <3>4, <3>5 DEF GetsAt, n
  <2>4. CASE bufSize - pFromBuf <= k
    <3>1. got = bufSize - pFromBuf /\ pFromBuf + got = bufSize /\ got \in Nat
      BY <1>3, <2>4, Indices DEF Lesser
    <3>2. got2 \in Nat /\ got2 <= pToBuf /\ n = got + got2
      <4>1. k - got \in Nat
        BY <2>4, <3>1, Indices
      <4> HIDE DEF got
      <4>2. CASE k - got <= pToBuf
        BY <2>1, <3>1, <4>1, <4>2, Indices DEF Lesser
      <4>3. CASE pToBuf < k - got
        BY <2>1, <3>1, <4>1, <4>3, Indices DEF Lesser
      <4> QED
        BY <4>1, <4>2, <4>3, Indices
    <3>3. pFromBuf' = got2
          /\ ret' = Returned(got + got2, Fetched(pFromBuf, got) \o Fetched(0, got2))
      BY <2>2, <3>1
    <3> HIDE DEF got, got2, n
    <3>4. \A i \in 1..n : Wrap(pFromBuf + i - 1) = IF i <= got THEN pFromBuf + i - 1 ELSE i - got - 1
      BY <1>3, <3>1, <3>2, Indices DEF Wrap
    <3>5. Fetched(pFromBuf, got) \o Fetched(0, got2) = cells
      <4>1. /\ Fetched(pFromBuf, got) \in Seq(Byte) /\ Len(Fetched(pFromBuf, got)) = got
            /\ \A i \in 1..got : Fetched(pFromBuf, got)[i] = buf[pFromBuf + i - 1]
        <5>1. pFromBuf \in Nat /\ pFromBuf + got <= bufSize
          BY <3>1, Indices
        <5> QED
          BY <3>1, <5>1, FetchedCells
      <4>2. 0 \in Nat /\ 0 + got2 <= bufSize
        BY <3>2, Indices
      <4>3. /\ Fetched(0, got2) \in Seq(Byte) /\ Len(Fetched(0, got2)) = got2
            /\ \A i \in 1..got2 : Fetched(0, got2)[i] = buf[i - 1]
        <5>1. /\ Fetched(0, got2) \in Seq(Byte) /\ Len(Fetched(0, got2)) = got2
              /\ \A i \in 1..got2 : Fetched(0, got2)[i] = buf[0 + i - 1]
          BY <3>2, <4>2, FetchedCells
        <5> QED
          BY <3>2, <5>1
      <4> DEFINE both == Fetched(pFromBuf, got) \o Fetched(0, got2)
      <4>4. /\ both \in Seq(Byte) /\ Len(both) = n
            /\ \A i \in 1..n : both[i] = IF i <= got THEN buf[pFromBuf + i - 1]
                                         ELSE buf[i - got - 1]
        <5>1. /\ both \in Seq(Byte) /\ Len(both) = got + got2
              /\ \A i \in 1..(got + got2) :
                   both[i] = IF i <= got THEN Fetched(pFromBuf, got)[i]
                             ELSE Fetched(0, got2)[i - got]
          <6> DEFINE s == Fetched(pFromBuf, got)
                     u == Fetched(0, got2)
          <6>1. s \in Seq(Byte) /\ u \in Seq(Byte) /\ Len(s) = got /\ Len(u) = got2
            BY <4>1, <4>3
          <6> HIDE DEF s, u
          <6>2. /\ s \o u \in Seq(Byte) /\ Len(s \o u) = got + got2
                /\ \A i \in 1..(got + got2) : (s \o u)[i] = IF i <= got THEN s[i] ELSE u[i - got]
            BY <6>1, ConcatProperties
          <6> QED
            BY <6>2 DEF s, u
        <5> HIDE DEF both
        <5>2. ASSUME NEW i \in 1..n
              PROVE  both[i] = IF i <= got THEN buf[pFromBuf + i - 1] ELSE buf[i - got - 1]
          <6>1. i \in 1..(got + got2)
            BY <3>2
          <6>2. CASE i <= got
            <7>1. i \in 1..got
              BY <3>1, <3>2, <6>1, <6>2
            <7> QED
              BY <4>1, <5>1, <6>1, <6>2, <7>1
          <6>3. CASE ~(i <= got)
            <7>1. i - got \in 1..got2
              BY <3>1, <3>2, <6>1, <6>3
            <7> QED
              BY <4>3, <5>1, <6>1, <6>3, <7>1
          <6> QED
            BY <6>2, <6>3
        <5> QED
          BY <3>2, <5>1, <5>2
      <4> HIDE DEF both
      <4>5. \A i \in 1..n : both[i] = cells[i]
        BY <3>4, <4>4
      <4>6. both = [i \in 1..n |-> both[i]]
        BY <4>4
      <4> QED
        BY <4>5, <4>6 DEF both
    <3>6. pFromBuf' = Wrap(pFromBuf + n)
      BY <1>3, <3>1, <3>2, <3>3, Indices DEF Wrap
    <3> QED
      BY <1>1, <3>2, <3>3, <3>5, <3>6 DEF GetsAt, n
  <2> QED
    BY <2>3, <2>4, Indices
<1> QED
  BY <1>2, <1>3, Indices

LEMMA ElemGetCells ==
  ASSUME TypeOK, rngElemGet
  PROVE  GetsAt(1)
<1> DEFINE n == Lesser(1, rngNBytes)
<1>1. UNCHANGED <<pToBuf, buf, ahead>>
  BY DEF rngElemGet
<1>2. CASE pToBuf = pFromBuf
  <2>1. n = 0 /\ pFromBuf' = Wrap(pFromBuf + n)
    BY <1>2, Indices DEF rngElemGet, rngNBytes, Lesser, Wrap
  <2>2. ret' = Returned(0, <<>>)
    BY <1>2 DEF rngElemGet
  <2>3. [i \in 1..0 |-> buf[Wrap(pFromBuf + i - 1)]] = <<>>
    OBVIOUS
  <2> HIDE DEF n
  <2> QED
    BY <1>1, <2>1, <2>2, <2>3 DEF GetsAt, n
<1>3. CASE pToBuf # pFromBuf
  <2>1. n = 1
    BY <1>3, Indices DEF rngNBytes, Lesser
  <2>2. /\ pFromBuf' = IF pFromBuf + 1 = bufSize THEN 0 ELSE pFromBuf + 1
        /\ ret' = Returned(1, <<buf[pFromBuf]>>)
    BY <1>3 DEF rngElemGet
  <2>3. pFromBuf' = Wrap(pFromBuf + 1)
    BY <2>2, Indices DEF Wrap
  <2>4. [i \in 1..1 |-> buf[Wrap(pFromBuf + i - 1)]] = <<buf[pFromBuf]>>
    <3>1. \A i \in 1..1 : Wrap(pFromBuf + i - 1) = pFromBuf
      BY Indices DEF Wrap
    <3> QED
      BY <3>1
  <2> HIDE DEF n
  <2> QED
    BY <1>1, <2>1, <2>2, <2>3, <2>4 DEF GetsAt, n
<1> QED
  BY <1>2, <1>3

\* What is got was at the front, and the rest moves up.
LEMMA GetImplements ==
  ASSUME RInv, TypeOK', NEW k \in Nat, GetsAt(k)
  PROVE  Promise!Get(k) /\ AheadInRing'
<1> DEFINE n == Lesser(k, rngNBytes)
           old == rngNBytes
           cells == [i \in 1..n |-> buf[Wrap(pFromBuf + i - 1)]]
<1>1. TypeOK /\ CellsOK /\ CellsOK'
  BY ContentsCells, ContentsCellsNext DEF RInv
<1>2. n \in Nat /\ n <= k /\ n <= old /\ old \in Nat /\ old <= nbytes /\ Len(Contents) = old
      /\ (n = k \/ n = old)
  BY <1>1, Indices DEF CellsOK, Lesser
<1>3. /\ pFromBuf' = Wrap(pFromBuf + n) /\ ret' = Returned(n, cells)
      /\ UNCHANGED <<pToBuf, buf, ahead>>
  BY DEF GetsAt
<1>4. old = Distance(pFromBuf, pToBuf) /\ rngNBytes' = Distance(pFromBuf', pToBuf')
  BY <1>1, CountIsDistance, CountIsDistanceNext
<1>5. pFromBuf \in Nat /\ pToBuf \in Nat /\ nbytes \in Nat /\ pFromBuf <= nbytes /\ pToBuf <= nbytes
  BY <1>1, Indices
<1> HIDE DEF n, old
<1>6. rngNBytes' = old - n
  <2>1. CASE pFromBuf + n >= bufSize
    <3>1. pFromBuf' = pFromBuf + n - bufSize /\ pToBuf' = pToBuf
      BY <1>2, <1>3, <1>5, <2>1 DEF Wrap
    <3>2. ~(pToBuf >= pFromBuf)
      BY <1>2, <1>4, <1>5, <2>1 DEF Distance
    <3>3. old = pToBuf - pFromBuf + bufSize
      BY <1>4, <3>2 DEF Distance
    <3>4. pToBuf >= pFromBuf'
      BY <1>2, <1>5, <2>1, <3>1, <3>3
    <3> QED
      BY <1>2, <1>4, <1>5, <3>1, <3>3, <3>4 DEF Distance
  <2>2. CASE pFromBuf + n < bufSize
    <3>1. pFromBuf' = pFromBuf + n /\ pToBuf' = pToBuf
      BY <1>2, <1>3, <1>5, <2>2 DEF Wrap
    <3>2. CASE pToBuf >= pFromBuf
      BY <1>2, <1>4, <1>5, <3>1, <3>2 DEF Distance
    <3>3. CASE pToBuf < pFromBuf
      BY <1>2, <1>4, <1>5, <3>1, <3>3 DEF Distance
    <3> QED
      BY <1>5, <3>2, <3>3
  <2> QED
    BY <1>2, <1>5, <2>1, <2>2
<1>7. /\ AfterN(Contents, k) \in Seq(Byte) /\ Len(AfterN(Contents, k)) = old - n
      /\ \A i \in 1..(old - n) : AfterN(Contents, k)[i] = Contents[k + i]
  <2>1. Contents \in Seq(Byte)
    BY <1>1 DEF CellsOK
  <2>2. /\ AfterN(Contents, k) \in Seq(Byte)
        /\ Len(AfterN(Contents, k)) = IF k < Len(Contents) THEN Len(Contents) - k ELSE 0
        /\ \A i \in 1..Len(AfterN(Contents, k)) : AfterN(Contents, k)[i] = Contents[k + i]
    BY <2>1, AfterNProperties
  <2>3. Len(AfterN(Contents, k)) = old - n
    BY <1>2, <2>2
  <2> QED
    BY <2>2, <2>3
<1>8. /\ Contents' \in Seq(Byte) /\ Len(Contents') = old - n
      /\ \A i \in 1..(old - n) : Contents'[i] = buf[Wrap(Wrap(pFromBuf + n) + i - 1)]
  BY <1>1, <1>3, <1>6 DEF CellsOK, Wrap
<1>9. \A i \in 1..(old - n) : Contents[n + i] = buf[Wrap(pFromBuf + (n + i) - 1)]
  <2>1. \A i \in 1..(old - n) : n + i \in 1..old
    BY <1>2
  <2> QED
    BY <1>1, <2>1 DEF CellsOK, old
<1>10. ASSUME NEW i \in 1..(old - n) PROVE AfterN(Contents, k)[i] = Contents'[i]
  <2>1. n = k
    BY <1>2
  <2>2. Wrap(Wrap(pFromBuf + n) + i - 1) = Wrap(pFromBuf + (n + i) - 1)
    BY <1>2, <1>5 DEF Wrap
  <2> QED
    BY <1>7, <1>8, <1>9, <2>1, <2>2
<1>11. Contents' = AfterN(Contents, k)
  BY <1>7, <1>8, <1>10, SameBytes
<1>12. cells = FirstN(Contents, k)
  <2>1. /\ FirstN(Contents, k) \in Seq(Byte)
        /\ Len(FirstN(Contents, k)) = n
        /\ \A i \in 1..n : FirstN(Contents, k)[i] = Contents[i]
    <3>1. k \in Int
      OBVIOUS
    <3>2. /\ FirstN(Contents, k) \in Seq(Byte)
          /\ Len(FirstN(Contents, k)) = IF k <= 0 THEN 0
                                        ELSE IF k <= Len(Contents) THEN k ELSE Len(Contents)
          /\ \A i \in 1..Len(FirstN(Contents, k)) : FirstN(Contents, k)[i] = Contents[i]
      BY <1>1, <3>1, FirstNProperties DEF CellsOK
    <3> QED
      BY <1>2, <3>2
  <2>2. \A i \in 1..n : Contents[i] = cells[i]
    <3>1. \A i \in 1..n : i \in 1..old
      BY <1>2
    <3> QED
      BY <1>1, <3>1 DEF CellsOK, old
  <2>3. FirstN(Contents, k) = [i \in 1..n |-> FirstN(Contents, k)[i]]
    BY <2>1
  <2> QED
    BY <2>1, <2>2, <2>3
<1>13. Promise!Get(k)
  <2>1. Len(Contents) - Len(Contents') = n
    BY <1>2, <1>8
  <2>2. ret' = Promise!Returned(Len(Contents) - Len(Contents'), FirstN(Contents, k))
    BY <1>3, <1>12, <2>1 DEF Returned, Promise!Returned
  <2> QED
    BY <1>3, <1>11, <2>2 DEF Promise!Get, FirstN, AfterN, Promise!FirstN, Promise!AfterN
<1>14. AheadInRing'
  <2>1. rngFreeBytes' = nbytes - rngNBytes' /\ rngFreeBytes = nbytes - old
    BY <1>1 DEF CellsOK, old
  <2>2. Len(ahead) <= rngFreeBytes /\ Len(ahead) \in Nat
    BY LenProperties DEF RInv, AheadInRing, TypeOK
  <2>3. Len(ahead') <= rngFreeBytes'
    BY <1>2, <1>3, <1>5, <1>6, <2>1, <2>2
  <2> QED
    BY <1>3, <2>3 DEF RInv, AheadInRing, Wrap
<1> QED
  BY <1>13, <1>14

-----------------------------------------------------------------------------
(* Writing ahead *)

\* The cell behind what is ahead is none that holds something.
LEMMA PutAheadImplements ==
  ASSUME RInv, TypeOK', NEW b \in Byte, rngPutAhead(b)
  PROVE  Promise!PutAhead(b) /\ AheadInRing'
<1> DEFINE m == Len(ahead)
           old == rngNBytes
           at == Wrap(pToBuf + m)
<1>1. TypeOK /\ CellsOK /\ CellsOK'
  BY ContentsCells, ContentsCellsNext DEF RInv
<1>2. ahead \in Seq(Byte) /\ m \in Nat /\ old \in Nat /\ m + 1 + old <= nbytes /\ nbytes \in Nat
      /\ rngFreeBytes = nbytes - old
  <2>1. ahead \in Seq(Byte) /\ m \in Nat
    BY <1>1, LenProperties DEF TypeOK
  <2>2. old \in Nat /\ nbytes \in Nat /\ rngFreeBytes = nbytes - old
    BY <1>1, Indices DEF CellsOK
  <2>3. m + 1 <= rngFreeBytes
    BY DEF rngPutAhead
  <2> HIDE DEF m, old
  <2> QED
    BY <2>1, <2>2, <2>3
<1>3. /\ buf' = [buf EXCEPT ![at] = b]
      /\ ahead' = Append(ahead, b) /\ ret' = Returned(0, <<>>)
      /\ pToBuf' = pToBuf /\ pFromBuf' = pFromBuf
  BY DEF rngPutAhead, Wrap
<1>4. pFromBuf \in Index /\ pToBuf \in Index /\ old = Distance(pFromBuf, pToBuf)
  BY <1>1, CountIsDistance DEF TypeOK
<1>5. rngNBytes' = old /\ rngFreeBytes' = rngFreeBytes
  BY <1>3 DEF rngNBytes, rngFreeBytes
<1>6. buf \in [Index -> Byte]
  BY <1>1 DEF TypeOK
<1> HIDE DEF m, old
<1>7. ASSUME NEW i \in 1..(m + 1)
      PROVE  Wrap(pToBuf + i - 1) \in Index /\ Distance(pToBuf, Wrap(pToBuf + i - 1)) = i - 1
  <2>1. i \in 1..nbytes /\ i > 0
    BY <1>2
  <2>2. Distance(pToBuf, pToBuf) = 0
    BY <1>1, Indices DEF Distance
  <2>3. i > Distance(pToBuf, pToBuf)
    BY <2>1, <2>2
  <2>4. /\ Wrap(pToBuf + i - 1) \in Index
        /\ Distance(pToBuf, Wrap(pToBuf + i - 1)) = i - Distance(pToBuf, pToBuf) - 1
    BY <1>4, <2>1, <2>3, WrapDistance, Zenon
  <2> QED
    BY <2>1, <2>2, <2>4
<1>8. at \in Index /\ Distance(pToBuf, at) = m
  <2>1. m + 1 \in 1..(m + 1) /\ pToBuf + (m + 1) - 1 = pToBuf + m
    BY <1>1, <1>2, Indices
  <2>2. /\ Wrap(pToBuf + (m + 1) - 1) \in Index
        /\ Distance(pToBuf, Wrap(pToBuf + (m + 1) - 1)) = (m + 1) - 1
    BY <1>7, <2>1, Zenon
  <2>3. at \in Index /\ Distance(pToBuf, at) = (m + 1) - 1
    BY <2>1, <2>2, Zenon
  <2> QED
    BY <1>2, <2>3
<1> HIDE DEF at
<1>9. Contents' = Contents
  <2>1. ASSUME NEW i \in 1..old PROVE Contents'[i] = Contents[i]
    <3>1. i \in 1..nbytes /\ i <= Distance(pFromBuf, pToBuf)
      BY <1>2, <1>4
    <3>2. Wrap(pFromBuf + i - 1) \in Index
          /\ Distance(pToBuf, Wrap(pFromBuf + i - 1)) + old >= bufSize
      BY <1>4, <3>1, WrapDistance
    <3>3. Wrap(pFromBuf + i - 1) # at
      BY <1>2, <1>8, <3>2
    <3>4. buf'[Wrap(pFromBuf + i - 1)] = buf[Wrap(pFromBuf + i - 1)]
      BY <1>3, <1>6, <3>2, <3>3
    <3>5. Contents[i] = buf[Wrap(pFromBuf + i - 1)] /\ Contents'[i] = buf'[Wrap(pFromBuf + i - 1)]
      BY <1>1, <1>3, <1>5 DEF CellsOK, Wrap, old
    <3> QED
      BY <3>4, <3>5
  <2>2. Contents \in Seq(Byte) /\ Contents' \in Seq(Byte) /\ Len(Contents) = old /\ Len(Contents') = old
    BY <1>1, <1>5 DEF CellsOK, old
  <2> QED
    BY <2>1, <2>2, SameBytes
<1>10. Promise!PutAhead(b)
  <2>1. Len(ahead) < nbytes - Len(Contents)
    BY <1>1, <1>2 DEF CellsOK, m, old
  <2> QED
    BY <1>3, <1>9, <2>1 DEF Promise!PutAhead, Promise!Room, Promise!Returned, Returned
<1>11. AheadInRing'
  <2>1. Len(ahead') = m + 1 /\ \A k \in 1..(m + 1) : ahead'[k] = IF k <= m THEN ahead[k] ELSE b
    BY <1>2, <1>3, AppendProperties DEF m
  <2>2. Len(ahead') <= rngFreeBytes'
    BY <1>2, <1>5, <2>1
  <2>3. ASSUME NEW k \in 1..(m + 1) PROVE buf'[Wrap(pToBuf + k - 1)] = ahead'[k]
    <3>1. k \in Nat /\ Wrap(pToBuf + k - 1) \in Index /\ Distance(pToBuf, Wrap(pToBuf + k - 1)) = k - 1
      BY <1>2, <1>7
    <3>2. CASE k <= m
      <4>1. Wrap(pToBuf + k - 1) # at
        BY <1>2, <1>8, <3>1, <3>2
      <4>2. buf[Wrap(pToBuf + k - 1)] = ahead[k]
        BY <1>2, <3>1, <3>2 DEF RInv, AheadInRing, m
      <4> QED
        BY <1>3, <1>6, <2>1, <3>1, <3>2, <4>1, <4>2
    <3>3. CASE ~(k <= m)
      <4>1. k = m + 1 /\ pToBuf + k - 1 = pToBuf + m
        BY <1>2, <1>4, <3>3
      <4>2. Wrap(pToBuf + k - 1) = at
        BY <4>1 DEF at
      <4> QED
        BY <1>3, <1>6, <1>8, <2>1, <3>3, <4>2
    <3> QED
      BY <3>2, <3>3
  <2> QED
    BY <1>3, <2>1, <2>2, <2>3 DEF AheadInRing, Wrap
<1> QED
  BY <1>10, <1>11

\* What was written ahead becomes the end of the queue.
LEMMA MoveAheadImplements ==
  ASSUME RInv, TypeOK', NEW k \in Nat, rngMoveAhead(k)
  PROVE  Promise!MoveAhead(k) /\ AheadInRing'
<1> DEFINE m == Len(ahead)
           old == rngNBytes
           moved == FirstN(ahead, k)
           rest == AfterN(ahead, k)
<1>1. TypeOK /\ CellsOK /\ CellsOK'
  BY ContentsCells, ContentsCellsNext DEF RInv
<1>2. /\ m \in Nat /\ k <= m /\ old \in Nat /\ m + old <= nbytes /\ nbytes \in Nat
      /\ rngFreeBytes = nbytes - old
  <2>1. m \in Nat
    BY <1>1, LenProperties DEF TypeOK
  <2>2. old \in Nat /\ nbytes \in Nat /\ rngFreeBytes = nbytes - old
    BY <1>1, Indices DEF CellsOK
  <2>3. k <= m /\ m <= rngFreeBytes
    BY DEF rngMoveAhead, RInv, AheadInRing
  <2> HIDE DEF m, old
  <2> QED
    BY <2>1, <2>2, <2>3
<1>3. pFromBuf \in Index /\ pToBuf \in Index /\ old = Distance(pFromBuf, pToBuf)
      /\ rngNBytes' = Distance(pFromBuf', pToBuf')
  BY <1>1, CountIsDistance, CountIsDistanceNext DEF TypeOK
<1>4. /\ pToBuf' = Wrap(pToBuf + k)
      /\ ahead' = rest /\ ret' = Returned(0, <<>>)
      /\ pFromBuf' = pFromBuf /\ buf' = buf
  <2>1. /\ pToBuf' = IF k + pToBuf >= bufSize THEN k + pToBuf - bufSize ELSE k + pToBuf
        /\ ahead' = rest /\ ret' = Returned(0, <<>>) /\ pFromBuf' = pFromBuf /\ buf' = buf
    BY DEF rngMoveAhead
  <2>2. pToBuf' = Wrap(pToBuf + k)
    BY <1>2, <1>3, <2>1 DEF Wrap
  <2> QED
    BY <2>1, <2>2
<1>5. /\ moved \in Seq(Byte) /\ Len(moved) = k /\ \A i \in 1..k : moved[i] = ahead[i]
  <2>1. k \in Int /\ ahead \in Seq(Byte)
    BY <1>1 DEF TypeOK
  <2>2. /\ moved \in Seq(Byte)
        /\ Len(moved) = IF k <= 0 THEN 0 ELSE IF k <= Len(ahead) THEN k ELSE Len(ahead)
        /\ \A i \in 1..Len(moved) : moved[i] = ahead[i]
    BY <2>1, FirstNProperties
  <2> HIDE DEF moved
  <2>3. Len(moved) = k
    BY <1>2, <2>2
  <2> QED
    BY <2>2, <2>3
<1>6. /\ rest \in Seq(Byte) /\ Len(rest) = m - k /\ \A i \in 1..(m - k) : rest[i] = ahead[k + i]
  <2>1. ahead \in Seq(Byte)
    BY <1>1 DEF TypeOK
  <2>2. /\ rest \in Seq(Byte)
        /\ Len(rest) = IF k < Len(ahead) THEN Len(ahead) - k ELSE 0
        /\ \A i \in 1..Len(rest) : rest[i] = ahead[k + i]
    BY <2>1, AfterNProperties
  <2> HIDE DEF rest
  <2>3. Len(rest) = m - k
    BY <1>2, <2>2
  <2> QED
    BY <2>2, <2>3
<1> HIDE DEF m, old, moved, rest
<1>7. rngNBytes' = old + k /\ old + k <= nbytes
  <2>1. Distance(pFromBuf, pToBuf) + k <= nbytes
    BY <1>2, <1>3
  <2> QED
    BY <1>3, <1>4, <2>1, WrapAdds
<1>8. \A i \in 1..m : buf[Wrap(pToBuf + i - 1)] = ahead[i]
  BY DEF RInv, AheadInRing, m
<1>9. Contents' = Contents \o moved
  <2>1. /\ Contents' \in Seq(Byte) /\ Len(Contents') = old + k
        /\ \A i \in 1..(old + k) : Contents'[i] = buf[Wrap(pFromBuf + i - 1)]
    BY <1>1, <1>4, <1>7 DEF CellsOK, Wrap
  <2>2. /\ Contents \in Seq(Byte) /\ Len(Contents) = old
        /\ \A i \in 1..old : Contents[i] = buf[Wrap(pFromBuf + i - 1)]
    BY <1>1 DEF CellsOK, old
  <2>3. /\ Contents \o moved \in Seq(Byte) /\ Len(Contents \o moved) = old + k
        /\ \A i \in 1..(old + k) :
             (Contents \o moved)[i] = IF i <= old THEN Contents[i] ELSE moved[i - old]
    <3> DEFINE both == Contents \o moved
    <3>1. moved \in Seq(Byte)
      BY <1>5
    <3>2. /\ both \in Seq(Byte) /\ Len(both) = Len(Contents) + Len(moved)
          /\ \A i \in 1..Len(Contents) + Len(moved) :
               both[i] = IF i <= Len(Contents) THEN Contents[i] ELSE moved[i - Len(Contents)]
      BY <2>2, <3>1, ConcatProperties
    <3> HIDE DEF both
    <3>3. Len(Contents) = old /\ Len(moved) = k
      BY <1>5, <2>2
    <3>4. /\ both \in Seq(Byte) /\ Len(both) = old + k
          /\ \A i \in 1..(old + k) : both[i] = IF i <= old THEN Contents[i] ELSE moved[i - old]
      BY <3>2, <3>3, Zenon
    <3> QED
      BY <3>4 DEF both
  <2>4. ASSUME NEW i \in 1..(old + k) PROVE Contents'[i] = (Contents \o moved)[i]
    <3>1. CASE i <= old
      <4>1. i \in 1..old /\ i \in 1..(old + k)
        BY <1>2, <3>1
      <4>2. (Contents \o moved)[i] = Contents[i]
        BY <2>3, <3>1, <4>1
      <4> QED
        BY <2>1, <2>2, <4>1, <4>2
    <3>2. CASE old < i
      <4>1. i - old \in 1..k /\ i - old \in 1..m
        BY <1>2, <3>2
      <4>2. Wrap(pFromBuf + i - 1) = Wrap(pToBuf + (i - old) - 1)
        <5>1. CASE pToBuf >= pFromBuf
          <6>1. old = pToBuf - pFromBuf
            BY <1>3, <5>1 DEF Distance
          <6>2. pFromBuf + i - 1 = pToBuf + (i - old) - 1
            BY <1>2, <1>3, <6>1
          <6> QED
            BY <6>2
        <5>2. CASE pToBuf < pFromBuf
          <6>1. old = pToBuf - pFromBuf + bufSize
            BY <1>2, <1>3, <5>2 DEF Distance
          <6>2. pFromBuf + i - 1 = pToBuf + (i - old) - 1 + bufSize
            BY <1>2, <1>3, <6>1
          <6>3. pToBuf + (i - old) - 1 < bufSize /\ pToBuf + (i - old) - 1 \in Nat
            BY <1>2, <1>3, <1>7, <3>2, <5>2, <6>1
          <6> QED
            BY <1>2, <6>2, <6>3 DEF Wrap
        <5> QED
          BY <1>2, <1>3, <5>1, <5>2
      <4>3. moved[i - old] = buf[Wrap(pToBuf + (i - old) - 1)]
        BY <1>5, <1>8, <4>1
      <4>4. (Contents \o moved)[i] = moved[i - old]
        BY <1>2, <2>3, <3>2
      <4> QED
        BY <2>1, <4>2, <4>3, <4>4
    <3>3. i <= old \/ old < i
      BY <1>2
    <3> QED
      BY <3>1, <3>2, <3>3
  <2> QED
    BY <2>1, <2>3, <2>4, SameBytes
<1>10. Promise!MoveAhead(k)
  BY <1>2, <1>4, <1>9 DEF Promise!MoveAhead, Promise!Returned, Returned, FirstN, AfterN,
     Promise!FirstN, Promise!AfterN, moved, rest, m
<1>11. AheadInRing'
  <2>1. Len(ahead') = m - k /\ rngFreeBytes' = nbytes - (old + k)
    BY <1>1, <1>4, <1>6, <1>7 DEF CellsOK
  <2>2. ASSUME NEW i \in 1..(m - k) PROVE buf'[Wrap(pToBuf' + i - 1)] = ahead'[i]
    <3>1. k + i \in 1..m /\ ahead'[i] = ahead[k + i]
      BY <1>2, <1>4, <1>6
    <3>2. Wrap(Wrap(pToBuf + k) + i - 1) = Wrap(pToBuf + (k + i) - 1)
      <4>1. pToBuf \in Nat /\ pToBuf <= nbytes /\ i \in Nat /\ k + i <= nbytes
        BY <1>2, <1>3
      <4>2. CASE pToBuf + k >= bufSize
        <5>1. Wrap(pToBuf + k) = (pToBuf + k) - bufSize
          BY <4>2 DEF Wrap
        <5> QED
          BY <1>2, <4>1, <4>2, <5>1 DEF Wrap
      <4>3. CASE pToBuf + k < bufSize
        <5>1. Wrap(pToBuf + k) = pToBuf + k
          BY <1>2, <4>1, <4>3 DEF Wrap
        <5> QED
          BY <1>2, <4>1, <4>3, <5>1 DEF Wrap
      <4> QED
        BY <1>2, <4>1, <4>2, <4>3
    <3> QED
      BY <1>4, <1>8, <3>1, <3>2
  <2>3. Len(ahead') <= rngFreeBytes'
    BY <1>2, <2>1
  <2> QED
    BY <2>1, <2>2, <2>3 DEF AheadInRing, Wrap
<1> QED
  BY <1>10, <1>11

-----------------------------------------------------------------------------
(* The refinement *)

\* An empty ring has no contents.
LEMMA EmptyContents ==
  pToBuf = 0 /\ pFromBuf = 0 => Contents = <<>> /\ rngFreeBytes = nbytes
<1> SUFFICES ASSUME pToBuf = 0, pFromBuf = 0 PROVE Contents = <<>> /\ rngFreeBytes = nbytes
  OBVIOUS
<1>1. rngNBytes = 0 /\ rngFreeBytes = nbytes
  BY RingAssumption DEF rngNBytes, rngFreeBytes
<1> QED
  BY <1>1 DEF Contents

LEMMA EmptyContentsNext ==
  pToBuf' = 0 /\ pFromBuf' = 0 => Contents' = <<>> /\ rngFreeBytes' = nbytes
<1> SUFFICES ASSUME pToBuf' = 0, pFromBuf' = 0 PROVE Contents' = <<>> /\ rngFreeBytes' = nbytes
  OBVIOUS
<1>1. rngNBytes' = 0 /\ rngFreeBytes' = nbytes
  BY RingAssumption DEF rngNBytes, rngFreeBytes
<1> QED
  BY <1>1 DEF Contents

LEMMA InitRefines == rngCreate => Promise!FifoInit /\ AheadInRing
<1> SUFFICES ASSUME rngCreate PROVE Promise!FifoInit /\ AheadInRing
  OBVIOUS
<1>1. Contents = <<>> /\ rngFreeBytes = nbytes /\ nbytes \in Nat
  BY EmptyContents, RingAssumption DEF rngCreate
<1> QED
  BY <1>1 DEF rngCreate, Promise!FifoInit, Promise!Returned, Returned, AheadInRing

LEMMA FlushRefines == rngFlush => Promise!Flush /\ AheadInRing'
<1> SUFFICES ASSUME rngFlush PROVE Promise!Flush /\ AheadInRing'
  OBVIOUS
<1>1. Contents' = <<>> /\ rngFreeBytes' = nbytes /\ nbytes \in Nat
  BY EmptyContentsNext, RingAssumption DEF rngFlush
<1> QED
  BY <1>1 DEF rngFlush, Promise!Flush, Promise!FifoInit, Promise!Returned, Returned, AheadInRing

LEMMA StepRefines ==
  RInv /\ TypeOK' /\ [Next]_ringVars
    => AheadInRing' /\ [Promise!FifoNext]_(Promise!fifoVars)
<1> SUFFICES ASSUME RInv, TypeOK', [Next]_ringVars
             PROVE  AheadInRing' /\ [Promise!FifoNext]_(Promise!fifoVars)
  OBVIOUS
<1>1. TypeOK /\ nbytes \in Nat \ {0}
  BY RingAssumption DEF RInv
<1>2. ASSUME NEW k \in 0..bufSize, NEW c \in [1..k -> Byte], rngBufPut(c)
      PROVE  AheadInRing' /\ Promise!FifoNext
  <2>1. k \in Nat /\ k \in 0..(nbytes + 1)
    BY <1>1
  <2>2. Promise!Put(c) /\ AheadInRing'
    BY <1>1, <1>2, <2>1, PutCells, PutImplements
  <2> QED
    BY <2>1, <2>2 DEF Promise!FifoNext
<1>3. ASSUME NEW k \in 0..bufSize, rngBufGet(k) PROVE AheadInRing' /\ Promise!FifoNext
  <2>1. k \in Nat /\ k \in 0..(nbytes + 1)
    BY <1>1
  <2>2. Promise!Get(k) /\ AheadInRing'
    BY <1>1, <1>3, <2>1, GetCells, GetImplements
  <2> QED
    BY <2>1, <2>2 DEF Promise!FifoNext
<1>4. ASSUME NEW k \in 0..bufSize, rngMoveAhead(k) PROVE AheadInRing' /\ Promise!FifoNext
  <2>1. k \in Nat /\ k \in 0..(nbytes + 1)
    BY <1>1
  <2>2. Promise!MoveAhead(k) /\ AheadInRing'
    BY <1>4, <2>1, MoveAheadImplements
  <2> QED
    BY <2>1, <2>2 DEF Promise!FifoNext
<1>5. ASSUME NEW b \in Byte, rngElemPut(b) PROVE AheadInRing' /\ Promise!FifoNext
  <2>1. <<b>> \in [1..1 -> Byte] /\ 1 \in Nat /\ 1 \in 0..(nbytes + 1)
    BY <1>1
  <2>2. Promise!Put(<<b>>) /\ AheadInRing'
    BY <1>1, <1>5, <2>1, ElemPutCells, PutImplements
  <2> QED
    BY <2>1, <2>2 DEF Promise!FifoNext
<1>6. ASSUME NEW b \in Byte, rngPutAhead(b) PROVE AheadInRing' /\ Promise!FifoNext
  BY <1>6, PutAheadImplements DEF Promise!FifoNext
<1>7. ASSUME rngElemGet PROVE AheadInRing' /\ Promise!FifoNext
  <2>1. 1 \in Nat /\ 1 \in 0..(nbytes + 1)
    BY <1>1
  <2>2. Promise!Get(1) /\ AheadInRing'
    BY <1>1, <1>7, <2>1, ElemGetCells, GetImplements
  <2> QED
    BY <2>1, <2>2 DEF Promise!FifoNext
<1>8. CASE rngFlush
  BY <1>8, FlushRefines DEF Promise!FifoNext
<1>9. CASE UNCHANGED ringVars
  <2>1. Contents' = Contents /\ AheadInRing'
    BY <1>9 DEF ringVars, Contents, RingByte, rngNBytes, rngFreeBytes, RInv, AheadInRing, Wrap
  <2> QED
    BY <1>9, <2>1 DEF ringVars, Promise!fifoVars
<1> QED
  BY <1>2, <1>3, <1>4, <1>5, <1>6, <1>7, <1>8, <1>9 DEF Next

\* Bytes come out of the ring once, in order, as many as were asked for and are there,
\* whatever the order of the calls and wherever the indices wrap (rnglib.c:138-255,
\* 356-393): it implements the byte queue.
THEOREM RingIsFifo == Spec => ImplementsFifo
<1>1. RInv /\ TypeOK' /\ [Next]_ringVars => RInv' /\ [Promise!FifoNext]_(Promise!fifoVars)
  BY StepRefines DEF RInv
<1>2. TypeOK /\ AheadInRing <=> RInv
  BY DEF RInv
<1> QED
  BY <1>1, <1>2, InitRefines, RingTypeCorrect, PTL
     DEF Spec, ImplementsFifo, Promise!FifoSpec
=============================================================================
