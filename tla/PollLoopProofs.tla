--------------------------- MODULE PollLoopProofs ---------------------------
(***************************************************************************)
(* What PollLoop promises about the pollfd array, for every number of      *)
(* devices and every length of the array: no slot of a device that is gone *)
(* is looked at, no index leads to the slot of another device, and poll()  *)
(* returns in vain only for an error of the listener or the serial line.   *)
(* The proofs rest on one fact about initPollFds: the place of a           *)
(* descriptor in the array is given by the place of its device in the      *)
(* list, and a device only ever moves forward.                             *)
(***************************************************************************)
EXTENDS PollLoop, FifoTheorems, FiniteSetTheorems

\* The hello device is the first of the list, and no device is in it twice.
HelloFirst(list) ==
  /\ Len(list) > 0 /\ list[1] = Hello
  /\ \A i, j \in 1..Len(list) : list[i] = list[j] => i = j

\* How many descriptors the first i - 1 devices of such a list have, and the i-th has.
Off(i) == IF i = 1 THEN 0 ELSE 3 * i - 2
Width(i) == IF i = 1 THEN 4 ELSE 3

\* Between two turns fds is the start of what a rebuild would make of the list.
FdsWanted ==
  ~devChangeFlag =>
    /\ Len(fds) <= Len(Wanted(devList))
    /\ \A s \in 1..Len(fds) : fds[s] = Wanted(devList)[s]

\* An index never points before the place of its descriptor in the next rebuild: the
\* devices in front of it can only leave.
IdxBehind ==
  \A i \in 1..Len(devList), k \in Kind :
    idx[devList[i]][k] # NO_FDS_IDX =>
      \E j \in 1..Len(FdsOf(devList[i])) :
        FdsOf(devList[i])[j] = k /\ Off(i) + j <= idx[devList[i]][k] + 1

\* Every slot is the one the index of its descriptor names.
SlotIndexed ==
  ~devChangeFlag => \A s \in 1..Len(fds) : idx[fds[s].dev][fds[s].kind] = s - 1

ListInv ==
  HelloFirst(devList) /\ FdsWanted /\ IdxBehind /\ SlotIndexed /\ NoStaleIdx /\ AllPolled

IInv == TypeOK /\ ListInv

-----------------------------------------------------------------------------
(* The pollfd array of a list *)

\* What the places of the descriptors in w are, w being made from the first n devices.
Shape(w, list, n) ==
  /\ Len(w) = Off(n + 1)
  /\ \A i \in 1..n : \A j \in 1..Width(i) :
       w[Off(i) + j] = [dev |-> list[i], kind |-> FdsOf(list[i])[j]]
  /\ \A p \in 1..Off(n + 1) : \E i \in 1..n : \E j \in 1..Width(i) : p = Off(i) + j

LEMMA FdsOfDevice ==
  ASSUME NEW d
  PROVE  /\ Len(FdsOf(d)) = IF d = Hello THEN 4 ELSE 3
         /\ \A j \in 1..Len(FdsOf(d)) : FdsOf(d)[j] \in Kind
         /\ \A i, j \in 1..Len(FdsOf(d)) : FdsOf(d)[i] = FdsOf(d)[j] => i = j
<1>1. CASE d = Hello
  BY <1>1 DEF FdsOf, Kind
<1>2. CASE d # Hello
  BY <1>2 DEF FdsOf, Kind
<1> QED
  BY <1>1, <1>2

LEMMA WidthOfDevice ==
  ASSUME NEW list, HelloFirst(list), Len(list) \in Nat, NEW i \in 1..Len(list)
  PROVE  Len(FdsOf(list[i])) = Width(i)
<1>1. list[i] = Hello <=> i = 1
  BY DEF HelloFirst
<1> QED
  BY <1>1, FdsOfDevice DEF Width

\* One more device.
LEMMA ShapeAppend ==
  ASSUME NEW list \in Seq(Device), HelloFirst(list), NEW n \in 0..(Len(list) - 1),
         NEW w \in Seq(Slot), Shape(w, list, n)
  PROVE  LET more == [i \in 1..Len(FdsOf(list[n + 1])) |->
                        [dev |-> list[n + 1], kind |-> FdsOf(list[n + 1])[i]]]
         IN  w \o more \in Seq(Slot) /\ Shape(w \o more, list, n + 1)
<1> DEFINE d == list[n + 1]
           m == Width(n + 1)
           more == [i \in 1..m |-> [dev |-> d, kind |-> FdsOf(d)[i]]]
           r == w \o more
<1>1. Len(list) \in Nat /\ n \in Nat /\ n + 1 \in 1..Len(list) /\ d \in Device
  <2>1. Len(list) \in Nat
    BY LenProperties
  <2> QED
    BY <2>1, ElementOfSeq
<1>2. m \in Nat /\ Len(FdsOf(d)) = m
  BY <1>1, WidthOfDevice DEF Width
<1>3. more \in Seq(Slot) /\ Len(more) = m
  <2>1. \A i \in 1..m : [dev |-> d, kind |-> FdsOf(d)[i]] \in Slot
    BY <1>1, <1>2, FdsOfDevice DEF Slot
  <2> HIDE DEF m, d
  <2> QED
    BY <1>2, <2>1
<1> HIDE DEF more, m, d
<1>4. Len(w) = Off(n + 1) /\ Off(n + 1) \in Nat
  BY <1>1 DEF Shape, Off
<1>5. /\ r \in Seq(Slot) /\ Len(r) = Off(n + 1) + m
      /\ \A p \in 1..(Off(n + 1) + m) :
           r[p] = IF p <= Off(n + 1) THEN w[p] ELSE more[p - Off(n + 1)]
  BY <1>3, <1>4, ConcatProperties
<1>6. Off(n + 1) + m = Off(n + 2)
  BY <1>1 DEF m, Off, Width
<1> HIDE DEF r
<1>7. ASSUME NEW i \in 1..(n + 1), NEW j \in 1..Width(i)
      PROVE  r[Off(i) + j] = [dev |-> list[i], kind |-> FdsOf(list[i])[j]]
  <2>1. CASE i = n + 1
    <3> DEFINE p == Off(i) + j
    <3>1. j \in 1..m /\ p \in 1..(Off(n + 1) + m) /\ ~(p <= Off(n + 1)) /\ p - Off(n + 1) = j
      BY <1>2, <1>4, <2>1 DEF m
    <3> HIDE DEF p
    <3>2. r[p] = more[p - Off(n + 1)]
      BY <1>5, <3>1
    <3>3. r[p] = more[j]
      BY <3>1, <3>2
    <3> QED
      BY <2>1, <3>1, <3>2, <3>3 DEF more, d, p
  <2>2. CASE i <= n
    <3>1. i \in 1..n /\ Off(i) + j \in 1..(Off(n + 1) + m) /\ Off(i) + j <= Off(n + 1)
      BY <1>1, <1>2, <2>2 DEF Off, Width
    <3>2. r[Off(i) + j] = w[Off(i) + j]
      BY <1>5, <3>1
    <3> QED
      BY <3>1, <3>2 DEF Shape
  <2> QED
    BY <1>1, <2>1, <2>2
<1>8. ASSUME NEW p \in 1..(Off(n + 1) + m)
      PROVE  \E i \in 1..(n + 1) : \E j \in 1..Width(i) : p = Off(i) + j
  <2>1. CASE p <= Off(n + 1)
    <3>1. \E i \in 1..n : \E j \in 1..Width(i) : p = Off(i) + j
      <4>1. p \in 1..Off(n + 1)
        BY <1>2, <1>4, <2>1
      <4> QED
        BY <4>1 DEF Shape
    <3> QED
      BY <1>1, <3>1
  <2>2. CASE ~(p <= Off(n + 1))
    <3>1. p - Off(n + 1) \in 1..m /\ p = Off(n + 1) + (p - Off(n + 1)) /\ n + 1 \in 1..(n + 1)
      BY <1>1, <1>2, <1>4, <2>2
    <3> QED
      BY <3>1 DEF m
  <2> QED
    BY <2>1, <2>2
<1>9. Shape(r, list, n + 1)
  <2>1. n + 1 + 1 = n + 2
    BY <1>1
  <2> QED
    BY <1>5, <1>6, <1>7, <1>8, <2>1 DEF Shape
<1> QED
  BY <1>2, <1>5, <1>9 DEF r, more, d

\* initPollFds hands the descriptors to addToFds in this order.
LEMMA WantedShape ==
  ASSUME NEW list \in Seq(Device), HelloFirst(list)
  PROVE  Wanted(list) \in Seq(Slot) /\ Shape(Wanted(list), list, Len(list))
<1> DEFINE N == Len(list)
           more(n) == [i \in 1..Len(FdsOf(list[n])) |->
                         [dev |-> list[n], kind |-> FdsOf(list[n])[i]]]
           V == Seq(Slot)
           base == <<>>
           step == [n \in 1..N |-> [w \in V |-> w \o more(n)]]
           upTo == CHOOSE f : f = [n \in 0..N |-> IF n = 0 THEN <<>> ELSE f[n - 1] \o more(n)]
           T == {n \in 0..N : upTo[n] \in Seq(Slot) /\ Shape(upTo[n], list, n)}
<1>1. N \in Nat
  BY LenProperties
<1>2. Wanted(list) = upTo[N]
  BY DEF Wanted
<1>3. base \in V
  OBVIOUS
<1>4. ASSUME NEW n \in 1..N PROVE more(n) \in Seq(Slot)
  <2>1. list[n] \in Device
    BY <1>1, ElementOfSeq
  <2>2. Len(FdsOf(list[n])) \in Nat
        /\ \A i \in 1..Len(FdsOf(list[n])) : [dev |-> list[n], kind |-> FdsOf(list[n])[i]] \in Slot
    BY <2>1, FdsOfDevice DEF Slot
  <2> QED
    BY <2>2
<1> HIDE DEF N, more
<1>5. step \in [1..N -> [V -> V]]
  <2>1. ASSUME NEW n \in 1..N, NEW w \in V PROVE w \o more(n) \in V
    BY <1>4, ConcatProperties
  <2> HIDE DEF V
  <2> QED
    BY <2>1
<1>6. PICK f \in [0..N -> V] : Recursive(f, N, base, step)
  <2> HIDE DEF V, base, step
  <2> QED
    BY <1>1, <1>3, <1>5, RecursionExists
<1>7. f = [n \in 0..N |-> IF n = 0 THEN <<>> ELSE f[n - 1] \o more(n)]
  <2>1. ASSUME NEW n \in 0..N PROVE f[n] = IF n = 0 THEN <<>> ELSE f[n - 1] \o more(n)
    <3> HIDE DEF V
    <3>1. CASE n = 0
      BY <1>6, <3>1 DEF Recursive
    <3>2. CASE n # 0
      <4>1. n \in 1..N /\ n - 1 \in 0..N
        BY <1>1, <3>2
      <4>2. step[n][f[n - 1]] = f[n - 1] \o more(n)
        BY <4>1
      <4> QED
        BY <1>6, <3>2, <4>1, <4>2 DEF Recursive
    <3> QED
      BY <3>1, <3>2
  <2>2. f = [n \in 0..N |-> f[n]]
    OBVIOUS
  <2> QED
    BY <2>1, <2>2, Zenon
<1>8. upTo = [n \in 0..N |-> IF n = 0 THEN <<>> ELSE upTo[n - 1] \o more(n)]
  BY <1>7, Zenon
<1> HIDE DEF upTo, step, V
<1>9. 0 \in T
  <2>1. upTo[0] = <<>>
    BY <1>1, <1>8
  <2>2. Shape(<<>>, list, 0)
    BY DEF Shape, Off
  <2>3. 0 \in 0..N /\ <<>> \in Seq(Slot)
    BY <1>1
  <2>4. upTo[0] \in Seq(Slot) /\ Shape(upTo[0], list, 0)
    BY <2>1, <2>2, <2>3, Zenon
  <2> QED
    BY <2>3, <2>4, Zenon
<1>10. ASSUME NEW n \in 0..(N - 1), n \in T PROVE n + 1 \in T
  <2>1. PICK k \in 0..N : k = n + 1 /\ k # 0 /\ k - 1 = n
    BY <1>1
  <2>2. upTo[k] = IF k = 0 THEN <<>> ELSE upTo[k - 1] \o more(k)
    BY <1>8, Zenon
  <2>3. upTo[n + 1] = upTo[n] \o more(n + 1)
    BY <2>1, <2>2, Zenon
  <2>4. upTo[n] \in Seq(Slot) /\ Shape(upTo[n], list, n)
    BY <1>10
  <2>5. upTo[n] \o more(n + 1) \in Seq(Slot) /\ Shape(upTo[n] \o more(n + 1), list, n + 1)
    BY <2>4, ShapeAppend DEF more, N
  <2> QED
    BY <2>1, <2>3, <2>5
<1> HIDE DEF T
<1>11. \A n \in 0..N : n \in T
  BY <1>1, <1>9, <1>10, UpToBound
<1>12. N \in T
  BY <1>1, <1>11
<1> QED
  BY <1>2, <1>12 DEF T, N

\* Every place of the array belongs to one descriptor of one device of the list.
LEMMA PlaceOf ==
  ASSUME NEW list \in Seq(Device), HelloFirst(list), NEW p \in 1..Len(Wanted(list))
  PROVE  \E i \in 1..Len(list) : \E j \in 1..Len(FdsOf(list[i])) :
           p = Off(i) + j /\ Wanted(list)[p] = [dev |-> list[i], kind |-> FdsOf(list[i])[j]]
<1>1. Shape(Wanted(list), list, Len(list)) /\ Len(list) \in Nat
  BY WantedShape, LenProperties
<1>2. PICK i \in 1..Len(list) : \E j \in 1..Width(i) : p = Off(i) + j
  BY <1>1 DEF Shape
<1>3. PICK j \in 1..Width(i) : p = Off(i) + j
  BY <1>2
<1>4. Wanted(list)[p] = [dev |-> list[i], kind |-> FdsOf(list[i])[j]]
  BY <1>1, <1>3 DEF Shape
<1>5. j \in 1..Len(FdsOf(list[i]))
  BY <1>1, WidthOfDevice
<1> QED
  BY <1>3, <1>4, <1>5

LEMMA PlaceWanted ==
  ASSUME NEW list \in Seq(Device), HelloFirst(list), NEW i \in 1..Len(list),
         NEW j \in 1..Len(FdsOf(list[i]))
  PROVE  /\ Off(i) + j \in 1..Len(Wanted(list))
         /\ Wanted(list)[Off(i) + j] = [dev |-> list[i], kind |-> FdsOf(list[i])[j]]
<1>1. Shape(Wanted(list), list, Len(list)) /\ Len(list) \in Nat
  BY WantedShape, LenProperties
<1>2. j \in 1..Width(i) /\ Width(i) \in Nat
  BY <1>1, WidthOfDevice DEF Width
<1>3. Off(i) + j \in 1..Off(Len(list) + 1)
  BY <1>1, <1>2 DEF Off, Width
<1> QED
  BY <1>1, <1>2, <1>3 DEF Shape

\* The array of a list has no descriptor twice.
LEMMA PlacesDiffer ==
  ASSUME NEW list \in Seq(Device), HelloFirst(list),
         NEW p \in 1..Len(Wanted(list)), NEW q \in 1..Len(Wanted(list)),
         Wanted(list)[p] = Wanted(list)[q]
  PROVE  p = q
<1>1. PICK i \in 1..Len(list), ii \in 1..Len(list) :
         /\ \E j \in 1..Len(FdsOf(list[i])) :
              p = Off(i) + j /\ Wanted(list)[p] = [dev |-> list[i], kind |-> FdsOf(list[i])[j]]
         /\ \E j \in 1..Len(FdsOf(list[ii])) :
              q = Off(ii) + j /\ Wanted(list)[q] = [dev |-> list[ii], kind |-> FdsOf(list[ii])[j]]
  BY PlaceOf
<1>2. PICK j \in 1..Len(FdsOf(list[i])) :
         p = Off(i) + j /\ Wanted(list)[p] = [dev |-> list[i], kind |-> FdsOf(list[i])[j]]
  BY <1>1
<1>3. PICK jj \in 1..Len(FdsOf(list[ii])) :
         q = Off(ii) + jj /\ Wanted(list)[q] = [dev |-> list[ii], kind |-> FdsOf(list[ii])[jj]]
  BY <1>1
<1>4. list[i] = list[ii] /\ FdsOf(list[i])[j] = FdsOf(list[ii])[jj]
  BY <1>2, <1>3
<1>5. i = ii
  BY <1>4 DEF HelloFirst
<1>6. j = jj
  BY <1>4, <1>5, FdsOfDevice
<1> QED
  BY <1>2, <1>3, <1>5, <1>6

\* Devices at the tail of the list add to the end of the array.
LEMMA WantedGrows ==
  ASSUME NEW list \in Seq(Device), HelloFirst(list), NEW more \in Seq(Device),
         HelloFirst(list \o more)
  PROVE  /\ Len(Wanted(list)) <= Len(Wanted(list \o more))
         /\ \A p \in 1..Len(Wanted(list)) : Wanted(list \o more)[p] = Wanted(list)[p]
<1> DEFINE both == list \o more
<1>1. Len(list) \in Nat /\ Len(more) \in Nat
  BY LenProperties
<1>2. /\ both \in Seq(Device) /\ Len(both) = Len(list) + Len(more)
      /\ \A i \in 1..Len(list) : both[i] = list[i]
  BY <1>1, ConcatProperties
<1> HIDE DEF both
<1>3. HelloFirst(both)
  BY DEF both
<1>4. Shape(Wanted(list), list, Len(list)) /\ Shape(Wanted(both), both, Len(both))
  BY <1>2, <1>3, WantedShape
<1>5. Len(Wanted(list)) <= Len(Wanted(both))
  BY <1>1, <1>2, <1>4 DEF Shape, Off
<1>6. ASSUME NEW p \in 1..Len(Wanted(list)) PROVE Wanted(both)[p] = Wanted(list)[p]
  <2>1. PICK i \in 1..Len(list) : \E j \in 1..Len(FdsOf(list[i])) :
          p = Off(i) + j /\ Wanted(list)[p] = [dev |-> list[i], kind |-> FdsOf(list[i])[j]]
    BY PlaceOf
  <2>2. PICK j \in 1..Len(FdsOf(list[i])) :
          p = Off(i) + j /\ Wanted(list)[p] = [dev |-> list[i], kind |-> FdsOf(list[i])[j]]
    BY <2>1
  <2>3. i \in 1..Len(both) /\ both[i] = list[i]
    BY <1>1, <1>2
  <2>4. Wanted(both)[Off(i) + j] = [dev |-> both[i], kind |-> FdsOf(both[i])[j]]
    BY <1>2, <1>3, <2>3, PlaceWanted
  <2> QED
    BY <2>2, <2>3, <2>4
<1> QED
  BY <1>5, <1>6 DEF both

\* A device that stays moves forward when others leave, and hello stays first.
LEMMA WithoutProperties ==
  ASSUME devList \in Seq(Device), HelloFirst(devList), NEW gone, Hello \notin gone
  PROVE  /\ Without(gone) \in Seq(Device) /\ HelloFirst(Without(gone))
         /\ \A i \in 1..Len(Without(gone)) : \E k \in 1..Len(devList) :
              i <= k /\ Without(gone)[i] = devList[k] /\ devList[k] \notin gone
         /\ gone = {} => Without(gone) = devList
<1> DEFINE keep == {i \in 1..Len(devList) : devList[i] \notin gone}
           s == Without(gone)
<1>1. s = Sublist(devList, keep)
  BY DEF Without
<1>2. s \in Seq(Device) /\ Len(s) \in Nat /\ Len(devList) \in Nat
  BY <1>1, SublistPositions, LenProperties
<1> HIDE DEF s
<1>3. PICK pos \in [1..Len(s) -> Nat] : Positions(s, devList, keep, Len(devList), pos)
  BY <1>1, SublistPositions
<1>4. /\ \A i \in 1..Len(s) : pos[i] \in 1..Len(devList) /\ i <= pos[i] /\ s[i] = devList[pos[i]]
                              /\ devList[pos[i]] \notin gone
      /\ \A i, j \in 1..Len(s) : i < j => pos[i] < pos[j]
      /\ \A k \in 1..Len(devList) : devList[k] \notin gone => \E i \in 1..Len(s) : pos[i] = k
  BY <1>3 DEF Positions
<1>5. Len(s) > 0 /\ s[1] = Hello
  <2>1. 1 \in 1..Len(devList) /\ devList[1] = Hello
    BY <1>2 DEF HelloFirst
  <2>2. PICK i \in 1..Len(s) : pos[i] = 1
    BY <1>4, <2>1
  <2>3. i <= pos[i]
    BY <1>4
  <2>4. i = 1
    BY <1>2, <2>2, <2>3
  <2>5. s[i] = devList[pos[i]] /\ 1 \in 1..Len(s)
    BY <1>4, <2>2, <2>4, Zenon
  <2> QED
    BY <1>2, <2>1, <2>2, <2>4, <2>5
<1>6. ASSUME NEW i \in 1..Len(s), NEW j \in 1..Len(s), s[i] = s[j] PROVE i = j
  <2>0. /\ pos[i] \in 1..Len(devList) /\ s[i] = devList[pos[i]]
        /\ pos[j] \in 1..Len(devList) /\ s[j] = devList[pos[j]]
    BY <1>4
  <2>1. pos[i] = pos[j] /\ pos[i] \in Nat
    <3>1. pos[i] = pos[j]
      BY <1>6, <2>0, Zenon DEF HelloFirst
    <3> QED
      BY <1>2, <2>0, <3>1
  <2>2. ~(i < j) /\ ~(j < i)
    BY <1>4, <2>1
  <2> QED
    BY <1>2, <2>2
<1>7. gone = {} => s = devList
  BY <1>1, SublistAll
<1> QED
  BY <1>2, <1>4, <1>5, <1>6, <1>7 DEF s, HelloFirst

-----------------------------------------------------------------------------
(* Rebuilding *)

LEMMA Slots == MAX_DEVICES \in Nat /\ MAX_DEVICES > 0
BY PollAssumption

LEMMA RebuildKeeps ==
  ASSUME IInv, Rebuild
  PROVE  IInv'
<1> DEFINE W == Wanted(devList)
           F == FirstN(W, MAX_DEVICES)
           slot(d, k) == [dev |-> d, kind |-> k]
           places(d, k) == {s \in 1..Len(F) : F[s] = slot(d, k)}
<1>1. /\ devList \in Seq(Device) /\ HelloFirst(devList) /\ Len(devList) \in Nat
      /\ idx \in [Device -> [Kind -> {NO_FDS_IDX} \cup 0..(MAX_DEVICES - 1)]]
      /\ IdxBehind
  BY LenProperties DEF IInv, ListInv, TypeOK
<1>2. /\ fds' = F /\ devList' = devList /\ devChangeFlag' = FALSE
      /\ lastScanIdx' = lastScanIdx /\ ready' = ready
      /\ lastServed' = lastServed /\ unconnected' = unconnected
  BY DEF Rebuild
<1>3. W \in Seq(Slot) /\ Len(W) \in Nat
  BY <1>1, WantedShape, LenProperties
<1>4. /\ F \in Seq(Slot) /\ Len(F) \in Nat /\ Len(F) <= MAX_DEVICES /\ Len(F) <= Len(W)
      /\ Len(F) = MAX_DEVICES \/ Len(F) = Len(W)
      /\ \A s \in 1..Len(F) : F[s] = W[s]
  <2>1. /\ F \in Seq(Slot)
        /\ Len(F) = IF MAX_DEVICES <= 0 THEN 0
                    ELSE IF MAX_DEVICES <= Len(W) THEN MAX_DEVICES ELSE Len(W)
        /\ \A s \in 1..Len(F) : F[s] = W[s]
    BY <1>3, Slots, FirstNProperties
  <2> HIDE DEF F, W
  <2> QED
    BY <1>3, <2>1, Slots
<1>5. idx' = [d \in Device |-> [k \in Kind |->
                IF places(d, k) = {} THEN idx[d][k] ELSE (CHOOSE s \in places(d, k) : TRUE) - 1]]
  BY DEF Rebuild
<1>6. ASSUME NEW d \in Device, NEW k \in Kind
      PROVE  \/ places(d, k) = {} /\ idx'[d][k] = idx[d][k]
             \/ \E s \in 1..Len(F) : F[s] = slot(d, k) /\ idx'[d][k] = s - 1
  <2>1. idx'[d][k] = IF places(d, k) = {} THEN idx[d][k]
                     ELSE (CHOOSE s \in places(d, k) : TRUE) - 1
    <3> HIDE DEF places
    <3> QED
      BY <1>5
  <2>2. CASE places(d, k) # {}
    <3>1. PICK s \in 1..Len(F) : s \in places(d, k) /\ s = CHOOSE t \in places(d, k) : TRUE
      <4>1. (CHOOSE t \in places(d, k) : TRUE) \in places(d, k)
        <5> HIDE DEF places
        <5> QED
          BY <2>2
      <4> QED
        BY <4>1, Zenon
    <3>2. F[s] = slot(d, k)
      BY <3>1
    <3>3. idx'[d][k] = s - 1
      BY <2>1, <2>2, <3>1
    <3> QED
      BY <3>2, <3>3
  <2> QED
    BY <2>1, <2>2
<1>7. ASSUME NEW d \in Device, NEW k \in Kind
       PROVE  idx'[d][k] \in {NO_FDS_IDX} \cup 0..(MAX_DEVICES - 1)
  <2>1. CASE idx'[d][k] = idx[d][k]
    BY <1>1, <2>1
  <2>2. CASE \E s \in 1..Len(F) : F[s] = slot(d, k) /\ idx'[d][k] = s - 1
    <3>1. PICK s \in 1..Len(F) : idx'[d][k] = s - 1
      BY <2>2
    <3> QED
      BY <1>4, <3>1, Slots
  <2> QED
    <3> HIDE DEF places
    <3> QED
      BY <1>6, <2>1, <2>2, Zenon
<1>8. ASSUME NEW i \in 1..Len(devList), NEW j \in 1..Len(FdsOf(devList[i])), Off(i) + j <= Len(F)
      PROVE  Off(i) + j \in 1..Len(F) /\ F[Off(i) + j] = slot(devList[i], FdsOf(devList[i])[j])
  <2>1. Off(i) + j \in 1..Len(W) /\ W[Off(i) + j] = slot(devList[i], FdsOf(devList[i])[j])
    BY <1>1, PlaceWanted
  <2> HIDE DEF W, F
  <2>2. Off(i) + j \in 1..Len(F)
    BY <1>3, <1>4, <1>8, <2>1
  <2> QED
    BY <1>4, <2>1, <2>2
<1>9. \A s, t \in 1..Len(F) : F[s] = F[t] => s = t
  BY <1>1, <1>3, <1>4, PlacesDiffer
<1> HIDE DEF F
<1>10. ASSUME NEW i \in 1..Len(devList), NEW k \in Kind, idx'[devList[i]][k] # NO_FDS_IDX
      PROVE  \E j \in 1..Len(FdsOf(devList[i])) :
               /\ FdsOf(devList[i])[j] = k /\ Off(i) + j = idx'[devList[i]][k] + 1
               /\ Off(i) + j \in 1..Len(F) /\ F[Off(i) + j] = slot(devList[i], k)
  <2> DEFINE d == devList[i]
  <2>1. d \in Device
    BY <1>1, ElementOfSeq
  <2>2. CASE \E s \in 1..Len(F) : F[s] = slot(d, k) /\ idx'[d][k] = s - 1
    <3>1. PICK s \in 1..Len(F) : F[s] = slot(d, k) /\ idx'[d][k] = s - 1
      BY <2>2
    <3>2. s \in 1..Len(W) /\ W[s] = slot(d, k)
      BY <1>3, <1>4, <3>1
    <3>3. PICK ii \in 1..Len(devList) : \E j \in 1..Len(FdsOf(devList[ii])) :
            s = Off(ii) + j /\ W[s] = slot(devList[ii], FdsOf(devList[ii])[j])
      BY <1>1, <3>2, PlaceOf
    <3>4. PICK j \in 1..Len(FdsOf(devList[ii])) :
            s = Off(ii) + j /\ W[s] = slot(devList[ii], FdsOf(devList[ii])[j])
      BY <3>3
    <3>5. devList[ii] = d /\ FdsOf(devList[ii])[j] = k
      BY <3>2, <3>4
    <3>6. ii = i
      BY <1>1, <3>5 DEF HelloFirst
    <3>7. s = Off(i) + j /\ s = idx'[d][k] + 1
      BY <1>4, <3>1, <3>4, <3>6
    <3> QED
      BY <3>1, <3>5, <3>6, <3>7
  <2>3. CASE places(d, k) = {} /\ idx'[d][k] = idx[d][k]
    <3>1. PICK j \in 1..Len(FdsOf(d)) : FdsOf(d)[j] = k /\ Off(i) + j <= idx[d][k] + 1
      BY <1>1, <1>10, <2>3 DEF IdxBehind
    <3>2. idx[d][k] \in 0..(MAX_DEVICES - 1)
      BY <1>1, <1>10, <2>1, <2>3 
    <3>3. Off(i) + j \in 1..Len(W) /\ Off(i) + j <= MAX_DEVICES
      <4>1. Off(i) + j \in 1..Len(W)
        BY <1>1, PlaceWanted
      <4>2. idx[d][k] + 1 \in 1..MAX_DEVICES
        BY <3>2, Slots
      <4> QED
        BY <1>3, <3>1, <4>1, <4>2, Slots
    <3>4. Off(i) + j <= Len(F)
      BY <1>3, <1>4, <3>3
    <3>5. Off(i) + j \in places(d, k)
      BY <1>8, <3>1, <3>4
    <3> QED
      BY <2>3, <3>5
  <2> QED
    BY <1>6, <2>1, <2>2, <2>3
<1>11. FdsWanted'
  BY <1>2, <1>4 DEF FdsWanted
<1>12. IdxBehind'
  <2>1. ASSUME NEW i \in 1..Len(devList), NEW k \in Kind, idx'[devList[i]][k] # NO_FDS_IDX
        PROVE  \E j \in 1..Len(FdsOf(devList[i])) :
                 FdsOf(devList[i])[j] = k /\ Off(i) + j <= idx'[devList[i]][k] + 1
    <3>1. PICK j \in 1..Len(FdsOf(devList[i])) :
            /\ FdsOf(devList[i])[j] = k /\ Off(i) + j = idx'[devList[i]][k] + 1
            /\ Off(i) + j \in 1..Len(F) /\ F[Off(i) + j] = slot(devList[i], k)
      BY <1>10, <2>1, Zenon
    <3> QED
      BY <1>4, <3>1
  <2> QED
    BY <1>2, <2>1 DEF IdxBehind
<1>13. NoStaleIdx'
  <2>1. ASSUME NEW d \in Device, NEW k \in Kind, Listed(d), idx'[d][k] # NO_FDS_IDX
        PROVE  idx'[d][k] < Len(F) /\ F[idx'[d][k] + 1] = slot(d, k)
    <3>1. PICK i \in 1..Len(devList) : devList[i] = d
      BY <2>1 DEF Listed
    <3>2. PICK j \in 1..Len(FdsOf(devList[i])) :
               /\ Off(i) + j = idx'[d][k] + 1
               /\ Off(i) + j \in 1..Len(F) /\ F[Off(i) + j] = slot(d, k)
      BY <1>10, <2>1, <3>1
    <3>3. idx'[d][k] + 1 \in 1..Len(F) /\ F[idx'[d][k] + 1] = slot(d, k)
      BY <3>2
    <3>4. idx'[d][k] \in Int
      BY <1>7 DEF NO_FDS_IDX
    <3> QED
      BY <1>4, <3>3, <3>4
  <2> QED
    BY <1>2, <2>1 DEF NoStaleIdx, Listed
<1>14. SlotIndexed'
  <2>1. ASSUME NEW s \in 1..Len(F) PROVE idx'[F[s].dev][F[s].kind] = s - 1
    <3>1. F[s] \in Slot
      BY <1>4, ElementOfSeq
    <3>2. PICK d \in Device, k \in Kind : F[s] = slot(d, k)
      BY <3>1 DEF Slot
    <3>3. s \in places(d, k)
      BY <3>2
    <3>4. PICK t \in 1..Len(F) : F[t] = slot(d, k) /\ idx'[d][k] = t - 1
      BY <1>6, <3>3
    <3>5. t = s
      BY <1>9, <3>2, <3>4
    <3> QED
      BY <3>2, <3>4, <3>5
  <2> QED
    BY <1>2, <2>1 DEF SlotIndexed
<1>15. AllPolled'
  <2>1. ASSUME Len(W) <= MAX_DEVICES, NEW d \in Device, Listed(d), NEW j \in 1..Len(FdsOf(d))
        PROVE  idx'[d][FdsOf(d)[j]] # NO_FDS_IDX
    <3>1. PICK i \in 1..Len(devList) : devList[i] = d
      BY <2>1 DEF Listed
    <3>2. Len(F) = Len(W)
      BY <1>3, <1>4, <2>1, Slots
    <3>3. Off(i) + j \in 1..Len(F) /\ F[Off(i) + j] = slot(d, FdsOf(d)[j])
      BY <1>1, <1>4, <3>1, <3>2, PlaceWanted
    <3>4. Off(i) + j \in places(d, FdsOf(d)[j]) /\ FdsOf(d)[j] \in Kind
      BY <3>3, FdsOfDevice
    <3>5. PICK s \in 1..Len(F) : idx'[d][FdsOf(d)[j]] = s - 1
      BY <1>6, <3>4
    <3> QED
      BY <1>4, <3>5 DEF NO_FDS_IDX
  <2> QED
    BY <1>2, <2>1 DEF AllPolled, Listed
<1>16. TypeOK'
  <2>1. ASSUME NEW d \in Device, NEW k \in Kind
        PROVE  idx'[d][k] \in {NO_FDS_IDX} \cup 0..(MAX_DEVICES - 1)
    BY <1>7
  <2>2. idx' \in [Device -> [Kind -> {NO_FDS_IDX} \cup 0..(MAX_DEVICES - 1)]]
    <3> DEFINE e(d, k) == IF places(d, k) = {} THEN idx[d][k] ELSE (CHOOSE s \in places(d, k) : TRUE) - 1
    <3>1. idx' = [d \in Device |-> [k \in Kind |-> e(d, k)]]
      BY <1>5
    <3> HIDE DEF e
    <3>2. \A d \in Device, k \in Kind : e(d, k) \in {NO_FDS_IDX} \cup 0..(MAX_DEVICES - 1)
      BY <2>1, <3>1
    <3> QED
      BY <3>1, <3>2
  <2> QED
    BY <1>2, <1>4, <2>2 DEF TypeOK, IInv
<1> QED
  BY <1>1, <1>2, <1>11, <1>12, <1>13, <1>14, <1>15, <1>16 DEF IInv, ListInv

-----------------------------------------------------------------------------
(* Adding and freeing devices *)

\* What TypeOK says of the variables that these operations change.
ListTypes ==
  /\ devList \in Seq(Device)
  /\ fds \in Seq(Slot) /\ Len(fds) <= MAX_DEVICES
  /\ idx \in [Device -> [Kind -> {NO_FDS_IDX} \cup 0..(MAX_DEVICES - 1)]]
  /\ devChangeFlag \in BOOLEAN
  /\ unconnected \in SUBSET Clients

LEMMA KeepKeeps ==
  ASSUME IInv, ~devChangeFlag, fds' = fds, KeepDevices
  PROVE  ListTypes' /\ ListInv'
<1>1. /\ devList' = devList /\ idx' = idx /\ unconnected' = unconnected
      /\ devChangeFlag' \in BOOLEAN
  BY DEF KeepDevices, DevChange
<1>2. ListTypes'
  BY <1>1 DEF IInv, TypeOK, ListTypes
<1>3. HelloFirst(devList)' /\ FdsWanted' /\ IdxBehind' /\ SlotIndexed'
  BY <1>1 DEF IInv, ListInv, FdsWanted, IdxBehind, SlotIndexed
<1>4. NoStaleIdx'
  BY <1>1 DEF IInv, ListInv, NoStaleIdx, Listed
<1>5. AllPolled'
  BY <1>1 DEF IInv, ListInv, AllPolled, Listed
<1> QED
  BY <1>2, <1>3, <1>4, <1>5 DEF ListInv

\* The device of a slot is in the list.
LEMMA SlotListed ==
  ASSUME IInv, ~devChangeFlag, NEW s \in 1..Len(fds)
  PROVE  /\ fds[s].dev \in Device /\ fds[s].kind \in Kind /\ Listed(fds[s].dev)
         /\ fds[s].kind = "tableTimer" => fds[s].dev = Hello
<1>1. devList \in Seq(Device) /\ HelloFirst(devList) /\ fds[s] = Wanted(devList)[s]
      /\ Len(fds) <= Len(Wanted(devList)) /\ Len(fds) \in Nat
  BY LenProperties DEF IInv, ListInv, TypeOK, FdsWanted
<1>2. s \in 1..Len(Wanted(devList))
  <2>1. Len(Wanted(devList)) \in Nat
    BY <1>1, WantedShape, LenProperties
  <2> QED
    BY <1>1, <2>1
<1>3. PICK i \in 1..Len(devList) : \E j \in 1..Len(FdsOf(devList[i])) :
        s = Off(i) + j
        /\ Wanted(devList)[s] = [dev |-> devList[i], kind |-> FdsOf(devList[i])[j]]
  BY <1>1, <1>2, PlaceOf
<1>4. PICK j \in 1..Len(FdsOf(devList[i])) :
        Wanted(devList)[s] = [dev |-> devList[i], kind |-> FdsOf(devList[i])[j]]
  BY <1>3
<1>5. fds[s].dev = devList[i] /\ fds[s].kind = FdsOf(devList[i])[j]
  BY <1>1, <1>4
<1>6. devList[i] \in Device /\ FdsOf(devList[i])[j] \in Kind
  BY <1>1, LenProperties, ElementOfSeq, FdsOfDevice
<1>7. FdsOf(devList[i])[j] = "tableTimer" => devList[i] = Hello
  BY DEF FdsOf
<1> QED
  BY <1>5, <1>6, <1>7 DEF Listed

\* Devices that are added go to the tail: the array stays right for the others.
LEMMA AddKeeps ==
  ASSUME IInv, ~devChangeFlag, fds' = fds, NEW new \in Seq(Device), AddDevices(new),
         \A i, j \in 1..Len(new) : new[i] = new[j] => i = j,
         \A d \in SetOf(new) : ~Listed(d),
         unconnected' \in SUBSET Clients, unconnected \subseteq unconnected',
         devChangeFlag' \in BOOLEAN,
         ~devChangeFlag' => SetOf(new) \subseteq unconnected'
  PROVE  ListTypes' /\ ListInv'
<1> DEFINE both == devList \o new
<1>1. /\ devList \in Seq(Device) /\ HelloFirst(devList)
      /\ idx \in [Device -> [Kind -> {NO_FDS_IDX} \cup 0..(MAX_DEVICES - 1)]]
      /\ fds \in Seq(Slot) /\ Len(fds) <= MAX_DEVICES
      /\ IdxBehind
  BY DEF IInv, ListInv, TypeOK
<1>2. Len(devList) \in Nat /\ Len(new) \in Nat
  BY <1>1, LenProperties
<1>3. /\ both \in Seq(Device) /\ Len(both) = Len(devList) + Len(new)
      /\ \A i \in 1..Len(devList) : both[i] = devList[i]
      /\ \A i \in (Len(devList) + 1)..Len(both) : both[i] = new[i - Len(devList)]
  BY <1>1, <1>2, ConcatProperties
<1>4. devList' = both
  BY DEF AddDevices
<1> HIDE DEF both
<1>5. ASSUME NEW i \in 1..Len(both)
      PROVE  \/ i \in 1..Len(devList) /\ both[i] = devList[i] /\ both[i] \notin SetOf(new)
             \/ /\ i - Len(devList) \in 1..Len(new) /\ both[i] = new[i - Len(devList)]
                /\ both[i] \in SetOf(new) /\ ~Listed(both[i])
  <2>1. CASE i <= Len(devList)
    <3>1. i \in 1..Len(devList) /\ both[i] = devList[i]
      BY <1>2, <1>3, <2>1
    <3> QED
      BY <3>1 DEF Listed
  <2>2. CASE ~(i <= Len(devList))
    <3>1. i - Len(devList) \in 1..Len(new) /\ both[i] = new[i - Len(devList)]
      BY <1>2, <1>3, <2>2
    <3> QED
      BY <3>1 DEF SetOf
  <2> QED
    BY <2>1, <2>2
<1>6. HelloFirst(both)
  <2>1. Len(both) > 0 /\ both[1] = Hello
    BY <1>1, <1>2, <1>3 DEF HelloFirst
  <2>2. ASSUME NEW i \in 1..Len(both), NEW j \in 1..Len(both), both[i] = both[j] PROVE i = j
    <3>1. CASE i \in 1..Len(devList) /\ both[i] = devList[i] /\ both[i] \notin SetOf(new)
      <4>1. j \in 1..Len(devList) /\ both[j] = devList[j]
        BY <1>5, <2>2, <3>1
      <4> QED
        BY <1>1, <2>2, <3>1, <4>1 DEF HelloFirst
    <3>2. CASE i - Len(devList) \in 1..Len(new) /\ both[i] = new[i - Len(devList)]
               /\ both[i] \in SetOf(new) /\ ~Listed(both[i])
      <4>1. j - Len(devList) \in 1..Len(new) /\ both[j] = new[j - Len(devList)]
        BY <1>5, <2>2, <3>2
      <4>2. i - Len(devList) = j - Len(devList)
        BY <2>2, <3>2, <4>1
      <4> QED
        BY <1>2, <1>3, <4>2
    <3> QED
      BY <1>5, <3>1, <3>2
  <2> QED
    BY <2>1, <2>2 DEF HelloFirst
<1>7. /\ Len(Wanted(devList)) <= Len(Wanted(both))
      /\ \A p \in 1..Len(Wanted(devList)) : Wanted(both)[p] = Wanted(devList)[p]
  BY <1>1, <1>6, WantedGrows DEF both
<1>8. Len(Wanted(devList)) \in Nat /\ Len(Wanted(both)) \in Nat /\ Len(fds) \in Nat
  BY <1>1, <1>3, <1>6, WantedShape, LenProperties
<1>9. idx' = [d \in Device |-> IF d \in SetOf(new) THEN NoIdx ELSE idx[d]]
  BY DEF AddDevices
<1>10. \A d \in Device, k \in Kind :
         idx'[d][k] = IF d \in SetOf(new) THEN NO_FDS_IDX ELSE idx[d][k]
  BY <1>9 DEF NoIdx
<1>11. FdsWanted'
  <2>1. Len(fds) <= Len(Wanted(devList))
        /\ \A s \in 1..Len(fds) : fds[s] = Wanted(devList)[s]
    BY DEF IInv, ListInv, FdsWanted
  <2>2. ASSUME NEW s \in 1..Len(fds) PROVE fds[s] = Wanted(both)[s]
    <3>1. s \in 1..Len(Wanted(devList))
      BY <1>8, <2>1
    <3> QED
      BY <1>7, <2>1, <3>1
  <2>3. Len(fds) <= Len(Wanted(both))
    BY <1>7, <1>8, <2>1
  <2> QED
    BY <1>4, <2>2, <2>3 DEF FdsWanted
<1>12. IdxBehind'
  <2>1. ASSUME NEW i \in 1..Len(both), NEW k \in Kind, idx'[both[i]][k] # NO_FDS_IDX
        PROVE  \E j \in 1..Len(FdsOf(both[i])) :
                 FdsOf(both[i])[j] = k /\ Off(i) + j <= idx'[both[i]][k] + 1
    <3>1. both[i] \in Device
      BY <1>3, ElementOfSeq, LenProperties
    <3>2. both[i] \notin SetOf(new) /\ idx'[both[i]][k] = idx[both[i]][k]
      BY <1>10, <2>1, <3>1
    <3>3. i \in 1..Len(devList) /\ both[i] = devList[i]
      BY <1>5, <3>2
    <3> QED
      BY <1>1, <2>1, <3>2, <3>3 DEF IdxBehind
  <2> QED
    BY <1>4, <2>1 DEF IdxBehind
<1>13. SlotIndexed'
  <2>1. ASSUME NEW s \in 1..Len(fds) PROVE idx'[fds[s].dev][fds[s].kind] = s - 1
    <3>1. fds[s].dev \in Device /\ fds[s].kind \in Kind /\ Listed(fds[s].dev)
      BY SlotListed
    <3>2. idx'[fds[s].dev][fds[s].kind] = idx[fds[s].dev][fds[s].kind]
      BY <1>10, <3>1
    <3> QED
      BY <3>2 DEF IInv, ListInv, SlotIndexed
  <2> QED
    BY <2>1 DEF SlotIndexed
<1>14. ASSUME NEW d \in Device, Listed(d)', d \notin SetOf(new)
       PROVE  Listed(d)
  <2>1. PICK i \in 1..Len(both) : both[i] = d
    BY <1>4, <1>14 DEF Listed
  <2>2. i \in 1..Len(devList) /\ both[i] = devList[i]
    BY <1>5, <1>14, <2>1
  <2> QED
    BY <2>1, <2>2 DEF Listed
<1>15. NoStaleIdx'
  <2>1. ASSUME NEW d \in Device, NEW k \in Kind, Listed(d)', idx'[d][k] # NO_FDS_IDX
        PROVE  idx'[d][k] < Len(fds) /\ fds[idx'[d][k] + 1] = [dev |-> d, kind |-> k]
    <3>1. d \notin SetOf(new) /\ idx'[d][k] = idx[d][k]
      BY <1>10, <2>1
    <3>2. Listed(d)
      BY <1>14, <2>1, <3>1
    <3> QED
      BY <2>1, <3>1, <3>2 DEF IInv, ListInv, NoStaleIdx
  <2> QED
    BY <2>1 DEF NoStaleIdx
<1>16. AllPolled'
  <2>1. ASSUME ~devChangeFlag', Len(Wanted(both)) <= MAX_DEVICES, NEW d \in Device,
               Listed(d)', d \notin unconnected', NEW j \in 1..Len(FdsOf(d))
        PROVE  idx'[d][FdsOf(d)[j]] # NO_FDS_IDX
    <3>1. d \notin SetOf(new) /\ d \notin unconnected
      BY <2>1
    <3>2. Listed(d)
      BY <1>14, <2>1, <3>1
    <3>3. idx'[d][FdsOf(d)[j]] = idx[d][FdsOf(d)[j]]
      BY <1>10, <3>1, FdsOfDevice
    <3>4. Len(Wanted(devList)) <= MAX_DEVICES
      BY <1>7, <1>8, <2>1, Slots
    <3> QED
      BY <3>1, <3>2, <3>3, <3>4 DEF IInv, ListInv, AllPolled
  <2> QED
    BY <1>4, <2>1 DEF AllPolled
<1>17. idx' \in [Device -> [Kind -> {NO_FDS_IDX} \cup 0..(MAX_DEVICES - 1)]]
  <2>1. NoIdx \in [Kind -> {NO_FDS_IDX} \cup 0..(MAX_DEVICES - 1)]
    BY DEF NoIdx
  <2> QED
    BY <1>1, <1>9, <2>1
<1> QED
  BY <1>1, <1>3, <1>4, <1>6, <1>11, <1>12, <1>13, <1>15, <1>16, <1>17 DEF ListTypes, ListInv

\* A device that is freed sets the change flag; those behind it move forward.
LEMMA FreeKeeps ==
  ASSUME IInv, ~devChangeFlag, fds' = fds,
         NEW gone, gone \subseteq Sessions \cup Clients, FreeDevices(gone)
  PROVE  ListTypes' /\ ListInv'
<1>1. /\ devList \in Seq(Device) /\ HelloFirst(devList)
      /\ idx \in [Device -> [Kind -> {NO_FDS_IDX} \cup 0..(MAX_DEVICES - 1)]]
      /\ fds \in Seq(Slot) /\ Len(fds) <= MAX_DEVICES
      /\ IdxBehind /\ unconnected \in SUBSET Clients
  BY DEF IInv, ListInv, TypeOK
<1>2. Hello \notin gone
  BY PollAssumption
<1>3. /\ Without(gone) \in Seq(Device) /\ HelloFirst(Without(gone))
      /\ \A i \in 1..Len(Without(gone)) : \E k \in 1..Len(devList) :
           i <= k /\ Without(gone)[i] = devList[k] /\ devList[k] \notin gone
      /\ gone = {} => Without(gone) = devList
  BY <1>1, <1>2, WithoutProperties
<1>4. /\ devList' = Without(gone)
      /\ idx' = [d \in Device |-> IF d \in gone THEN NoIdx ELSE idx[d]]
      /\ unconnected' = unconnected \ gone
      /\ DevChange(gone # {})
  BY DEF FreeDevices
<1>5. CASE gone = {}
  <2>1. devList' = devList /\ idx' = idx /\ unconnected' = unconnected
    BY <1>1, <1>3, <1>4, <1>5
  <2>2. DevChange(FALSE)
    BY <1>4, <1>5 DEF DevChange
  <2>3. KeepDevices
    BY <2>1, <2>2 DEF KeepDevices
  <2> QED
    BY <2>3, KeepKeeps
<1>6. CASE gone # {}
  <2>1. devChangeFlag' = TRUE
    BY <1>4, <1>6 DEF DevChange
  <2>2. \A d \in Device, k \in Kind : d \notin gone => idx'[d][k] = idx[d][k]
    BY <1>4
  <2>3. IdxBehind'
    <3>1. ASSUME NEW i \in 1..Len(Without(gone)), NEW k \in Kind,
                 idx'[Without(gone)[i]][k] # NO_FDS_IDX
          PROVE  \E j \in 1..Len(FdsOf(Without(gone)[i])) :
                   FdsOf(Without(gone)[i])[j] = k /\ Off(i) + j <= idx'[Without(gone)[i]][k] + 1
      <4>1. PICK m \in 1..Len(devList) :
              i <= m /\ Without(gone)[i] = devList[m] /\ devList[m] \notin gone
        BY <1>3
      <4> DEFINE d == devList[m]
      <4>2. d \in Device /\ Len(devList) \in Nat /\ Len(Without(gone)) \in Nat
        BY <1>1, <1>3, ElementOfSeq, LenProperties
      <4>3. idx'[d][k] = idx[d][k] /\ idx[d][k] # NO_FDS_IDX
        BY <2>2, <3>1, <4>1, <4>2
      <4>4. PICK j \in 1..Len(FdsOf(d)) : FdsOf(d)[j] = k /\ Off(m) + j <= idx[d][k] + 1
        BY <1>1, <4>3 DEF IdxBehind
      <4>5. idx[d][k] \in Int /\ j \in Int
        BY <1>1, <4>2 DEF NO_FDS_IDX
      <4>6. Off(i) \in Int /\ Off(m) \in Int /\ Off(i) <= Off(m)
        BY <4>1, <4>2 DEF Off
      <4>7. Off(i) + j <= idx'[d][k] + 1
        <5> HIDE DEF d
        <5> QED
          BY <4>3, <4>4, <4>5, <4>6
      <4> QED
        BY <4>1, <4>4, <4>7
    <3> QED
      BY <1>4, <3>1 DEF IdxBehind
  <2>4. ListTypes'
    <3>1. NoIdx \in [Kind -> {NO_FDS_IDX} \cup 0..(MAX_DEVICES - 1)]
      BY DEF NoIdx
    <3>2. idx' \in [Device -> [Kind -> {NO_FDS_IDX} \cup 0..(MAX_DEVICES - 1)]]
      BY <1>1, <1>4, <3>1
    <3> QED
      BY <1>1, <1>3, <1>4, <2>1, <3>2 DEF ListTypes
  <2> QED
    BY <1>3, <1>4, <2>1, <2>3, <2>4
       DEF ListInv, FdsWanted, SlotIndexed, NoStaleIdx, AllPolled
<1> QED
  BY <1>5, <1>6

-----------------------------------------------------------------------------
(* The scan *)

\* A descriptor that poll() reports leads the scan to a device, but for the two
\* sockets whose routines look for input only.
LEMMA ReadySlotActive ==
  ASSUME IInv, ~devChangeFlag, NEW s \in ReportedSlots, ~Ignored(s)
  PROVE  s \in ActiveSlots
<1> DEFINE d == fds[s + 1].dev
           k == fds[s + 1].kind
<1>1. Len(fds) \in Nat /\ s \in 0..(Len(fds) - 1) /\ Reported(s)
  BY LenProperties DEF IInv, TypeOK, ReportedSlots
<1>2. s + 1 \in 1..Len(fds) /\ s + 1 - 1 = s
  BY <1>1
<1>3. d \in Device /\ k \in Kind /\ (k = "tableTimer" => d = Hello)
  BY <1>2, SlotListed
<1>4. idx[d][k] = s
  BY <1>1, <1>2 DEF IInv, ListInv, SlotIndexed
<1>5. ready[d] \in Readiness /\ ready[d][k] # {} /\ Revents(s) = ready[d][k]
  BY <1>1, <1>3 DEF IInv, TypeOK, Reported, Revents
<1>6. ready[d][k] \subseteq Bit /\ (k # "dev" => ready[d][k] \subseteq {"POLLIN"})
  BY <1>3, <1>5 DEF Readiness
<1>7. ASSUME NEW mask, ready[d][k] \cap mask # {}
      PROVE  fdsCheck(d, On(k, mask))
  BY <1>1, <1>4, <1>5, <1>7 DEF fdsCheck, On
<1>8. \E test \in ActiveTests(d) : fdsCheck(d, test)
  <2>1. CASE k # "dev"
    <3>1. fdsCheck(d, In(k))
      BY <1>5, <1>6, <1>7, <2>1 DEF In
    <3>2. In(k) \in ActiveTests(d)
      BY <1>3, <2>1, PollAssumption DEF ActiveTests, Kind
    <3> QED
      BY <3>1, <3>2
  <2>2. CASE k = "dev" /\ d \in {Listener, Serial}
    <3>1. "POLLIN" \in ready[d][k]
      BY <1>5, <2>2 DEF Ignored
    <3>2. fdsCheck(d, In("dev"))
      BY <1>7, <2>2, <3>1 DEF In
    <3>3. In("dev") \in ActiveTests(d)
      BY <2>2 DEF ActiveTests
    <3> QED
      BY <3>2, <3>3
  <2>3. CASE k = "dev" /\ d \notin {Listener, Serial}
    <3>1. fdsCheck(d, On("dev", CHECK_EVENT_MASK))
      BY <1>5, <1>6, <1>7, <2>3 DEF CHECK_EVENT_MASK
    <3>2. On("dev", CHECK_EVENT_MASK) \in ActiveTests(d)
      BY <2>3 DEF ActiveTests
    <3> QED
      BY <3>1, <3>2
  <2> QED
    BY <2>1, <2>2, <2>3
<1> QED
  BY <1>1, <1>3, <1>8 DEF ActiveSlots, Active

LEMMA ServedSlotActive ==
  ASSUME IInv, ActiveSlots # {}
  PROVE  ServedSlot \in ActiveSlots
<1> DEFINE T == {ScanDistance(s) : s \in ActiveSlots}
<1>1. \A s \in ActiveSlots : s \in Nat
  BY LenProperties DEF ActiveSlots, IInv, TypeOK
<1>2. ScanStart \in 0..(MAX_DEVICES - 1)
  BY Slots DEF ScanStart, IInv, TypeOK
<1>3. \A s \in ActiveSlots : ScanDistance(s) \in Nat
  BY <1>1, <1>2, Slots DEF ScanDistance
<1>4. T \subseteq Nat /\ T # {}
  BY <1>3
<1>5. PICK t \in T : \A u \in T : t <= u
  <2> HIDE DEF T
  <2> QED
    BY <1>4, LeastPosition
<1>6. PICK s \in ActiveSlots : t = ScanDistance(s)
  BY <1>5
<1>7. \A r \in ActiveSlots : ScanDistance(s) <= ScanDistance(r)
  BY <1>5, <1>6
<1> QED
  BY <1>7, Zenon DEF ServedSlot

\* To pick a device moves the start of the next scan behind a slot of it.
LEMMA PickScan ==
  ASSUME IInv, NEW d, Pick(d)
  PROVE  ~devChangeFlag /\ fds' = fds /\ lastServed' = {d} /\ lastScanIdx' \in 0..MAX_DEVICES
<1>1. /\ ~devChangeFlag /\ fds' = fds /\ lastServed' = {d} /\ lastScanIdx' = ServedSlot + 1
      /\ ActiveSlots # {}
  BY DEF Pick
<1>2. Len(fds) \in Nat /\ Len(fds) <= MAX_DEVICES
  BY LenProperties DEF IInv, TypeOK
<1>3. ServedSlot \in 0..(Len(fds) - 1)
  BY <1>1, ServedSlotActive DEF ActiveSlots
<1> QED
  BY <1>1, <1>2, <1>3, Slots

-----------------------------------------------------------------------------
(* The steps *)

\* The devices a hello makes are new, and no two of them are one.
LEMMA FreshProperties ==
  ASSUME NEW new \in Fresh(Clients)
  PROVE  /\ new \in Seq(Device) /\ SetOf(new) \subseteq Clients
         /\ \A i, j \in 1..Len(new) : new[i] = new[j] => i = j
         /\ \A d \in SetOf(new) : ~Listed(d)
<1>1. Cardinality(Clients) \in Nat
  BY PollAssumption, FS_CardinalityType
<1>2. PICK n \in 0..Cardinality(Clients) : new \in [1..n -> Clients]
  BY DEF Fresh
<1>3. n \in Nat /\ Len(new) = n /\ new \in Seq(Clients)
  BY <1>1, <1>2
<1>4. Cardinality(SetOf(new)) = n /\ \A d \in SetOf(new) : ~Listed(d)
  BY <1>3 DEF Fresh
<1>5. SetOf(new) \subseteq Clients /\ new \in Surjection(1..n, SetOf(new))
  BY <1>2, <1>3 DEF SetOf, Surjection
<1>6. IsFiniteSet(1..n) /\ Cardinality(1..n) = n
  BY <1>3, FS_Interval
<1>7. new \in Injection(1..n, SetOf(new))
  BY <1>4, <1>5, <1>6, FS_SurjSameCardinalityImpliesInj
<1>8. \A i, j \in 1..n : new[i] = new[j] => i = j
  BY <1>7 DEF Injection, IsInjective
<1>9. new \in Seq(Device)
  BY <1>2, <1>3 DEF Device
<1> QED
  BY <1>3, <1>4, <1>5, <1>8, <1>9

\* What a turn owes beside the list.
LEMMA TurnType ==
  ASSUME IInv, NEW d \in Device, Pick(d), ListTypes', ListInv',
         ready' \in [Device -> Readiness]
  PROVE  IInv'
<1>1. lastServed' = {d} /\ lastScanIdx' \in 0..MAX_DEVICES
  BY PickScan
<1> QED
  BY <1>1 DEF IInv, TypeOK, ListTypes

LEMMA ReadyType ==
  ASSUME IInv, NEW d \in Device
  PROVE  /\ ready \in [Device -> Readiness] /\ ready[d] \in Readiness
         /\ ready[d] \in [Kind -> SUBSET Bit]
         /\ \A k \in Kind \ {"dev"} : ready[d][k] \subseteq {"POLLIN"}
BY DEF IInv, TypeOK, Readiness

LEMMA ServedType ==
  ASSUME IInv, NEW d \in Device, NEW test, NEW left \in Left(d, test), NEW queued \in SUBSET {"POLLIN"}
  PROVE  Served(d, test, left, queued) \in Readiness
<1>1. ready[d]["dev"] \subseteq Bit /\ \A k \in Kind \ {"dev"} : ready[d][k] \subseteq {"POLLIN"}
  BY ReadyType DEF Kind
<1>2. left \subseteq Bit
  BY <1>1 DEF Left
<1> DEFINE e(k) == IF k = "dev" THEN left
                   ELSE (IF k \in {test.kind, "timer"} THEN {} ELSE ready[d][k])
                        \cup (IF k = "evt" THEN queued ELSE {})
<1>3. \A k \in Kind \ {"dev"} : e(k) \subseteq {"POLLIN"}
  BY <1>1
<1>4. \A k \in Kind : e(k) \in SUBSET Bit
  BY <1>2, <1>3 DEF Bit
<1>5. Served(d, test, left, queued) = [k \in Kind |-> e(k)]
  BY DEF Served
<1> HIDE DEF e
<1> QED
  BY <1>3, <1>4, <1>5 DEF Readiness

LEMMA DrainType ==
  ASSUME IInv, NEW d \in Device, NEW test, Drain(d, test)
  PROVE  ready' \in [Device -> Readiness]
<1>1. PICK left \in Left(d, test) : ready' = [ready EXCEPT ![d] = Served(d, test, left, {})]
  BY DEF Drain
<1>2. Served(d, test, left, {}) \in Readiness
  BY ServedType
<1> QED
  BY <1>1, <1>2, ReadyType

LEMMA QuietType == Quiet \in Readiness
BY DEF Quiet, Readiness

LEMMA AcceptKeeps ==
  ASSUME IInv, tcpConnSrvAcceptConnection
  PROVE  IInv'
<1>1. Pick(Listener) /\ Drain(Listener, In("dev")) /\ Listener \in Device
  BY DEF tcpConnSrvAcceptConnection, Serve, Device
<1>2. ~devChangeFlag /\ fds' = fds
  BY <1>1, PickScan
<1>3. ASSUME NEW n \in Sessions, ~Listed(n), AddDevices(<<n>>), DevChange(TRUE),
             UNCHANGED unconnected
      PROVE  ListTypes' /\ ListInv'
  <2>1. <<n>> \in Seq(Device) /\ SetOf(<<n>>) = {n}
        /\ \A i, j \in 1..Len(<<n>>) : <<n>>[i] = <<n>>[j] => i = j
    BY DEF Device, SetOf
  <2>2. devChangeFlag' = TRUE
    BY <1>3 DEF DevChange
  <2>3. unconnected' \in SUBSET Clients /\ unconnected \subseteq unconnected'
    BY <1>3 DEF IInv, TypeOK
  <2> DEFINE new == <<n>>
  <2>4. \A d \in SetOf(new) : ~Listed(d)
    BY <1>3, <2>1
  <2>5. new \in Seq(Device) /\ AddDevices(new) /\ \A i, j \in 1..Len(new) : new[i] = new[j] => i = j
    BY <1>3, <2>1
  <2> HIDE DEF new
  <2> QED
    BY <1>2, <2>2, <2>3, <2>4, <2>5, AddKeeps
<1>4. ASSUME KeepDevices PROVE ListTypes' /\ ListInv'
  BY <1>2, <1>4, KeepKeeps
<1>5. ListTypes' /\ ListInv'
  BY <1>3, <1>4 DEF tcpConnSrvAcceptConnection
<1> QED
  BY <1>1, <1>5, DrainType, TurnType

LEMMA InputKeeps ==
  ASSUME IInv, helloProtocolInput
  PROVE  IInv'
<1> DEFINE input == On("dev", CHECK_EVENT_MASK)
<1>1. /\ Pick(Hello) /\ Hello \in Device
      /\ \E left \in Left(Hello, input) :
           ready' = [ready EXCEPT ![Hello] = Served(Hello, input, left, {})]
  BY DEF helloProtocolInput, Serve, Device
<1>2. ~devChangeFlag /\ fds' = fds
  BY <1>1, PickScan
<1>3. PICK new \in Fresh(Clients), failed \in SUBSET Device :
        /\ failed \subseteq SetOf(new)
        /\ AddDevices(new)
        /\ DevChange(SetOf(new) # failed)
        /\ unconnected' = unconnected \cup failed
  <2>1. PICK new \in Fresh(Clients) : \E failed \in SUBSET SetOf(new) :
          /\ AddDevices(new) /\ DevChange(SetOf(new) # failed)
          /\ unconnected' = unconnected \cup failed
    BY DEF helloProtocolInput
  <2>2. SetOf(new) \subseteq Device
    BY FreshProperties DEF Device
  <2> QED
    BY <2>1, <2>2
<1>4. /\ new \in Seq(Device) /\ SetOf(new) \subseteq Clients
      /\ \A i, j \in 1..Len(new) : new[i] = new[j] => i = j
      /\ \A d \in SetOf(new) : ~Listed(d)
  BY FreshProperties
<1>5. devChangeFlag' = ((SetOf(new) # failed) \/ PassesError(lastScanIdx' - 1))
  BY <1>3 DEF DevChange
<1>6. devChangeFlag' \in BOOLEAN /\ (~devChangeFlag' => SetOf(new) \subseteq unconnected')
  BY <1>3, <1>5
<1>7. unconnected' \in SUBSET Clients /\ unconnected \subseteq unconnected'
  BY <1>3, <1>4 DEF IInv, TypeOK
<1>8. ListTypes' /\ ListInv'
  BY <1>2, <1>3, <1>4, <1>6, <1>7, AddKeeps
<1>9. ready' \in [Device -> Readiness]
  <2>1. Drain(Hello, input)
    BY <1>1 DEF Drain
  <2> HIDE DEF input
  <2> QED
    BY <1>1, <2>1, DrainType
<1> QED
  BY <1>1, <1>8, <1>9, TurnType

LEMMA TimerKeeps ==
  ASSUME IInv, helloProtocolTimer
  PROVE  IInv'
<1> DEFINE after(k) == Served(Hello, In(k), ready[Hello]["dev"], {})
<1>1. PICK k \in {"timer", "tableTimer"} :
        /\ Pick(Hello)
        /\ \E gone \in SUBSET {c \in Clients : Listed(c)} :
             /\ FreeDevices(gone)
             /\ ready' = [d \in Device |-> IF d \in gone THEN Quiet
                                           ELSE IF d = Hello THEN after(k) ELSE ready[d]]
  <2>1. PICK k \in {"timer", "tableTimer"} :
          /\ Serve(Hello, In(k))
          /\ \E gone \in SUBSET {c \in Clients : Listed(c)} :
               /\ FreeDevices(gone)
               /\ ready' = [d \in Device |->
                              IF d \in gone THEN Quiet
                              ELSE IF d = Hello THEN Served(d, In(k), ready[d]["dev"], {})
                              ELSE ready[d]]
    BY DEF helloProtocolTimer
  <2> QED
    BY <2>1 DEF Serve
<1>2. PICK gone \in SUBSET Clients :
        /\ FreeDevices(gone)
        /\ ready' = [d \in Device |-> IF d \in gone THEN Quiet
                                      ELSE IF d = Hello THEN after(k) ELSE ready[d]]
  BY <1>1
<1>3. ~devChangeFlag /\ fds' = fds /\ Hello \in Device
  BY <1>1, PickScan DEF Device
<1>4. ListTypes' /\ ListInv'
  BY <1>2, <1>3, FreeKeeps
<1>5. after(k) \in Readiness
  <2>1. ready[Hello]["dev"] \in Left(Hello, In(k))
    BY DEF Left
  <2> QED
    BY <1>3, <2>1, ServedType
<1> HIDE DEF after
<1>6. ready' \in [Device -> Readiness]
  BY <1>2, <1>3, <1>5, ReadyType, QuietType
<1> QED
  BY <1>1, <1>3, <1>4, <1>6, TurnType

LEMMA SerialKeeps ==
  ASSUME IInv, ServeSerial
  PROVE  IInv'
<1>1. PICK k \in {"timer", "dev"} : Pick(Serial) /\ Drain(Serial, In(k)) /\ KeepDevices
  BY DEF ServeSerial, Serve
<1>2. Serial \in Device /\ ~devChangeFlag /\ fds' = fds
  BY <1>1, PickScan DEF Device
<1> QED
  BY <1>1, <1>2, KeepKeeps, DrainType, TurnType

LEMMA SessionKeeps ==
  ASSUME IInv, ServeSession
  PROVE  IInv'
<1>1. PICK d \in Sessions, test \in {In("evt"), In("dev"), In("timer")} :
        /\ Pick(d) /\ KeepDevices
        /\ \E left \in Left(d, test), queued \in SUBSET {"POLLIN"}, remote \in SUBSET Clients :
             ready' = AfterSession(d, test, left, queued, remote)
  BY DEF ServeSession, Serve
<1>2. PICK left \in Left(d, test), queued \in SUBSET {"POLLIN"}, remote \in SUBSET Clients :
        ready' = AfterSession(d, test, left, queued, remote)
  BY <1>1
<1>3. d \in Device /\ ~devChangeFlag /\ fds' = fds
  BY <1>1, PickScan DEF Device
<1>4. Served(d, test, left, queued) \in Readiness
  BY <1>3, ServedType
<1>5. \A e \in Device : [ready[e] EXCEPT !["evt"] = {"POLLIN"}] \in Readiness
  BY ReadyType DEF Readiness, Bit
<1>6. ready' \in [Device -> Readiness]
  BY <1>2, <1>4, <1>5, ReadyType DEF AfterSession
<1> QED
  BY <1>1, <1>3, <1>6, KeepKeeps, TurnType

LEMMA NoEventKeeps ==
  ASSUME IInv, NoSessionEvent
  PROVE  IInv'
<1>1. PICK d \in Sessions : Pick(d) /\ KeepDevices /\ ready' = ready
  BY DEF NoSessionEvent
<1>2. d \in Device /\ ~devChangeFlag /\ fds' = fds
  BY <1>1, PickScan DEF Device
<1> QED
  BY <1>1, <1>2, KeepKeeps, ReadyType, TurnType

LEMMA ClientKeeps ==
  ASSUME IInv, ServeClient
  PROVE  IInv'
<1>1. PICK d \in Clients, test \in {In("timer"), On("dev", CHECK_EVENT_MASK)} :
        /\ Pick(d) /\ KeepDevices
        /\ \E left \in Left(d, test), queued \in SUBSET {"POLLIN"} :
             ready' = [ready EXCEPT ![d] = Served(d, test, left, queued)]
  BY DEF ServeClient, Serve
<1>2. PICK left \in Left(d, test), queued \in SUBSET {"POLLIN"} :
        ready' = [ready EXCEPT ![d] = Served(d, test, left, queued)]
  BY <1>1
<1>3. d \in Device /\ ~devChangeFlag /\ fds' = fds
  BY <1>1, PickScan DEF Device
<1>4. Served(d, test, left, queued) \in Readiness
  BY <1>3, ServedType
<1>5. ready' \in [Device -> Readiness]
  BY <1>2, <1>3, <1>4, ReadyType
<1> QED
  BY <1>1, <1>3, <1>5, KeepKeeps, TurnType

LEMMA RemoteCmdKeeps ==
  ASSUME IInv, DropRemoteCmd
  PROVE  IInv'
<1>1. PICK d \in Clients :
        /\ Pick(d) /\ KeepDevices
        /\ ready' = [ready EXCEPT ![d]["evt"] = {}]
  BY DEF DropRemoteCmd, Serve
<1>2. d \in Device /\ ~devChangeFlag /\ fds' = fds
  BY <1>1, PickScan DEF Device
<1>3. [ready[d] EXCEPT !["evt"] = {}] \in Readiness
  BY <1>2, ReadyType DEF Readiness
<1>4. ready' \in [Device -> Readiness]
  BY <1>1, <1>2, <1>3, ReadyType
<1> QED
  BY <1>1, <1>2, <1>4, KeepKeeps, TurnType

LEMMA ShutdownKeeps ==
  ASSUME IInv, ShutdownConnection
  PROVE  IInv'
<1>1. PICK d \in Sessions \cup Clients :
        Pick(d) /\ FreeDevices({d}) /\ ready' = [ready EXCEPT ![d] = Quiet]
  BY DEF ShutdownConnection, Serve
<1>2. d \in Device /\ ~devChangeFlag /\ fds' = fds
  BY <1>1, PickScan DEF Device
<1>3. ready' \in [Device -> Readiness]
  BY <1>1, <1>2, QuietType, ReadyType
<1>4. ListTypes' /\ ListInv'
  BY <1>1, <1>2, FreeKeeps
<1> QED
  BY <1>1, <1>2, <1>3, <1>4, TurnType

\* The list is as it was, and the array is not looked at while the flag is set.
LEMMA SameList ==
  ASSUME IInv, UNCHANGED <<devList, fds, idx, unconnected>>, ~devChangeFlag, devChangeFlag' \in BOOLEAN
  PROVE  ListTypes' /\ ListInv'
<1>1. ListTypes'
  BY DEF IInv, TypeOK, ListTypes
<1>2. ListInv'
  BY DEF IInv, ListInv, HelloFirst, FdsWanted, IdxBehind, SlotIndexed, NoStaleIdx, AllPolled, Listed
<1> QED
  BY <1>1, <1>2

LEMMA NoDeviceKeeps ==
  ASSUME IInv, NoDeviceReady
  PROVE  IInv'
<1>1. /\ UNCHANGED <<devList, fds, idx, unconnected>> /\ ~devChangeFlag
      /\ devChangeFlag' \in BOOLEAN /\ ready' = ready /\ lastServed' = {}
      /\ lastScanIdx' = IF ScanStart = 0 THEN MAX_DEVICES ELSE ScanStart
  BY DEF NoDeviceReady
<1>2. lastScanIdx' \in 0..MAX_DEVICES
  BY <1>1, Slots DEF ScanStart, IInv, TypeOK
<1>3. ListTypes' /\ ListInv'
  BY <1>1, SameList
<1> QED
  BY <1>1, <1>2, <1>3 DEF IInv, TypeOK, ListTypes

LEMMA ArrivalKeeps ==
  ASSUME IInv, BecomesReady
  PROVE  IInv'
<1>1. PICK d \in Device : \E a \in Arrivals(d) :
        ready' = [ready EXCEPT ![d][a.kind] = ready[d][a.kind] \cup {a.bit}]
  BY DEF BecomesReady
<1>2. PICK a \in Arrivals(d) :
        ready' = [ready EXCEPT ![d][a.kind] = ready[d][a.kind] \cup {a.bit}]
  BY <1>1
<1>3. a \in CanArrive(d)
  BY ArrivalsAssumption
<1>4. a.kind \in Kind /\ a.bit \in Bit /\ (a.kind # "dev" => a.bit = "POLLIN")
  BY <1>3 DEF CanArrive, Kind, Bit
<1>5. [ready[d] EXCEPT ![a.kind] = ready[d][a.kind] \cup {a.bit}] \in Readiness
  <2>1. ready[d][a.kind] \cup {a.bit} \in SUBSET Bit
        /\ (a.kind # "dev" => ready[d][a.kind] \cup {a.bit} \subseteq {"POLLIN"})
    BY <1>4, ReadyType
  <2> QED
    BY <1>4, <2>1, ReadyType DEF Readiness
<1>6. UNCHANGED <<devList, fds, idx, devChangeFlag, lastScanIdx, lastServed, unconnected>>
  BY DEF BecomesReady
<1>7. ready' \in [Device -> Readiness]
  BY <1>2, <1>5, ReadyType
<1>8. TypeOK'
  BY <1>6, <1>7 DEF IInv, TypeOK
<1>9. ListInv'
  BY <1>6 DEF IInv, ListInv, HelloFirst, FdsWanted, IdxBehind, SlotIndexed, NoStaleIdx, AllPolled, Listed
<1> QED
  BY <1>8, <1>9 DEF IInv

LEMMA InitHolds == Init => IInv
<1> SUFFICES ASSUME Init PROVE IInv
  OBVIOUS
<1>1. devList = <<Hello, Listener, Serial>> /\ devList \in Seq(Device) /\ Len(devList) = 3
  BY DEF Init, Device
<1>2. \A d \in Device, k \in Kind : idx[d][k] = NO_FDS_IDX
  BY DEF Init, NoIdx
<1>3. HelloFirst(devList)
  BY <1>1, PollAssumption DEF HelloFirst
<1>4. IdxBehind
  <2>1. \A i \in 1..Len(devList) : devList[i] \in Device
    BY <1>1, ElementOfSeq
  <2> QED
    BY <1>2, <2>1 DEF IdxBehind
<1>5. TypeOK
  BY <1>1, Slots, QuietType DEF Init, TypeOK, NoIdx
<1> QED
  BY <1>3, <1>4, <1>5 DEF Init, IInv, ListInv, FdsWanted, SlotIndexed, NoStaleIdx, AllPolled

LEMMA StepKeeps == IInv /\ [Next]_pollVars => IInv'
<1> SUFFICES ASSUME IInv, [Next]_pollVars PROVE IInv'
  OBVIOUS
<1>1. CASE Rebuild
  BY <1>1, RebuildKeeps
<1>2. CASE tcpConnSrvAcceptConnection
  BY <1>2, AcceptKeeps
<1>3. CASE helloProtocolInput
  BY <1>3, InputKeeps
<1>4. CASE helloProtocolTimer
  BY <1>4, TimerKeeps
<1>5. CASE ServeSerial
  BY <1>5, SerialKeeps
<1>6. CASE ServeSession
  BY <1>6, SessionKeeps
<1>7. CASE NoSessionEvent
  BY <1>7, NoEventKeeps
<1>8. CASE ServeClient
  BY <1>8, ClientKeeps
<1>9. CASE DropRemoteCmd
  BY <1>9, RemoteCmdKeeps
<1>10. CASE ShutdownConnection
  BY <1>10, ShutdownKeeps
<1>11. CASE NoDeviceReady
  BY <1>11, NoDeviceKeeps
<1>12. CASE BecomesReady
  BY <1>12, ArrivalKeeps
<1>13. CASE UNCHANGED pollVars
  BY <1>13 DEF pollVars, IInv, TypeOK, ListInv, HelloFirst, FdsWanted, IdxBehind, SlotIndexed,
     NoStaleIdx, AllPolled, Listed
<1> QED
  BY <1>1, <1>2, <1>3, <1>4, <1>5, <1>6, <1>7, <1>8, <1>9, <1>10, <1>11, <1>12, <1>13 DEF Next, Turn

THEOREM IInvHolds == Spec => []IInv
BY InitHolds, StepKeeps, PTL DEF Spec

\* The state of the poll loop has its type, whatever comes and goes; in particular no
\* index and no scan ever points behind the array (device.c:132-150, 206-256).
THEOREM PollTypeCorrect == Spec => []TypeOK
<1>1. IInv => TypeOK
  BY DEF IInv
<1> QED
  BY <1>1, IInvHolds, PTL

\* When the loop polls, no slot names a device that was freed (device.c:246-251).
THEOREM SlotsAlive == Spec => []NoDanglingSlot
<1>1. IInv => NoDanglingSlot
  BY SlotListed DEF NoDanglingSlot
<1> QED
  BY <1>1, IInvHolds, PTL

\* When the loop polls, an index of a device leads to the slot of that very descriptor,
\* although addToFds leaves the old index when the array is full (device.c:142-146).
THEOREM IndicesFresh == Spec => []NoStaleIdx
<1>1. IInv => NoStaleIdx
  BY DEF IInv, ListInv
<1> QED
  BY <1>1, IInvHolds, PTL

\* The scan finds a device to serve whenever poll() reports something else than an
\* error of the listening socket or of the serial line (srvr.c:67).
THEOREM PollNeverInVain == Spec => []PollFindsDevice
<1>1. IInv => PollFindsDevice
  BY ReadySlotActive DEF PollFindsDevice
<1> QED
  BY <1>1, IInvHolds, PTL

\* While the array has room, every device is polled but a client whose connection
\* failed (helloProtocol.c:170-181).
THEOREM RoomForAll == Spec => []AllPolled
<1>1. IInv => AllPolled
  BY DEF IInv, ListInv
<1> QED
  BY <1>1, IInvHolds, PTL
=============================================================================
