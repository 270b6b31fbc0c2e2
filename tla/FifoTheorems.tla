---------------------------- MODULE FifoTheorems ----------------------------
(***************************************************************************)
(* What the operators of Fifo return, for every sequence and every bound.  *)
(***************************************************************************)
EXTENDS Fifo, SequenceTheorems, WellFoundedInduction, TLAPS

\* A non-empty set of positions has a least one.
LEMMA LeastPosition ==
  ASSUME NEW T, T \subseteq Nat, T # {}
  PROVE  \E i \in T : \A j \in T : i <= j
<1>1. PICK i \in T : \A j \in T : ~(<<j, i>> \in OpToRel(<, Nat))
  BY NatLessThanWellFounded, WFMin
<1>2. ASSUME NEW j \in T PROVE i <= j
  <2>1. j < i => <<j, i>> \in OpToRel(<, Nat)
    BY DEF OpToRel
  <2>2. ~(j < i)
    BY <1>1, <2>1, Zenon
  <2> QED
    BY <2>2
<1> QED
  BY <1>2

\* Induction up to a bound: a set that has 0, and the successor of each of its
\* numbers below n, has all the numbers up to n.
LEMMA UpToBound ==
  ASSUME NEW n \in Nat, NEW T, 0 \in T, \A i \in 0..(n - 1) : i \in T => i + 1 \in T
  PROVE  \A i \in 0..n : i \in T
<1> DEFINE missing == {i \in 0..n : i \notin T}
<1>1. CASE missing # {}
  <2>0. missing \subseteq Nat
    OBVIOUS
  <2>1. PICK i \in missing : \A j \in missing : i <= j
    BY <1>1, <2>0, LeastPosition, Zenon
  <2>2. i \in 1..n /\ i - 1 \in 0..(n - 1)
    BY <2>1
  <2>3. i - 1 \in T
    BY <2>1, <2>2
  <2>4. i - 1 + 1 \in T
    BY <2>2, <2>3
  <2> QED
    BY <2>1, <2>2, <2>4
<1> QED
  BY <1>1

\* f has the value base at 0 and is continued by step up to n.
Recursive(f, n, base, step) == f[0] = base /\ \A i \in 1..n : f[i] = step[i][f[i - 1]]

\* A value for 0 and a step from each number to the next define a function.
LEMMA RecursionExists ==
  ASSUME NEW N \in Nat, NEW V, NEW base \in V, NEW step \in [1..N -> [V -> V]]
  PROVE  \E f \in [0..N -> V] : Recursive(f, N, base, step)
<1> DEFINE T == {n \in 0..N : \E f \in [0..n -> V] : Recursive(f, n, base, step)}
<1>1. 0 \in T
  <2> DEFINE f == [i \in 0..0 |-> base]
  <2>1. f \in [0..0 -> V] /\ Recursive(f, 0, base, step)
    BY DEF Recursive
  <2> HIDE DEF f
  <2>2. \E h \in [0..0 -> V] : Recursive(h, 0, base, step)
    BY <2>1
  <2>3. 0 \in 0..N
    OBVIOUS
  <2> QED
    BY <2>2, <2>3
<1>2. ASSUME NEW n \in 0..(N - 1), n \in T PROVE n + 1 \in T
  <2>1. PICK f \in [0..n -> V] : Recursive(f, n, base, step)
    BY <1>2
  <2> DEFINE g == [i \in 0..(n + 1) |-> IF i <= n THEN f[i] ELSE step[n + 1][f[n]]]
  <2>2. step[n + 1] \in [V -> V] /\ f[n] \in V
    OBVIOUS
  <2>3. g \in [0..(n + 1) -> V]
    BY <2>2
  <2>4. g[0] = base
    BY <2>1 DEF Recursive
  <2>5. ASSUME NEW i \in 1..(n + 1) PROVE g[i] = step[i][g[i - 1]]
    <3>1. CASE i <= n
      <4>1. g[i] = f[i] /\ g[i - 1] = f[i - 1] /\ i \in 1..n
        BY <3>1
      <4> QED
        BY <2>1, <4>1 DEF Recursive
    <3>2. CASE i = n + 1
      BY <3>2
    <3> QED
      BY <3>1, <3>2
  <2> HIDE DEF g
  <2>6. Recursive(g, n + 1, base, step)
    BY <2>4, <2>5, Zenon DEF Recursive
  <2>7. n + 1 \in 0..N
    OBVIOUS
  <2> QED
    BY <2>3, <2>6, <2>7, Zenon
<1> HIDE DEF T
<1>3. N \in T
  <2>1. \A i \in 0..N : i \in T
    BY <1>1, <1>2, UpToBound
  <2> QED
    BY <2>1
<1> QED
  BY <1>3 DEF T

\* rngSearch finds the first occurrence, or reports that there is none.
THEOREM FifoSearchFirst ==
  ASSUME NEW S, NEW q \in Seq(S), NEW b
  PROVE  /\ FifoSearch(q, b) \in 0..Len(q)
         /\ FifoSearch(q, b) = 0 => \A i \in 1..Len(q) : q[i] # b
         /\ FifoSearch(q, b) > 0 =>
              /\ q[FifoSearch(q, b)] = b
              /\ \A i \in 1..(FifoSearch(q, b) - 1) : q[i] # b
<1> DEFINE at == {i \in 1..Len(q) : q[i] = b}
           first == CHOOSE i \in at : \A j \in at : i <= j
<1>1. Len(q) \in Nat
  BY LenProperties
<1>2. CASE at = {}
  <2>1. FifoSearch(q, b) = 0
    BY <1>2 DEF FifoSearch
  <2>2. \A i \in 1..Len(q) : q[i] # b
    BY <1>2
  <2> QED
    BY <1>1, <2>1, <2>2
<1>3. CASE at # {}
  <2>1. at \subseteq Nat
    BY <1>1
  <2>2. \E i \in at : \A j \in at : i <= j
    BY <1>3, <2>1, LeastPosition
  <2>3. first \in at /\ \A j \in at : first <= j
    BY <2>2, Zenon
  <2>4. FifoSearch(q, b) = first
    BY <1>3, Zenon DEF FifoSearch
  <2> HIDE DEF first
  <2>5. first \in 1..Len(q) /\ q[first] = b
    BY <2>3
  <2>6. ASSUME NEW i \in 1..(first - 1) PROVE q[i] # b
    BY <1>1, <2>3, <2>5
  <2> QED
    BY <1>1, <2>4, <2>5, <2>6
<1> QED
  BY <1>2, <1>3

\* Cutting a queue in two keeps every byte once.
THEOREM FirstNProperties ==
  ASSUME NEW S, NEW q \in Seq(S), NEW n \in Int
  PROVE  /\ FirstN(q, n) \in Seq(S)
         /\ Len(FirstN(q, n)) = IF n <= 0 THEN 0 ELSE IF n <= Len(q) THEN n ELSE Len(q)
         /\ \A i \in 1..Len(FirstN(q, n)) : FirstN(q, n)[i] = q[i]
<1> DEFINE m == IF n <= Len(q) THEN n ELSE Len(q)
<1>1. Len(q) \in Nat /\ m \in Int /\ m <= Len(q)
  BY LenProperties
<1>2. \A i \in 1..m : q[i] \in S
  BY <1>1, ElementOfSeq
<1>3. /\ SubSeq(q, 1, m) \in Seq(S)
      /\ Len(SubSeq(q, 1, m)) = IF 1 <= m THEN m - 1 + 1 ELSE 0
      /\ \A i \in 1..(m - 1 + 1) : SubSeq(q, 1, m)[i] = q[1 + i - 1]
  BY <1>1, <1>2, SubSeqProperties
<1> QED
  BY <1>1, <1>3 DEF FirstN

THEOREM AfterNProperties ==
  ASSUME NEW S, NEW q \in Seq(S), NEW n \in Nat
  PROVE  /\ AfterN(q, n) \in Seq(S)
         /\ Len(AfterN(q, n)) = IF n < Len(q) THEN Len(q) - n ELSE 0
         /\ \A i \in 1..Len(AfterN(q, n)) : AfterN(q, n)[i] = q[n + i]
<1>1. Len(q) \in Nat
  BY LenProperties
<1>2. \A i \in (n + 1)..Len(q) : q[i] \in S
  BY <1>1, ElementOfSeq
<1>3. /\ SubSeq(q, n + 1, Len(q)) \in Seq(S)
      /\ Len(SubSeq(q, n + 1, Len(q)))
           = IF n + 1 <= Len(q) THEN Len(q) - (n + 1) + 1 ELSE 0
      /\ \A i \in 1..(Len(q) - (n + 1) + 1) :
            SubSeq(q, n + 1, Len(q))[i] = q[n + 1 + i - 1]
  BY <1>1, <1>2, SubSeqProperties
<1> QED
  BY <1>1, <1>3 DEF AfterN

\* What is put stays in order behind what is there, and never more than fits.
THEOREM FifoPutProperties ==
  ASSUME NEW S, NEW q \in Seq(S), NEW c \in Seq(S), NEW cap \in Nat
  PROVE  /\ FifoPut(q, c, cap) \in Seq(S)
         /\ Len(q) <= cap => Len(FifoPut(q, c, cap)) <= cap
         /\ \A i \in 1..Len(q) : FifoPut(q, c, cap)[i] = q[i]
<1>1. Len(q) \in Nat /\ Len(c) \in Nat
  BY LenProperties
<1>2. /\ FirstN(c, cap - Len(q)) \in Seq(S)
      /\ Len(FirstN(c, cap - Len(q))) \in Nat
      /\ Len(q) <= cap => Len(FirstN(c, cap - Len(q))) <= cap - Len(q)
  BY <1>1, FirstNProperties
<1>3. /\ q \o FirstN(c, cap - Len(q)) \in Seq(S)
      /\ Len(q \o FirstN(c, cap - Len(q))) = Len(q) + Len(FirstN(c, cap - Len(q)))
      /\ \A i \in 1..Len(q) + Len(FirstN(c, cap - Len(q))) :
           (q \o FirstN(c, cap - Len(q)))[i] =
              IF i <= Len(q) THEN q[i] ELSE FirstN(c, cap - Len(q))[i - Len(q)]
  BY <1>2, ConcatProperties
<1> QED
  BY <1>1, <1>2, <1>3 DEF FifoPut

-----------------------------------------------------------------------------
(* What Sublist keeps *)

\* pos tells where each element of s, the first n of the list without those that are
\* not to keep, was in the list.
Positions(s, list, keep, n, pos) ==
  /\ \A i \in 1..Len(s) : pos[i] \in keep \cap 1..n /\ i <= pos[i] /\ s[i] = list[pos[i]]
  /\ \A i, j \in 1..Len(s) : i < j => pos[i] < pos[j]
  /\ \A k \in keep \cap 1..n : \E i \in 1..Len(s) : pos[i] = k

LEMMA PositionsAppend ==
  ASSUME NEW S, NEW list \in Seq(S), NEW keep, NEW n \in Nat, n + 1 \in 1..Len(list),
         NEW s \in Seq(S), NEW pos \in [1..Len(s) -> Nat], Positions(s, list, keep, n, pos),
         n + 1 \in keep
  PROVE  /\ Append(s, list[n + 1]) \in Seq(S)
         /\ \E p \in [1..Len(Append(s, list[n + 1])) -> Nat] :
              Positions(Append(s, list[n + 1]), list, keep, n + 1, p)
<1> DEFINE r == Append(s, list[n + 1])
           m == Len(s)
           p == [i \in 1..(m + 1) |-> IF i <= m THEN pos[i] ELSE n + 1]
<1>1. m \in Nat /\ list[n + 1] \in S
  BY LenProperties, ElementOfSeq
<1>2. /\ r \in Seq(S) /\ Len(r) = m + 1
      /\ \A i \in 1..(m + 1) : r[i] = IF i <= m THEN s[i] ELSE list[n + 1]
  BY <1>1, AppendProperties
<1>3. /\ \A i \in 1..m : pos[i] \in keep \cap 1..n /\ i <= pos[i] /\ s[i] = list[pos[i]]
      /\ \A i, j \in 1..m : i < j => pos[i] < pos[j]
      /\ \A k \in keep \cap 1..n : \E i \in 1..m : pos[i] = k
  BY DEF Positions
<1>4. m <= n
  BY <1>1, <1>3
<1> HIDE DEF r, m
<1>5. p \in [1..(m + 1) -> Nat]
  BY <1>1, <1>3
<1>6. ASSUME NEW i \in 1..(m + 1)
      PROVE  p[i] \in keep \cap 1..(n + 1) /\ i <= p[i] /\ r[i] = list[p[i]]
  <2>1. CASE i <= m
    <3>1. i \in 1..m /\ p[i] = pos[i] /\ r[i] = s[i]
      BY <1>1, <1>2, <2>1
    <3> QED
      BY <1>3, <3>1
  <2>2. CASE i = m + 1
    <3>1. p[i] = n + 1 /\ r[i] = list[n + 1]
      BY <1>1, <1>2, <2>2
    <3> QED
      BY <1>1, <1>4, <2>2, <3>1
  <2> QED
    BY <1>1, <2>1, <2>2
<1>7. ASSUME NEW i \in 1..(m + 1), NEW j \in 1..(m + 1), i < j PROVE p[i] < p[j]
  BY <1>1, <1>3, <1>7
<1>8. ASSUME NEW k \in keep \cap 1..(n + 1) PROVE \E i \in 1..(m + 1) : p[i] = k
  <2>1. CASE k \in 1..n
    <3>1. PICK i \in 1..m : pos[i] = k
      BY <1>3, <2>1
    <3>2. i \in 1..(m + 1) /\ p[i] = k
      BY <1>1, <3>1
    <3> QED
      BY <3>2
  <2>2. CASE k = n + 1
    <3>1. m + 1 \in 1..(m + 1) /\ p[m + 1] = n + 1
      BY <1>1
    <3> QED
      BY <2>2, <3>1
  <2> QED
    BY <2>1, <2>2
<1> HIDE DEF p
<1>9. Positions(r, list, keep, n + 1, p)
  BY <1>2, <1>6, <1>7, <1>8 DEF Positions
<1> QED
  BY <1>2, <1>5, <1>9 DEF r

\* f is the walk of Sublist along the list.
Unlinks(f, list, keep) ==
  /\ f[0] = <<>>
  /\ \A i \in 1..Len(list) : f[i] = IF i \in keep THEN Append(f[i - 1], list[i]) ELSE f[i - 1]

\* Sublist takes that walk.
LEMMA SublistSteps ==
  ASSUME NEW S, NEW list \in Seq(S), NEW keep
  PROVE  \E f : Unlinks(f, list, keep) /\ Sublist(list, keep) = f[Len(list)]
<1> DEFINE N == Len(list)
           step == [i \in 1..N |-> [s \in Seq(S) |->
                      IF i \in keep THEN Append(s, list[i]) ELSE s]]
           upTo == CHOOSE f : f = [n \in 0..N |->
                      IF n = 0 THEN <<>>
                      ELSE IF n \in keep THEN Append(f[n - 1], list[n]) ELSE f[n - 1]]
<1>1. N \in Nat /\ \A i \in 1..N : list[i] \in S
  BY LenProperties, ElementOfSeq
<1>2. <<>> \in Seq(S) /\ \A s \in Seq(S), e \in S : Append(s, e) \in Seq(S)
  BY EmptySeq, AppendProperties
<1> HIDE DEF N
<1>3. step \in [1..N -> [Seq(S) -> Seq(S)]]
  BY <1>1, <1>2
<1> HIDE DEF step
<1>4. PICK f \in [0..N -> Seq(S)] : Recursive(f, N, <<>>, step)
  <2> DEFINE V == Seq(S)
             base == <<>>
  <2>1. base \in V /\ step \in [1..N -> [V -> V]]
    BY <1>2, <1>3
  <2> HIDE DEF V, base
  <2>2. \E f \in [0..N -> V] : Recursive(f, N, base, step)
    <3>1. N \in Nat
      BY <1>1
    <3>2. base \in V
      BY <2>1
    <3>3. step \in [1..N -> [V -> V]]
      BY <2>1
    <3> QED
      BY <3>1, <3>2, <3>3, RecursionExists, Zenon
  <2> QED
    BY <2>2 DEF V, base
<1>5. \A i \in 1..N : f[i] = IF i \in keep THEN Append(f[i - 1], list[i]) ELSE f[i - 1]
  <2>1. ASSUME NEW i \in 1..N
        PROVE  f[i] = IF i \in keep THEN Append(f[i - 1], list[i]) ELSE f[i - 1]
    <3>1. f[i - 1] \in Seq(S)
      BY <1>1
    <3>2. step[i][f[i - 1]] = IF i \in keep THEN Append(f[i - 1], list[i]) ELSE f[i - 1]
      BY <3>1 DEF step
    <3> QED
      BY <1>4, <3>2 DEF Recursive
  <2> QED
    BY <2>1
<1>6. f = [n \in 0..N |-> IF n = 0 THEN <<>>
                          ELSE IF n \in keep THEN Append(f[n - 1], list[n]) ELSE f[n - 1]]
  <2>1. ASSUME NEW n \in 0..N
        PROVE  f[n] = IF n = 0 THEN <<>>
                      ELSE IF n \in keep THEN Append(f[n - 1], list[n]) ELSE f[n - 1]
    <3>1. n = 0 \/ n \in 1..N
      BY <1>1
    <3> QED
      BY <1>1, <1>4, <1>5, <3>1 DEF Recursive
  <2>2. f = [n \in 0..N |-> f[n]]
    BY <1>4
  <2> QED
    BY <2>1, <2>2, Zenon
<1>7. upTo = [n \in 0..N |-> IF n = 0 THEN <<>>
                 ELSE IF n \in keep THEN Append(upTo[n - 1], list[n]) ELSE upTo[n - 1]]
  BY <1>6, Zenon
<1>8. Sublist(list, keep) = upTo[N]
  BY DEF Sublist, N
<1> HIDE DEF upTo
<1>9. upTo[0] = <<>>
  BY <1>1, <1>7
<1>10. ASSUME NEW i \in 1..N
       PROVE  upTo[i] = IF i \in keep THEN Append(upTo[i - 1], list[i]) ELSE upTo[i - 1]
  <2>1. PICK k \in 0..N : k = i /\ k # 0
    BY <1>1
  <2>2. upTo[k] = IF k = 0 THEN <<>>
                  ELSE IF k \in keep THEN Append(upTo[k - 1], list[k]) ELSE upTo[k - 1]
    BY <1>7, Zenon
  <2> QED
    BY <2>1, <2>2, Zenon
<1>11. Unlinks(upTo, list, keep)
  BY <1>9, <1>10 DEF Unlinks, N
<1> QED
  BY <1>8, <1>11, Zenon DEF N

\* What is left of a list with one element more: that element behind what was left, or not.
LEMMA SublistAppend ==
  ASSUME NEW S, NEW list \in Seq(S), NEW e \in S, NEW keep, NEW longer,
         longer \cap 1..Len(list) = keep \cap 1..Len(list)
  PROVE  Sublist(Append(list, e), longer)
           = IF Len(list) + 1 \in longer THEN Append(Sublist(list, keep), e) ELSE Sublist(list, keep)
<1> DEFINE N == Len(list)
           l == Append(list, e)
<1>1. /\ N \in Nat /\ l \in Seq(S) /\ Len(l) = N + 1 /\ l[N + 1] = e
      /\ \A i \in 1..N : l[i] = list[i]
  BY LenProperties, AppendProperties
<1>2. PICK f : Unlinks(f, list, keep) /\ Sublist(list, keep) = f[N]
  BY SublistSteps, Zenon
<1> HIDE DEF l
<1>3. PICK g : Unlinks(g, l, longer) /\ Sublist(l, longer) = g[N + 1]
  <2>1. \E g : Unlinks(g, l, longer) /\ Sublist(l, longer) = g[Len(l)]
    BY <1>1, SublistSteps, Zenon
  <2> QED
    BY <1>1, <2>1, Zenon
<1> DEFINE T == {n \in 0..N : g[n] = f[n]}
<1>4. 0 \in T
  BY <1>1, <1>2, <1>3 DEF Unlinks
<1>5. ASSUME NEW n \in 0..(N - 1), n \in T PROVE n + 1 \in T
  <2>1. PICK k \in 1..N : k = n + 1 /\ k - 1 = n /\ k \in 1..Len(l) /\ k \in 0..N
    BY <1>1
  <2>2. f[k] = IF k \in keep THEN Append(f[k - 1], list[k]) ELSE f[k - 1]
    BY <1>2, <2>1 DEF Unlinks
  <2>3. g[k] = IF k \in longer THEN Append(g[k - 1], l[k]) ELSE g[k - 1]
    BY <1>3, <2>1 DEF Unlinks
  <2>4. (k \in longer <=> k \in keep) /\ l[k] = list[k] /\ g[n] = f[n]
    BY <1>1, <1>5, <2>1
  <2>5. g[k] = f[k]
    BY <2>1, <2>2, <2>3, <2>4
  <2> QED
    BY <2>1, <2>5
<1> HIDE DEF T
<1>6. N \in T
  <2>1. \A n \in 0..N : n \in T
    BY <1>1, <1>4, <1>5, UpToBound
  <2> QED
    BY <1>1, <2>1
<1>7. g[N] = f[N]
  BY <1>6 DEF T
<1>8. g[N + 1] = IF N + 1 \in longer THEN Append(g[N], e) ELSE g[N]
  <2>1. PICK k \in 1..Len(l) : k = N + 1 /\ k - 1 = N
    BY <1>1
  <2>2. g[k] = IF k \in longer THEN Append(g[k - 1], l[k]) ELSE g[k - 1]
    BY <1>3, <2>1 DEF Unlinks
  <2> QED
    BY <1>1, <2>1, <2>2
<1> QED
  BY <1>2, <1>3, <1>7, <1>8 DEF l

\* What is left of an empty list.
LEMMA SublistOfEmpty ==
  ASSUME NEW keep
  PROVE  Sublist(<<>>, keep) = <<>>
<1>1. <<>> \in Seq({}) /\ Len(<<>>) = 0
  BY EmptySeq
<1>2. PICK f : Unlinks(f, <<>>, keep) /\ Sublist(<<>>, keep) = f[Len(<<>>)]
  BY <1>1, SublistSteps, Zenon
<1> QED
  BY <1>1, <1>2 DEF Unlinks

\* What is left of a list are its elements at the positions to keep, each once and in
\* their order.
THEOREM SublistPositions ==
  ASSUME NEW S, NEW list \in Seq(S), NEW keep
  PROVE  /\ Sublist(list, keep) \in Seq(S)
         /\ \E pos \in [1..Len(Sublist(list, keep)) -> Nat] :
              Positions(Sublist(list, keep), list, keep, Len(list), pos)
<1>1. PICK upTo : Unlinks(upTo, list, keep) /\ Sublist(list, keep) = upTo[Len(list)]
  BY SublistSteps, Zenon
<1> DEFINE N == Len(list)
           T == {n \in 0..N : /\ upTo[n] \in Seq(S)
                               /\ \E pos \in [1..Len(upTo[n]) -> Nat] :
                                     Positions(upTo[n], list, keep, n, pos)}
<1>2. N \in Nat /\ <<>> \in Seq(S)
  BY LenProperties, EmptySeq
<1> HIDE DEF N
<1>3. 0 \in T
  <2>1. upTo[0] = <<>> /\ Len(upTo[0]) = 0
    BY <1>1, <1>2 DEF Unlinks
  <2> DEFINE pos == [i \in 1..0 |-> 0]
  <2>2. pos \in [1..Len(upTo[0]) -> Nat]
    BY <2>1
  <2>3. Positions(upTo[0], list, keep, 0, pos)
    BY <2>1 DEF Positions
  <2> HIDE DEF pos
  <2>4. upTo[0] \in Seq(S) /\ 0 \in 0..N
    BY <1>2, <2>1
  <2> QED
    BY <2>2, <2>3, <2>4
<1>4. ASSUME NEW n \in 0..(N - 1), n \in T PROVE n + 1 \in T
  <2>1. n \in Nat /\ n + 1 \in 1..Len(list) /\ n + 1 \in 0..N
    BY <1>2 DEF N
  <2>2. upTo[n + 1] = IF n + 1 \in keep THEN Append(upTo[n], list[n + 1]) ELSE upTo[n]
    <3>1. PICK k \in 1..Len(list) : k = n + 1 /\ k - 1 = n
      BY <2>1
    <3>2. upTo[k] = IF k \in keep THEN Append(upTo[k - 1], list[k]) ELSE upTo[k - 1]
      BY <1>1, <3>1 DEF Unlinks
    <3> QED
      BY <3>1, <3>2
  <2>3. upTo[n] \in Seq(S)
    BY <1>4
  <2>4. PICK pos \in [1..Len(upTo[n]) -> Nat] : Positions(upTo[n], list, keep, n, pos)
    BY <1>4
  <2>5. CASE n + 1 \in keep
    <3>1. /\ Append(upTo[n], list[n + 1]) \in Seq(S)
          /\ \E p \in [1..Len(Append(upTo[n], list[n + 1])) -> Nat] :
               Positions(Append(upTo[n], list[n + 1]), list, keep, n + 1, p)
      BY <2>1, <2>3, <2>4, <2>5, PositionsAppend
    <3> QED
      BY <2>1, <2>2, <2>5, <3>1
  <2>6. CASE n + 1 \notin keep
    <3>1. keep \cap 1..(n + 1) = keep \cap 1..n
      BY <2>1, <2>6
    <3>2. Positions(upTo[n], list, keep, n + 1, pos)
      BY <2>4, <3>1 DEF Positions
    <3> QED
      BY <2>1, <2>2, <2>3, <2>6, <3>2
  <2> QED
    BY <2>5, <2>6
<1> HIDE DEF T
<1>5. \A i \in 0..N : i \in T
  BY <1>2, <1>3, <1>4, UpToBound
<1>6. N \in T
  BY <1>2, <1>5
<1> QED
  BY <1>1, <1>6 DEF T, N

\* Nothing is lost of a list of which every element is to keep.
THEOREM SublistAll ==
  ASSUME NEW S, NEW list \in Seq(S), NEW keep, 1..Len(list) \subseteq keep
  PROVE  Sublist(list, keep) = list
<1> DEFINE s == Sublist(list, keep)
           m == Len(s)
           N == Len(list)
<1>1. PICK pos \in [1..m -> Nat] : Positions(s, list, keep, N, pos)
  BY SublistPositions
<1>2. s \in Seq(S) /\ m \in Nat /\ N \in Nat
  BY SublistPositions, LenProperties
<1>3. /\ \A i \in 1..m : pos[i] \in 1..N /\ i <= pos[i] /\ s[i] = list[pos[i]]
      /\ \A i, j \in 1..m : i < j => pos[i] < pos[j]
      /\ \A k \in 1..N : \E i \in 1..m : pos[i] = k
  BY <1>1 DEF Positions
<1> DEFINE T == {n \in 0..N : n \in 1..N => n \in 1..m /\ pos[n] = n}
<1> HIDE DEF s, m, N
<1>4. 0 \in T
  BY <1>2
<1>5. ASSUME NEW n \in 0..(N - 1), n \in T PROVE n + 1 \in T
  <2>1. n + 1 \in 1..N
    BY <1>2
  <2>2. PICK k \in 1..m : pos[k] = n + 1
    BY <1>3, <2>1
  <2>3. n < k
    <3>1. CASE n = 0
      BY <1>2, <3>1
    <3>2. CASE n # 0
      <4>1. n \in 1..m /\ pos[n] = n
        BY <1>2, <1>5, <3>2
      <4>2. k < n => pos[k] < pos[n]
        BY <1>3, <4>1
      <4>3. k = n => pos[k] = n
        BY <4>1
      <4> QED
        BY <1>2, <2>2, <4>1, <4>2, <4>3
    <3> QED
      BY <3>1, <3>2
  <2>4. n + 1 \in 1..m /\ n + 1 <= pos[n + 1]
    BY <1>2, <1>3, <2>3
  <2>5. n + 1 < k => pos[n + 1] < pos[k]
    BY <1>3, <2>4
  <2>6. pos[n + 1] = n + 1
    BY <1>2, <2>2, <2>3, <2>4, <2>5
  <2> QED
    BY <2>1, <2>4, <2>6
<1>6. \A n \in 0..N : n \in T
  <2> HIDE DEF T
  <2> QED
    BY <1>2, <1>4, <1>5, UpToBound
<1>7. \A n \in 1..N : n \in 1..m /\ pos[n] = n
  BY <1>2, <1>6
<1>8. m = N
  <2>1. CASE m > N
    <3>1. m \in 1..m
      BY <1>2, <2>1
    <3>2. pos[m] \in 1..N /\ m <= pos[m]
      BY <1>3, <3>1
    <3> QED
      BY <1>2, <2>1, <3>2
  <2>2. CASE m < N
    <3>1. N \in 1..N
      BY <1>2, <2>2
    <3> QED
      <4>1. N \in 1..m
        BY <1>7, <3>1
      <4> QED
        BY <1>2, <2>2, <4>1
  <2> QED
    BY <1>2, <2>1, <2>2
<1>9. \A i \in 1..m : s[i] = list[i]
  BY <1>3, <1>7, <1>8
<1> QED
  BY <1>2, <1>8, <1>9, SeqEqual DEF s, m, N
=============================================================================
