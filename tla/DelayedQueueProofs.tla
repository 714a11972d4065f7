-------------------------- MODULE DelayedQueueProofs --------------------------
(***************************************************************************)
(* The delayed callbacks are a queue: for any number of cells and of       *)
(* contexts that add them, DelayedQueue implements DelayedFifo in every    *)
(* build in which an exchange cannot be interrupted by another one.        *)
(*                                                                         *)
(* Every state is described by three sequences of cells: the rest of the   *)
(* list that processDelayed has checked out, the list behind the ready     *)
(* head, and the rest of the list that removeDelayedCallback has checked   *)
(* out.  The invariant says how the pointers stand for them, and each      *)
(* action is shown to change the sequences as DelayedFifo does.            *)
(***************************************************************************)
EXTENDS DelayedQueue, FiniteSetTheorems, SequenceTheorems, TLAPS

-----------------------------------------------------------------------------
(* Induction over the naturals, for sets.                                  *)

LEMMA SmallestIn ==
  ASSUME NEW T \in SUBSET Nat, T # {} PROVE \E m \in T : \A k \in T : m <= k
  <1> DEFINE R == OpToRel(<, Nat)
  <1>1. IsWellFoundedOn(R, Nat)
    BY NatLessThanWellFounded
  <1>2. \A x, y \in Nat : <<x, y>> \in R <=> x < y
    BY DEF OpToRel
  <1> HIDE DEF R
  <1>3. PICK x \in T : \A y \in T : ~ (<<y, x>> \in R)
    BY <1>1, WFMin
  <1>4. ASSUME NEW y \in T PROVE x <= y
    <2>1. x \in Nat /\ y \in Nat
      OBVIOUS
    <2>2. ~(y < x)
      BY <1>2, <1>3, <2>1
    <2>3. QED
      BY <2>1, <2>2
  <1>5. QED
    BY <1>4

LEMMA SetInduction ==
  ASSUME NEW T \in SUBSET Nat, 0 \in T, \A n \in T : n + 1 \in T PROVE T = Nat
  <1> SUFFICES ASSUME T # Nat PROVE FALSE
    OBVIOUS
  <1> DEFINE U == Nat \ T
  <1>1. U \in SUBSET Nat /\ U # {}
    OBVIOUS
  <1>2. \A n \in Nat : n \in U <=> n \notin T
    OBVIOUS
  <1> HIDE DEF U
  <1>3. PICK m \in U : \A k \in U : m <= k
    BY <1>1, SmallestIn
  <1>4. m \in Nat /\ m # 0
    BY <1>1, <1>2, <1>3
  <1>5. m - 1 \in Nat /\ ~(m <= m - 1) /\ m = (m - 1) + 1
    BY <1>4
  <1>6. m - 1 \in T
    BY <1>2, <1>3, <1>5
  <1>7. QED
    BY <1>2, <1>3, <1>4, <1>5, <1>6

-----------------------------------------------------------------------------
(* Sequences of cells and the pointers that lead from cell to cell.        *)

Distinct(q) == \A i, j \in 1..Len(q) : q[i] = q[j] => i = j

First(q) == IF q = <<>> THEN Nil ELSE q[1]

End(s, q) == IF q = <<>> THEN s ELSE q[Len(q)]

\* From each cell of q a pointer leads to the next, and from the last to none.
Chained(succ, q) ==
  /\ Distinct(q)
  /\ \A i \in 1..Len(q) : succ[q[i]] = IF i < Len(q) THEN q[i + 1] ELSE Nil

LEMMA DistinctIsShort ==
  ASSUME NEW q \in Seq(Cells), Distinct(q)
  PROVE  Len(q) <= Cardinality(Cells) /\ Cardinality(Cells) \in Nat
  <1>1. q \in Injection(1..Len(q), Cells)
    BY DEF Injection, IsInjective, Distinct
  <1>2. Cardinality(1..Len(q)) <= Cardinality(Cells)
    BY <1>1, DelayedQueueAssumption, FS_Injection
  <1>3. Cardinality(1..Len(q)) = Len(q)
    <2>1. Len(q) \in Nat /\ 1 \in Int /\ Len(q) \in Int
      OBVIOUS
    <2>2. Cardinality(1..Len(q)) = IF 1 > Len(q) THEN 0 ELSE Len(q) - 1 + 1
      BY <2>1, FS_Interval
    <2>3. QED
      BY <2>1, <2>2
  <1>4. QED
    BY <1>2, <1>3, DelayedQueueAssumption, FS_CardinalityType

\* The cells that are reached from a slot in as many hops as there are cells.
LEMMA HopsAre ==
  ASSUME NEW q \in Seq(Cells), NEW succ, NEW s, s # Nil,
         Chained(succ, q), succ[s] = First(q)
  PROVE  Hops(succ, s) = [i \in 0..Cardinality(Cells) |->
                            IF i = 0 THEN s ELSE IF i <= Len(q) THEN q[i] ELSE Nil]
  <1> DEFINE N == Cardinality(Cells)
             g == [i \in 0..N |-> IF i = 0 THEN s ELSE IF i <= Len(q) THEN q[i] ELSE Nil]
             Hop(h) == [i \in 0..N |->
                          IF i = 0 THEN s ELSE IF h[i - 1] = Nil THEN Nil ELSE succ[h[i - 1]]]
  <1>1. N \in Nat /\ Len(q) \in Nat /\ Len(q) <= N
    BY DistinctIsShort DEF Chained
  <1>2. \A i \in 1..Len(q) : q[i] \in Cells /\ q[i] # Nil
    BY DelayedQueueAssumption DEF Slots
  <1>3. Hops(succ, s) = CHOOSE h : h = Hop(h)
    BY DEF Hops
  <1> HIDE DEF N
  <1>4. g = Hop(g)
    <2>1. ASSUME NEW i \in 0..N PROVE g[i] = Hop(g)[i]
      <3>1. CASE i = 0
        BY <3>1
      <3>2. CASE i = 1
        <4>1. i - 1 = 0 /\ 0 \in 0..N
          BY <1>1, <3>2
        <4>2. Hop(g)[i] = succ[s]
          BY <3>2, <4>1
        <4>3. QED
          BY <1>1, <3>2, <4>2 DEF First
      <3>3. CASE i > 1 /\ i - 1 <= Len(q)
        <4>1. i - 1 \in 0..N /\ i - 1 # 0 /\ i - 1 \in 1..Len(q) /\ (i - 1) + 1 = i /\ i # 0
          BY <1>1, <3>3
        <4>2. g[i - 1] = q[i - 1]
          BY <3>3, <4>1
        <4>3. Hop(g)[i] = succ[q[i - 1]]
          BY <1>2, <4>1, <4>2
        <4>4. succ[q[i - 1]] = IF i - 1 < Len(q) THEN q[i] ELSE Nil
          BY <4>1 DEF Chained
        <4>5. i - 1 < Len(q) <=> i <= Len(q)
          BY <1>1
        <4>6. QED
          BY <4>1, <4>3, <4>4, <4>5
      <3>4. CASE i > 1 /\ i - 1 > Len(q)
        BY <1>1, <3>4
      <3>5. QED
        BY <1>1, <3>1, <3>2, <3>3, <3>4
    <2>2. QED
      BY <2>1
  <1>5. ASSUME NEW h, h = Hop(h) PROVE h = g
    <2> DEFINE T == {n \in Nat : n <= N => h[n] = g[n]}
    <2>1. 0 \in T
      <3>1. 0 \in 0..N
        BY <1>1
      <3>2. Hop(h)[0] = s /\ Hop(g)[0] = s
        BY <3>1
      <3>3. QED
        BY <1>4, <1>5, <3>2
    <2>2. ASSUME NEW n \in T PROVE n + 1 \in T
      <3> SUFFICES ASSUME n + 1 <= N PROVE h[n + 1] = g[n + 1]
        BY <1>1
      <3>1. n + 1 \in 0..N /\ n + 1 # 0 /\ n \in 0..N /\ (n + 1) - 1 = n
        BY <1>1
      <3>2. h[n] = g[n]
        BY <1>1, <3>1
      <3>3. /\ Hop(h)[n + 1] = IF h[n] = Nil THEN Nil ELSE succ[h[n]]
            /\ Hop(g)[n + 1] = IF g[n] = Nil THEN Nil ELSE succ[g[n]]
        BY <3>1
      <3> HIDE DEF Hop, g
      <3>4. QED
        BY <1>4, <1>5, <3>2, <3>3
    <2> HIDE DEF T
    <2>3. T = Nat
      <3>1. T \in SUBSET Nat
        BY DEF T
      <3>2. QED
        BY <2>1, <2>2, <3>1, SetInduction
    <2>4. ASSUME NEW n \in 0..N PROVE h[n] = g[n]
      <3>1. n \in T /\ n <= N
        BY <1>1, <2>3
      <3> HIDE DEF g, Hop
      <3>2. QED
        BY <3>1 DEF T
    <2>5. QED
      BY <1>5, <2>4
  <1> HIDE DEF g, Hop
  <1>6. Hops(succ, s) = g
    BY <1>3, <1>4, <1>5
  <1>7. QED
    BY <1>6 DEF g, N

\* The path from a slot is the chain that it leads to.
LEMMA PathIs ==
  ASSUME NEW q \in Seq(Cells), NEW succ, NEW s, s # Nil,
         Chained(succ, q), succ[s] = First(q)
  PROVE  Path(succ, s) = q
  <1> DEFINE N == Cardinality(Cells)
             hop == Hops(succ, s)
  <1>1. N \in Nat /\ Len(q) \in Nat /\ Len(q) <= N
    BY DistinctIsShort DEF Chained
  <1>2. \A i \in 1..Len(q) : q[i] # Nil
    BY DelayedQueueAssumption DEF Slots
  <1>3. \A i \in 1..N : hop[i] = IF i <= Len(q) THEN q[i] ELSE Nil
    <2>1. hop = [i \in 0..N |-> IF i = 0 THEN s ELSE IF i <= Len(q) THEN q[i] ELSE Nil]
      BY HopsAre
    <2> HIDE DEF hop
    <2>2. QED
      BY <1>1, <2>1
  <1> HIDE DEF hop, N
  <1>4. {i \in 1..N : hop[i] # Nil} = 1..Len(q)
    BY <1>1, <1>2, <1>3
  <1>5. Cardinality({i \in 1..N : hop[i] # Nil}) = Len(q)
    <2>1. 1 \in Int /\ Len(q) \in Int
      BY <1>1
    <2>2. Cardinality(1..Len(q)) = IF 1 > Len(q) THEN 0 ELSE Len(q) - 1 + 1
      BY <2>1, FS_Interval
    <2>3. Cardinality(1..Len(q)) = Len(q)
      BY <1>1, <2>2
    <2>4. QED
      BY <1>4, <2>3, Zenon
  <1>6. Path(succ, s) = [i \in 1..Len(q) |-> hop[i]]
    BY <1>5 DEF Path, hop, N
  <1>7. [i \in 1..Len(q) |-> hop[i]] = q
    BY <1>1, <1>3
  <1>8. QED
    BY <1>6, <1>7

LEMMA RangeIs ==
  ASSUME NEW q \in Seq(Cells)
  PROVE  Range(q) = {q[i] : i \in 1..Len(q)} /\ Range(q) \subseteq Cells
  BY DEF Range

LEMMA EndInRange ==
  ASSUME NEW q \in Seq(Cells), q # <<>>
  PROVE  /\ \A s : End(s, q) = q[Len(q)]
         /\ q[Len(q)] \in Range(q) /\ First(q) = q[1] /\ q[1] \in Range(q)
         /\ First(q) \in Cells
  <1>1. Len(q) \in 1..Len(q) /\ 1 \in 1..Len(q)
    OBVIOUS
  <1>2. QED
    BY <1>1, RangeIs DEF End, First

LEMMA NoChain ==
  /\ <<>> \in Seq(Cells) /\ Range(<<>>) = {} /\ First(<<>>) = Nil
  /\ \A succ : Chained(succ, <<>>)
  /\ \A s : End(s, <<>>) = s
  BY DEF Range, First, Chained, Distinct, End

\* A chain does not depend on the pointers elsewhere.
LEMMA ChainStays ==
  ASSUME NEW q \in Seq(Cells), NEW succ, NEW next, Chained(succ, q),
         \A c \in Range(q) : next[c] = succ[c]
  PROVE  Chained(next, q)
  BY RangeIs DEF Chained

\* A chain without its first cell.
LEMMA ChainTail ==
  ASSUME NEW q \in Seq(Cells), q # <<>>, NEW succ, Chained(succ, q)
  PROVE  /\ Tail(q) \in Seq(Cells) /\ Chained(succ, Tail(q))
         /\ succ[q[1]] = First(Tail(q))
         /\ q[1] \in Cells /\ q[1] \notin Range(Tail(q))
         /\ Range(q) = {q[1]} \cup Range(Tail(q))
         /\ Tail(q) # <<>> => \A s : End(s, Tail(q)) = q[Len(q)]
         /\ q[1] = q[Len(q)] <=> Tail(q) = <<>>
         /\ q = <<q[1]>> \o Tail(q)
  <1> DEFINE r == Tail(q)
             n == Len(q)
  <1>1. n \in Nat \ {0} /\ r \in Seq(Cells) /\ Len(r) = n - 1 /\ q \in [1..n -> Cells]
    OBVIOUS
  <1>2. \A i \in 1..n - 1 : r[i] = q[i + 1] /\ i \in 1..n /\ i + 1 \in 1..n
    BY <1>1, HeadTailProperties
  <1>3. \A i, j \in 1..n : q[i] = q[j] => i = j
    BY DEF Chained, Distinct
  <1>4. \A i \in 1..n : succ[q[i]] = IF i < n THEN q[i + 1] ELSE Nil
    BY DEF Chained
  <1>5. r = <<>> <=> n = 1
    BY <1>1
  <1> HIDE DEF r, n
  <1>6. Chained(succ, r)
    <2>1. Distinct(r)
      BY <1>1, <1>2, <1>3 DEF Distinct
    <2>2. ASSUME NEW i \in 1..n - 1
          PROVE  succ[r[i]] = IF i < n - 1 THEN r[i + 1] ELSE Nil
      <3>1. succ[r[i]] = IF i + 1 < n THEN q[i + 2] ELSE Nil
        BY <1>1, <1>2, <1>4
      <3>2. CASE i < n - 1
        <4>1. i + 1 \in 1..n - 1 /\ i + 1 < n
          BY <1>1, <3>2
        <4>2. r[i + 1] = q[i + 2]
          BY <1>1, <1>2, <4>1
        <4>3. QED
          BY <3>1, <3>2, <4>1, <4>2
      <3>3. CASE ~(i < n - 1)
        BY <1>1, <3>1, <3>3
      <3>4. QED
        BY <3>2, <3>3
    <2>3. QED
      BY <1>1, <2>1, <2>2 DEF Chained
  <1>7. succ[q[1]] = First(r)
    <2>1. CASE n = 1
      BY <1>1, <1>4, <1>5, <2>1 DEF First
    <2>2. CASE n # 1
      BY <1>1, <1>2, <1>4, <1>5, <2>2 DEF First
    <2>3. QED
      BY <2>1, <2>2
  <1>8. q[1] \in Cells /\ q[1] \notin Range(r)
    <2>1. \A i \in 1..n - 1 : r[i] # q[1]
      BY <1>1, <1>2, <1>3
    <2>2. QED
      BY <1>1, <2>1, RangeIs
  <1>9. Range(q) = {q[1]} \cup Range(r)
    <2>1. Range(q) = {q[i] : i \in 1..n} /\ Range(r) = {r[i] : i \in 1..n - 1}
      BY <1>1, RangeIs DEF n
    <2>2. ASSUME NEW i \in 1..n, i # 1 PROVE i - 1 \in 1..n - 1 /\ r[i - 1] = q[i]
      BY <1>1, <1>2, <2>2
    <2>3. QED
      BY <1>1, <1>2, <2>1, <2>2
  <1>10. r # <<>> => \A s : End(s, r) = q[n]
    BY <1>1, <1>2, <1>5 DEF End
  <1>11. q[1] = q[n] <=> r = <<>>
    BY <1>1, <1>3, <1>5
  <1>12. q = <<q[1]>> \o r
    <2>1. <<q[1]>> \in Seq(Cells) /\ Len(<<q[1]>>) = 1
      BY <1>8
    <2>2. /\ <<q[1]>> \o r \in Seq(Cells)
          /\ Len(<<q[1]>> \o r) = 1 + (n - 1)
          /\ \A i \in 1..1 + (n - 1) :
               (<<q[1]>> \o r)[i] = IF i <= 1 THEN <<q[1]>>[i] ELSE r[i - 1]
      BY <1>1, <2>1, ConcatProperties
    <2>3. 1 + (n - 1) = n
      BY <1>1
    <2>4. ASSUME NEW i \in 1..n PROVE (<<q[1]>> \o r)[i] = q[i]
      <3>1. CASE i = 1
        BY <1>1, <2>2, <2>3, <3>1
      <3>2. CASE i # 1
        <4>1. i - 1 \in 1..n - 1 /\ ~(i <= 1) /\ (i - 1) + 1 = i
          BY <1>1, <3>2
        <4>2. QED
          BY <1>2, <2>2, <2>3, <4>1
      <3>3. QED
        BY <3>1, <3>2
    <2>5. QED
      BY <2>2, <2>3, <2>4, SeqEqual DEF n
  <1>13. QED
    BY <1>1, <1>6, <1>7, <1>8, <1>9, <1>10, <1>11, <1>12 DEF r, n

\* The last cell of q, if there is one, now leads to c.
Extends(succ, next, q, c) ==
  next[c] = Nil /\ \A d \in Range(q) : next[d] = IF d = q[Len(q)] THEN c ELSE succ[d]

\* r is the chain q and the cell c behind it.
Longer(next, q, c, r) ==
  /\ r \in Seq(Cells) /\ r # <<>>
  /\ Chained(next, r)
  /\ Range(r) = Range(q) \cup {c}
  /\ q = <<>> => First(r) = c
  /\ q # <<>> => First(r) = First(q)
  /\ \A s : End(s, r) = c

\* A cell at the end of a chain.
LEMMA ChainGrows ==
  ASSUME NEW q \in Seq(Cells), NEW succ, NEW next, Chained(succ, q),
         NEW c \in Cells, c \notin Range(q), Extends(succ, next, q, c),
         NEW r, r = Append(q, c)
  PROVE  Longer(next, q, c, r)
  <1> USE DEF Extends
  <1> DEFINE n == Len(q)
  <1>1. n \in Nat /\ r \in Seq(Cells) /\ Len(r) = n + 1 /\ r[n + 1] = c
    OBVIOUS
  <1>2. \A i \in 1..n : r[i] = q[i]
    OBVIOUS
  <1>3. \A i \in 1..n : q[i] # c /\ q[i] \in Range(q)
    BY RangeIs
  <1>4. \A i, j \in 1..n : q[i] = q[j] => i = j
    BY DEF Chained, Distinct
  <1>5. \A i \in 1..n : succ[q[i]] = IF i < n THEN q[i + 1] ELSE Nil
    BY DEF Chained
  <1>6. q = <<>> <=> n = 0
    BY <1>1
  <1> HIDE DEF n
  <1>7. Distinct(r)
    BY <1>1, <1>2, <1>3, <1>4 DEF Distinct
  <1>8. ASSUME NEW i \in 1..n + 1
        PROVE  next[r[i]] = IF i < n + 1 THEN r[i + 1] ELSE Nil
    <2>1. CASE i < n
      <3>1. i \in 1..n /\ n \in 1..n /\ i # n /\ i + 1 \in 1..n
        BY <1>1, <2>1
      <3>2. next[q[i]] = succ[q[i]]
        BY <1>3, <1>4, <3>1 DEF n
      <3>3. QED
        BY <1>1, <1>2, <1>5, <2>1, <3>1, <3>2
    <2>2. CASE i = n
      <3>1. n \in 1..n
        BY <2>2, <1>1
      <3>2. next[q[n]] = c
        BY <1>3, <3>1 DEF n
      <3>3. QED
        BY <1>1, <1>2, <2>2, <3>1, <3>2
    <2>3. CASE i = n + 1
      BY <1>1, <2>3
    <2>4. QED
      BY <1>1, <2>1, <2>2, <2>3
  <1>9. Chained(next, r)
    BY <1>1, <1>7, <1>8 DEF Chained
  <1>10. Range(r) = Range(q) \cup {c}
    <2>1. Range(q) = {q[i] : i \in 1..n} /\ Range(r) = {r[i] : i \in 1..n + 1}
      BY <1>1, RangeIs DEF n
    <2>2. \A i \in 1..n + 1 : i \in 1..n \/ i = n + 1
      BY <1>1
    <2>3. n + 1 \in 1..n + 1 /\ \A i \in 1..n : i \in 1..n + 1
      BY <1>1
    <2>4. QED
      BY <1>1, <1>2, <2>1, <2>2, <2>3
  <1>11. (q = <<>> => First(r) = c) /\ (q # <<>> => First(r) = First(q))
    BY <1>1, <1>2, <1>6 DEF First
  <1>12. \A s : End(s, r) = c
    BY <1>1 DEF End
  <1>13. r # <<>>
    BY <1>1
  <1>14. QED
    BY <1>1, <1>9, <1>10, <1>11, <1>12, <1>13 DEF Longer

-----------------------------------------------------------------------------
(* Removing a cell from a sequence of cells.                               *)

FirstAt(q, x, i) == i \in 1..Len(q) /\ q[i] = x /\ \A j \in 1..i - 1 : q[j] # x

\* The position of a cell that occurs.
LEMMA FirstAtExists ==
  ASSUME NEW q \in Seq(Cells), NEW x \in Range(q)
  PROVE  \E i \in 1..Len(q) : FirstAt(q, x, i)
  <1> DEFINE I == {i \in 1..Len(q) : q[i] = x}
  <1>1. I \in SUBSET Nat /\ I # {}
    BY RangeIs
  <1>2. PICK i \in I : \A j \in I : i <= j
    BY <1>1, SmallestIn
  <1>3. i \in 1..Len(q) /\ Len(q) \in Nat /\ q[i] = x
    OBVIOUS
  <1>4. ASSUME NEW j \in 1..i - 1 PROVE q[j] # x
    <2>1. j \in 1..Len(q) /\ ~(i <= j)
      BY <1>3
    <2>2. QED
      BY <1>2, <2>1
  <1>5. QED
    BY <1>3, <1>4 DEF FirstAt

\* r is q without its element at i.
WithoutAt(q, i, r) ==
  /\ r \in Seq(Cells) /\ Len(r) = Len(q) - 1
  /\ \A k \in 1..Len(q) - 1 : r[k] = IF k < i THEN q[k] ELSE q[k + 1]

LEMMA RemoveFirstIs ==
  ASSUME NEW q \in Seq(Cells), NEW x, NEW i \in 1..Len(q), FirstAt(q, x, i)
  PROVE  WithoutAt(q, i, RemoveFirst(q, x))
  <1> DEFINE I == {k \in 1..Len(q) : q[k] = x}
             n == Len(q)
             p == SubSeq(q, 1, i - 1)
             s == SubSeq(q, i + 1, n)
  <1>1. n \in Nat /\ i \in 1..n /\ i \in Int /\ n \in Int /\ \A k \in 1..n : q[k] \in Cells
    OBVIOUS
  <1>2. i \in I /\ \A k \in I : i <= k
    <2>1. i \in I
      BY DEF FirstAt
    <2>2. ASSUME NEW k \in I, ~(i <= k) PROVE FALSE
      <3>1. k \in 1..i - 1 /\ q[k] = x
        BY <1>1, <2>2
      <3>2. QED
        BY <3>1 DEF FirstAt
    <2>3. QED
      BY <2>1, <2>2
  <1>3. SelectInSeq(q, LAMBDA v : v = x) = i
    <2>1. SelectInSeq(q, LAMBDA v : v = x) = IF I # {} THEN Min(I) ELSE 0
      BY DEF SelectInSeq
    <2>2. I \subseteq Int
      BY <1>1
    <2> HIDE DEF I
    <2>3. ASSUME NEW y \in I, \A k \in I : y <= k PROVE y = i
      <3>1. y <= i /\ i <= y /\ y \in Int
        BY <1>2, <2>2, <2>3
      <3>2. QED
        BY <1>1, <3>1
    <2>4. Min(I) = i
      BY <1>2, <2>3 DEF Min
    <2>5. QED
      BY <1>2, <2>1, <2>4
  <1>4. RemoveFirst(q, x) = p \o s
    <2>1. \E k \in 1..n : q[k] = x
      BY <1>1 DEF FirstAt
    <2>2. RemoveFirst(q, x) = RemoveAt(q, SelectInSeq(q, LAMBDA v : v = x))
      BY <2>1 DEF RemoveFirst
    <2>3. RemoveFirst(q, x) = RemoveAt(q, i)
      BY <1>3, <2>2
    <2>4. QED
      BY <2>3 DEF RemoveAt
  <1> HIDE DEF n
  <1>5. /\ p \in Seq(Cells) /\ Len(p) = i - 1
        /\ \A k \in 1..i - 1 : p[k] = q[k]
    <2>1. 1 \in Int /\ i - 1 \in Int /\ \A k \in 1..i - 1 : q[k] \in Cells
      BY <1>1
    <2>2. /\ p \in Seq(Cells)
          /\ Len(p) = IF 1 <= i - 1 THEN i - 1 - 1 + 1 ELSE 0
          /\ \A k \in 1..i - 1 - 1 + 1 : p[k] = q[1 + k - 1]
      BY <2>1, SubSeqProperties
    <2> HIDE DEF p
    <2>3. QED
      BY <1>1, <2>2
  <1>6. /\ s \in Seq(Cells) /\ Len(s) = n - i
        /\ \A k \in 1..n - i : s[k] = q[i + k]
    <2>1. i + 1 \in Int /\ n \in Int /\ \A k \in i + 1..n : q[k] \in Cells
      BY <1>1
    <2>2. /\ s \in Seq(Cells)
          /\ Len(s) = IF i + 1 <= n THEN n - (i + 1) + 1 ELSE 0
          /\ \A k \in 1..n - (i + 1) + 1 : s[k] = q[i + 1 + k - 1]
      BY <2>1, SubSeqProperties
    <2> HIDE DEF s
    <2>3. QED
      BY <1>1, <2>2
  <1> HIDE DEF p, s
  <1>7. /\ p \o s \in Seq(Cells) /\ Len(p \o s) = Len(p) + Len(s)
        /\ \A k \in 1..Len(p) + Len(s) :
             (p \o s)[k] = IF k <= Len(p) THEN p[k] ELSE s[k - Len(p)]
    BY <1>5, <1>6, ConcatProperties
  <1>8. Len(p) + Len(s) = n - 1
    BY <1>1, <1>5, <1>6
  <1>9. ASSUME NEW k \in 1..n - 1
        PROVE  (p \o s)[k] = IF k < i THEN q[k] ELSE q[k + 1]
    <2>1. CASE k < i
      <3>1. k <= Len(p) /\ k \in 1..i - 1
        BY <1>1, <1>5, <2>1
      <3>2. QED
        BY <1>5, <1>7, <1>8, <2>1, <3>1
    <2>2. CASE ~(k < i)
      <3>1. ~(k <= Len(p)) /\ k - Len(p) \in 1..n - i /\ i + (k - Len(p)) = k + 1
        BY <1>1, <1>5, <2>2
      <3>2. QED
        BY <1>6, <1>7, <1>8, <2>2, <3>1
    <2>3. QED
      BY <2>1, <2>2
  <1>10. QED
    BY <1>4, <1>7, <1>8, <1>9 DEF WithoutAt, n

LEMMA RemoveAbsent ==
  ASSUME NEW q \in Seq(Cells), NEW x, x \notin Range(q)
  PROVE  RemoveFirst(q, x) = q
  BY RangeIs DEF RemoveFirst

LEMMA RemoveFromNone == \A x : RemoveFirst(<<>>, x) = <<>>
  BY DEF RemoveFirst

LEMMA RemoveType ==
  ASSUME NEW q \in Seq(Cells), NEW x PROVE RemoveFirst(q, x) \in Seq(Cells)
  <1>1. CASE x \in Range(q)
    <2>1. PICK i \in 1..Len(q) : FirstAt(q, x, i)
      BY <1>1, FirstAtExists
    <2>2. QED
      BY <2>1, RemoveFirstIs DEF WithoutAt
  <1>2. CASE x \notin Range(q)
    BY <1>2, RemoveAbsent
  <1>3. QED
    BY <1>1, <1>2

LEMMA RemoveKeeps ==
  ASSUME NEW q \in Seq(Cells), NEW x
  PROVE  Range(RemoveFirst(q, x)) \subseteq Range(q)
  <1>1. CASE x \in Range(q)
    <2>1. PICK i \in 1..Len(q) : FirstAt(q, x, i)
      BY <1>1, FirstAtExists
    <2> DEFINE r == RemoveFirst(q, x)
    <2>2. WithoutAt(q, i, r)
      BY <2>1, RemoveFirstIs
    <2> HIDE DEF r
    <2>3. ASSUME NEW k \in 1..Len(q) - 1 PROVE r[k] \in Range(q)
      <3>1. k \in 1..Len(q) /\ k + 1 \in 1..Len(q)
        OBVIOUS
      <3>2. q[k] \in Range(q) /\ q[k + 1] \in Range(q)
        BY <3>1, RangeIs
      <3>3. QED
        BY <2>2, <3>2 DEF WithoutAt
    <2>4. Range(r) = {r[k] : k \in 1..Len(q) - 1}
      BY <2>2, RangeIs DEF WithoutAt
    <2>5. QED
      BY <2>3, <2>4 DEF r
  <1>2. CASE x \notin Range(q)
    BY <1>2, RemoveAbsent
  <1>3. QED
    BY <1>1, <1>2

LEMMA RemovedIsGone ==
  ASSUME NEW q \in Seq(Cells), NEW x, Distinct(q)
  PROVE  x \notin Range(RemoveFirst(q, x))
  <1>1. CASE x \in Range(q)
    <2>1. PICK i \in 1..Len(q) : FirstAt(q, x, i)
      BY <1>1, FirstAtExists
    <2> DEFINE r == RemoveFirst(q, x)
    <2>2. WithoutAt(q, i, r)
      BY <2>1, RemoveFirstIs
    <2> HIDE DEF r
    <2>3. ASSUME NEW k \in 1..Len(q) - 1 PROVE r[k] # x
      <3>1. k \in 1..Len(q) /\ k + 1 \in 1..Len(q) /\ i \in 1..Len(q)
        OBVIOUS
      <3>2. q[i] = x /\ \A j \in 1..Len(q) : j # i => q[j] # x
        BY <2>1, <3>1 DEF FirstAt, Distinct
      <3>3. (k < i => k # i) /\ (~(k < i) => k + 1 # i)
        BY <3>1
      <3>4. QED
        BY <2>2, <3>1, <3>2, <3>3 DEF WithoutAt
    <2>4. Range(r) = {r[k] : k \in 1..Len(q) - 1}
      BY <2>2, RangeIs DEF WithoutAt
    <2>5. QED
      BY <2>3, <2>4 DEF r
  <1>2. CASE x \notin Range(q)
    BY <1>2, RemoveAbsent
  <1>3. QED
    BY <1>1, <1>2

\* Two sequences without the same element.
LEMMA WithoutSame ==
  ASSUME NEW q \in Seq(Cells), q # <<>>, NEW i, NEW r, NEW s,
         WithoutAt(q, i, r), WithoutAt(q, i, s)
  PROVE  r = s
  <1>1. \A k \in 1..Len(r) : r[k] = s[k]
    BY DEF WithoutAt
  <1>2. QED
    BY <1>1, SeqEqual DEF WithoutAt

\* The element is behind p.
LEMMA RemoveBehind ==
  ASSUME NEW p \in Seq(Cells), NEW q \in Seq(Cells), NEW x, x \notin Range(p)
  PROVE  RemoveFirst(p \o q, x) = p \o RemoveFirst(q, x)
  <1> DEFINE w == p \o q
             m == Len(p)
             n == Len(q)
  <1>1. m \in Nat /\ n \in Nat
    OBVIOUS
  <1>2. /\ w \in Seq(Cells) /\ Len(w) = m + n
        /\ \A k \in 1..m + n : w[k] = IF k <= m THEN p[k] ELSE q[k - m]
    BY ConcatProperties
  <1>3. \A k \in 1..m : p[k] # x
    BY RangeIs
  <1> HIDE DEF w, m, n
  <1>4. CASE x \in Range(q)
    <2>1. PICK i \in 1..n : FirstAt(q, x, i)
      BY <1>4, FirstAtExists DEF n
    <2>2. /\ m + i \in 1..m + n /\ ~(m + i <= m) /\ (m + i) - m = i
          /\ \A j \in 1..(m + i) - 1 : j \in 1..m + n
      BY <1>1
    <2>3. FirstAt(w, x, m + i)
      <3>1. w[m + i] = x
        BY <1>2, <2>1, <2>2 DEF FirstAt
      <3>2. ASSUME NEW j \in 1..(m + i) - 1 PROVE w[j] # x
        <4>1. CASE j <= m
          BY <1>1, <1>2, <1>3, <2>2, <4>1
        <4>2. CASE ~(j <= m)
          <5>1. j - m \in 1..i - 1
            BY <1>1, <4>2
          <5>2. QED
            BY <1>2, <2>1, <2>2, <4>2, <5>1 DEF FirstAt
        <4>3. QED
          BY <4>1, <4>2
      <3>3. QED
        BY <1>2, <2>2, <3>1, <3>2 DEF FirstAt
    <2>4. WithoutAt(w, m + i, RemoveFirst(w, x))
      BY <1>2, <2>2, <2>3, RemoveFirstIs
    <2> DEFINE r == RemoveFirst(q, x)
    <2>5. WithoutAt(q, i, r)
      BY <2>1, RemoveFirstIs DEF n
    <2>6. r \in Seq(Cells) /\ Len(r) = n - 1
          /\ \A k \in 1..n - 1 : r[k] = IF k < i THEN q[k] ELSE q[k + 1]
      BY <2>5 DEF WithoutAt, n
    <2> HIDE DEF r
    <2>7. /\ p \o r \in Seq(Cells) /\ Len(p \o r) = m + (n - 1)
          /\ \A k \in 1..m + (n - 1) : (p \o r)[k] = IF k <= m THEN p[k] ELSE r[k - m]
      <3>1. /\ p \o r \in Seq(Cells) /\ Len(p \o r) = Len(p) + Len(r)
            /\ \A k \in 1..Len(p) + Len(r) :
                 (p \o r)[k] = IF k <= Len(p) THEN p[k] ELSE r[k - Len(p)]
        BY <2>6, ConcatProperties
      <3>2. Len(p) = m /\ Len(r) = n - 1
        BY <2>6 DEF m
      <3>3. QED
        BY <3>1, <3>2
    <2>8. WithoutAt(w, m + i, p \o r)
      <3>1. Len(w) - 1 = m + (n - 1)
        BY <1>1, <1>2
      <3>2. ASSUME NEW k \in 1..m + (n - 1)
            PROVE  (p \o r)[k] = IF k < m + i THEN w[k] ELSE w[k + 1]
        <4>1. k \in 1..m + n /\ k + 1 \in 1..m + n
          BY <1>1
        <4>2. CASE k <= m
          <5>1. k < m + i
            BY <1>1, <4>2
          <5>2. QED
            BY <1>2, <2>7, <4>1, <4>2, <5>1
        <4>3. CASE ~(k <= m)
          <5>1. /\ k - m \in 1..n - 1 /\ ~(k + 1 <= m) /\ (k + 1) - m = (k - m) + 1
                /\ k - m < i <=> k < m + i
            BY <1>1, <4>3
          <5>2. (p \o r)[k] = IF k < m + i THEN q[k - m] ELSE q[(k - m) + 1]
            BY <2>6, <2>7, <4>3, <5>1
          <5>3. w[k] = q[k - m] /\ w[k + 1] = q[(k - m) + 1]
            BY <1>2, <4>1, <4>3, <5>1
          <5>4. QED
            BY <5>2, <5>3
        <4>4. QED
          BY <4>2, <4>3
      <3>3. QED
        BY <2>7, <3>1, <3>2 DEF WithoutAt
    <2>9. w # <<>>
      BY <1>1, <1>2, <2>1
    <2>10. RemoveFirst(w, x) = p \o r
      BY <1>2, <2>4, <2>8, <2>9, WithoutSame
    <2>11. QED
      BY <2>10 DEF w, r
  <1>5. CASE x \notin Range(q)
    <2>1. ASSUME NEW k \in 1..m + n PROVE w[k] # x
      <3>1. CASE k <= m
        BY <1>1, <1>2, <1>3, <3>1
      <3>2. CASE ~(k <= m)
        <4>1. k - m \in 1..n
          BY <1>1, <3>2
        <4>2. q[k - m] # x
          BY <1>5, <4>1, RangeIs DEF n
        <4>3. QED
          BY <1>2, <3>2, <4>2
      <3>3. QED
        BY <3>1, <3>2
    <2>2. x \notin Range(w)
      BY <1>2, <2>1, RangeIs
    <2>3. RemoveFirst(w, x) = w /\ RemoveFirst(q, x) = q
      BY <1>2, <1>5, <2>2, RemoveAbsent
    <2>4. QED
      BY <2>3 DEF w
  <1>6. QED
    BY <1>4, <1>5

\* The element is the first one.
LEMMA RemoveHead ==
  ASSUME NEW q \in Seq(Cells), q # <<>>
  PROVE  RemoveFirst(q, q[1]) = Tail(q)
  <1>1. Len(q) \in Nat \ {0} /\ 1 \in 1..Len(q) /\ \A k \in 1..Len(q) - 1 : ~(k < 1)
    OBVIOUS
  <1>2. FirstAt(q, q[1], 1)
    BY <1>1 DEF FirstAt
  <1>3. WithoutAt(q, 1, RemoveFirst(q, q[1]))
    BY <1>1, <1>2, RemoveFirstIs
  <1>4. WithoutAt(q, 1, Tail(q))
    BY <1>1, HeadTailProperties DEF WithoutAt
  <1>5. QED
    BY <1>3, <1>4, WithoutSame

LEMMA ConcatRange ==
  ASSUME NEW p \in Seq(Cells), NEW q \in Seq(Cells)
  PROVE  p \o q \in Seq(Cells) /\ Range(p \o q) = Range(p) \cup Range(q)
  <1> DEFINE w == p \o q
             m == Len(p)
             n == Len(q)
  <1>1. m \in Nat /\ n \in Nat
    OBVIOUS
  <1>2. /\ w \in Seq(Cells) /\ Len(w) = m + n
        /\ \A k \in 1..m + n : w[k] = IF k <= m THEN p[k] ELSE q[k - m]
    BY ConcatProperties
  <1>3. Range(p) = {p[k] : k \in 1..m} /\ Range(q) = {q[k] : k \in 1..n}
    BY RangeIs
  <1> HIDE DEF w, m, n
  <1>4. Range(w) = {w[k] : k \in 1..m + n}
    BY <1>2, RangeIs
  <1>5. \A k \in 1..m : k \in 1..m + n /\ w[k] = p[k]
    BY <1>1, <1>2
  <1>6. \A k \in 1..n : m + k \in 1..m + n /\ w[m + k] = q[k]
    BY <1>1, <1>2
  <1>7. \A k \in 1..m + n : k \in 1..m \/ (k - m \in 1..n /\ w[k] = q[k - m])
    BY <1>1, <1>2
  <1>8. Range(w) = Range(p) \cup Range(q)
    BY <1>3, <1>4, <1>5, <1>6, <1>7
  <1>9. QED
    BY <1>2, <1>8 DEF w

\* A cell at the end, and the first cell, of a sequence in two parts.
LEMMA ConcatAppend ==
  ASSUME NEW p \in Seq(Cells), NEW q \in Seq(Cells), NEW c \in Cells
  PROVE  p \o Append(q, c) = Append(p \o q, c) /\ Append(p, c) = p \o <<c>>
  <1>1. <<c>> \in Seq(Cells) /\ p \o q \in Seq(Cells)
    BY ConcatProperties
  <1>2. \A s \in Seq(Cells) : Append(s, c) = s \o <<c>>
    BY AppendIsConcat
  <1>3. QED
    BY <1>1, <1>2, ConcatAssociative

LEMMA ConcatHead ==
  ASSUME NEW p \in Seq(Cells), p # <<>>, NEW q \in Seq(Cells)
  PROVE  p \o q # <<>> /\ Head(p \o q) = p[1] /\ Tail(p \o q) = Tail(p) \o q
  <1>1. /\ <<p[1]>> \in Seq(Cells) /\ Tail(p) \in Seq(Cells) /\ p[1] \in Cells
        /\ Len(p) \in Nat \ {0} /\ Len(q) \in Nat
    OBVIOUS
  <1>2. /\ p \o q \in Seq(Cells) /\ Len(p \o q) = Len(p) + Len(q)
        /\ \A k \in 1..Len(p) + Len(q) : (p \o q)[k] = IF k <= Len(p) THEN p[k] ELSE q[k - Len(p)]
    BY ConcatProperties
  <1>3. 1 \in 1..Len(p) + Len(q) /\ 1 <= Len(p)
    BY <1>1
  <1>4. p \o q # <<>> /\ (p \o q)[1] = p[1]
    <2>1. (p \o q)[1] = p[1]
      BY <1>2, <1>3
    <2>2. Len(p \o q) # 0
      BY <1>1, <1>2
    <2>3. QED
      BY <2>1, <2>2
  <1> DEFINE w == p \o q
             v == Tail(p) \o q
  <1>5. /\ v \in Seq(Cells) /\ Len(v) = Len(Tail(p)) + Len(q)
        /\ \A k \in 1..Len(Tail(p)) + Len(q) :
             v[k] = IF k <= Len(Tail(p)) THEN Tail(p)[k] ELSE q[k - Len(Tail(p))]
    BY <1>1, ConcatProperties
  <1>6. /\ Len(Tail(p)) = Len(p) - 1
        /\ \A k \in 1..Len(p) - 1 : Tail(p)[k] = p[k + 1]
    BY <1>1, HeadTailProperties
  <1>7. w \in Seq(Cells) /\ w # <<>> /\ Len(w) = Len(p) + Len(q)
    BY <1>2, <1>4
  <1>8. /\ Tail(w) \in Seq(Cells) /\ Len(Tail(w)) = Len(w) - 1
        /\ \A k \in 1..Len(w) - 1 : Tail(w)[k] = w[k + 1]
    BY <1>7, HeadTailProperties
  <1> HIDE DEF w, v
  <1>9. ASSUME NEW k \in 1..Len(w) - 1 PROVE Tail(w)[k] = v[k]
    <2>1. /\ k \in 1..Len(Tail(p)) + Len(q) /\ k + 1 \in 1..Len(p) + Len(q)
          /\ k <= Len(Tail(p)) <=> k + 1 <= Len(p)
          /\ k - Len(Tail(p)) = (k + 1) - Len(p)
          /\ k <= Len(Tail(p)) => k \in 1..Len(p) - 1
      BY <1>1, <1>6, <1>7
    <2>2. w[k + 1] = IF k + 1 <= Len(p) THEN p[k + 1] ELSE q[(k + 1) - Len(p)]
      BY <1>2, <2>1 DEF w
    <2>3. CASE k + 1 <= Len(p)
      BY <1>5, <1>6, <1>8, <2>1, <2>2, <2>3
    <2>4. CASE ~(k + 1 <= Len(p))
      BY <1>5, <1>8, <2>1, <2>2, <2>4
    <2>5. QED
      BY <2>3, <2>4
  <1>10. Len(Tail(w)) = Len(v)
    BY <1>1, <1>5, <1>6, <1>7, <1>8
  <1>11. Tail(w) = v
    BY <1>5, <1>8, <1>9, <1>10, SeqEqual
  <1>12. QED
    BY <1>4, <1>11 DEF w, v

\* The element is not the first one.
LEMMA RemoveFromTail ==
  ASSUME NEW q \in Seq(Cells), q # <<>>, NEW x, x # q[1], q = <<q[1]>> \o Tail(q)
  PROVE  RemoveFirst(q, x) = <<q[1]>> \o RemoveFirst(Tail(q), x)
  <1>1. <<q[1]>> \in Seq(Cells) /\ Tail(q) \in Seq(Cells) /\ Len(<<q[1]>>) = 1 /\ <<q[1]>>[1] = q[1]
    OBVIOUS
  <1>2. x \notin Range(<<q[1]>>)
    <2>1. \A k \in 1..1 : k = 1
      OBVIOUS
    <2>2. Range(<<q[1]>>) = {<<q[1]>>[k] : k \in 1..1}
      BY <1>1, RangeIs
    <2>3. QED
      BY <1>1, <2>1, <2>2
  <1>3. RemoveFirst(<<q[1]>> \o Tail(q), x) = <<q[1]>> \o RemoveFirst(Tail(q), x)
    BY <1>1, <1>2, RemoveBehind
  <1>4. QED
    BY <1>3

-----------------------------------------------------------------------------
(* What the memory and the additions under way say about the next cell.    *)

Additions == [step : {"none", "swap", "store", "link"},
              cell : Cells \cup {Nil}, old : Slots \cup {Nil}]

SuccIn(m, a) ==
  [s \in Slots |->
    IF m[s] \in Cells THEN m[s]
    ELSE LET linking == {t \in Threads : a[t].step = "link" /\ a[t].old = s}
         IN  IF linking = {} THEN Nil ELSE a[CHOOSE t \in linking : TRUE].cell]

LEMMA SuccIsSuccIn == Succ = SuccIn(mem, adding)
  BY DEF Succ, SuccIn

\* Additions that are about to link a cell do so at different slots, where there
\* is no cell yet.
OneLinkEach(m, a) ==
  /\ \A t \in Threads : a[t].step = "link" =>
       a[t].cell \in Cells /\ a[t].old \in Slots /\ m[a[t].old] \notin Cells
  /\ \A t, u \in Threads :
       a[t].step = "link" /\ a[u].step = "link" /\ a[t].old = a[u].old => t = u

NoLinkAt(a, s) == \A t \in Threads : a[t].step = "link" => a[t].old # s

LEMMA SuccIs ==
  ASSUME NEW m \in [Slots -> Cells \cup {Nil, Sentinel}], NEW a, OneLinkEach(m, a)
  PROVE  /\ SuccIn(m, a) \in [Slots -> Cells \cup {Nil}]
         /\ \A s \in Slots : m[s] \in Cells => SuccIn(m, a)[s] = m[s]
         /\ \A t \in Threads : a[t].step = "link" => SuccIn(m, a)[a[t].old] = a[t].cell
         /\ \A s \in Slots : m[s] \notin Cells /\ NoLinkAt(a, s) => SuccIn(m, a)[s] = Nil
         /\ \A s \in Slots : SuccIn(m, a)[s] = Nil <=> m[s] \notin Cells /\ NoLinkAt(a, s)
  <1> DEFINE linking(s) == {t \in Threads : a[t].step = "link" /\ a[t].old = s}
  <1>1. \A s \in Slots : SuccIn(m, a)[s] =
          IF m[s] \in Cells THEN m[s]
          ELSE IF linking(s) = {} THEN Nil ELSE a[CHOOSE t \in linking(s) : TRUE].cell
    BY DEF SuccIn
  <1>2. \A s \in Slots : m[s] \in Cells => SuccIn(m, a)[s] = m[s]
    BY <1>1
  <1>3. ASSUME NEW t \in Threads, a[t].step = "link"
        PROVE  SuccIn(m, a)[a[t].old] = a[t].cell
    <2>1. linking(a[t].old) = {t}
      BY <1>3 DEF OneLinkEach
    <2>2. (CHOOSE u \in linking(a[t].old) : TRUE) = t /\ linking(a[t].old) # {}
      BY <2>1
    <2>3. a[t].old \in Slots /\ m[a[t].old] \notin Cells
      BY <1>3 DEF OneLinkEach
    <2> HIDE DEF linking
    <2>4. QED
      BY <1>1, <2>2, <2>3
  <1>4. ASSUME NEW s \in Slots, m[s] \notin Cells, NoLinkAt(a, s)
        PROVE  SuccIn(m, a)[s] = Nil
    <2>1. linking(s) = {}
      BY <1>4 DEF NoLinkAt
    <2> HIDE DEF linking
    <2>2. QED
      BY <1>1, <1>4, <2>1
  <1>5. \A c \in Cells : c # Nil
    BY DelayedQueueAssumption DEF Slots
  <1>6. \A s \in Slots : SuccIn(m, a)[s] = Nil => m[s] \notin Cells /\ NoLinkAt(a, s)
    BY <1>2, <1>3, <1>5 DEF NoLinkAt, OneLinkEach
  <1>7. \A s \in Slots : SuccIn(m, a)[s] \in Cells \cup {Nil}
    <2> TAKE s \in Slots
    <2>1. CASE m[s] \in Cells
      BY <1>2, <2>1
    <2>2. CASE NoLinkAt(a, s) /\ m[s] \notin Cells
      BY <1>4, <2>2
    <2>3. CASE ~NoLinkAt(a, s)
      BY <1>3, <2>3 DEF NoLinkAt, OneLinkEach
    <2>4. QED
      BY <2>1, <2>2, <2>3
  <1>8. SuccIn(m, a) \in [Slots -> Cells \cup {Nil}]
    <2>1. SuccIn(m, a) = [s \in Slots |-> SuccIn(m, a)[s]]
      BY DEF SuccIn
    <2>2. QED
      BY <1>7, <2>1
  <1>9. QED
    BY <1>2, <1>3, <1>4, <1>6, <1>8

\* The additions that are about to link a cell at a slot are the same.
SameLinks(a, b, s) ==
  \A t \in Threads :
    /\ (a[t].step = "link" /\ a[t].old = s) <=> (b[t].step = "link" /\ b[t].old = s)
    /\ a[t].step = "link" /\ a[t].old = s => b[t].cell = a[t].cell

\* Two states of the memory and the additions in which a slot leads to the same
\* cell.
LEMMA SameSucc ==
  ASSUME NEW m \in [Slots -> Cells \cup {Nil, Sentinel}], NEW a, OneLinkEach(m, a),
         NEW n \in [Slots -> Cells \cup {Nil, Sentinel}], NEW b, OneLinkEach(n, b),
         NEW s \in Slots, n[s] = m[s], SameLinks(a, b, s)
  PROVE  SuccIn(n, b)[s] = SuccIn(m, a)[s]
  <1>1. CASE m[s] \in Cells
    BY <1>1, SuccIs
  <1>2. CASE m[s] \notin Cells
    <2>1. CASE NoLinkAt(a, s)
      <3>1. NoLinkAt(b, s)
        BY <1>2, <2>1 DEF NoLinkAt, SameLinks
      <3>2. QED
        BY <1>2, <2>1, <3>1, SuccIs
    <2>2. CASE ~NoLinkAt(a, s)
      <3>1. PICK t \in Threads : a[t].step = "link" /\ a[t].old = s
        BY <2>2 DEF NoLinkAt
      <3>2. SuccIn(m, a)[s] = a[t].cell
        BY <3>1, SuccIs
      <3>3. b[t].step = "link" /\ b[t].old = s /\ b[t].cell = a[t].cell
        BY <3>1 DEF SameLinks
      <3>4. SuccIn(n, b)[s] = b[t].cell
        BY <3>3, SuccIs
      <3>5. QED
        BY <3>2, <3>3, <3>4
    <2>3. QED
      BY <2>1, <2>2
  <1>3. QED
    BY <1>1, <1>2

LEMMA SameSlot ==
  ASSUME mem \in [Slots -> Cells \cup {Nil, Sentinel}], OneLinkEach(mem, adding),
         mem' \in [Slots -> Cells \cup {Nil, Sentinel}], OneLinkEach(mem', adding'),
         NEW s \in Slots, mem'[s] = mem[s], SameLinks(adding, adding', s)
  PROVE  Succ'[s] = Succ[s]
  <1>1. SuccIn(mem', adding')[s] = SuccIn(mem, adding)[s]
    BY SameSucc
  <1>2. QED
    BY <1>1 DEF Succ, SuccIn

-----------------------------------------------------------------------------
(* The invariant.  O is the rest of the list that processDelayed has       *)
(* checked out, Q the list behind the ready head and R the rest of the     *)
(* list that removeDelayedCallback has checked out.                        *)

\* The builds in which nobody interrupts an exchange: one context, or an atomic
\* exchange.  A removal adds callbacks again, behind those of other contexts.
SerialBuilds == {b \in Build : b.producers = {} \/ (b.atomic /\ ~b.removals)}

\* A list is checked out, but the tail, or also last, is not yet written.
Switching == step \in {"storeHead", "swapOldTail", "storeOldTail"}
LastUnset == step \in {"storeHead", "swapOldTail"}

ChainInv(O, Q, R) ==
  /\ Chained(Succ, O) /\ Chained(Succ, Q) /\ Chained(Succ, R)
  /\ Range(O) \cap Range(Q) = {}
  /\ Range(O) \cap Range(R) = {}
  /\ Range(Q) \cap Range(R) = {}
  /\ cur["process"] = First(O)
  /\ cur["remove"] = First(R)
  /\ Succ[ReadyHead] = First(Q)

TailInv(O, Q, R) ==
  /\ ~Switching => tail = End(ReadyHead, Q)
  /\ Switching => Q = <<>>
  /\ Switching /\ op = "process" => O # <<>> /\ tail = End(Nil, O)
  /\ Switching /\ op = "remove" => R # <<>> /\ tail = End(Nil, R)

LastInv(O, R) ==
  /\ O # <<>> /\ ~(op = "process" /\ LastUnset) => last["process"] = End(Nil, O)
  /\ R # <<>> /\ ~(op = "remove" /\ LastUnset) => last["remove"] = End(Nil, R)

HeadInv ==
  /\ \A c \in Cells : mem[c] # Sentinel
  /\ step = "drain" => (mem[H1] = Sentinel <=> mem[H2] # Sentinel)
  /\ step = "open" => mem[active] \in Cells /\ mem[Other(active)] = Sentinel
  /\ step \in {"swapHead", "storeHead"} => mem[active] \in Cells /\ mem[Other(active)] = Nil
  /\ step \in {"swapOldTail", "storeOldTail"} =>
       mem[active] = Sentinel /\ mem[Other(active)] = Nil

\* An addition under way, of a cell that is in no list until its exchange of the
\* tail.
AdderInv(listed) ==
  /\ \A t \in Threads : adding[t].step = "none" => adding[t] = NotAdding
  /\ \A t \in Threads : adding[t].step \in {"swap", "store"} =>
       /\ adding[t].cell \in Cells \ listed
       /\ mem[adding[t].cell] = Nil
  /\ \A t \in Threads : adding[t].step = "store" => adding[t].old = tail /\ ~build.atomic
  /\ \A t \in Threads : adding[t].step = "link" =>
       /\ adding[t].cell \in Cells
       /\ adding[t].old \in {ReadyHead} \cup listed
       /\ mem[adding[t].old] = Nil
  /\ \A t, u \in Threads :
       t # u /\ adding[t].step # "none" /\ adding[u].step # "none" =>
         adding[t].cell # adding[u].cell
  /\ \A t, u \in Threads :
       adding[t].step = "link" /\ adding[u].step = "link" /\ adding[t].old = adding[u].old
         => t = u

ControlInv(O, R) ==
  /\ build \in SerialBuilds
  /\ \A t \in Threads : adding[t] # NotAdding => t \in build.producers \cup {Loop}
  /\ step \in {"storeHead", "storeOldTail"} => ~build.atomic
  /\ step \in {"open", "swapHead"} => cur[op] = Nil
  /\ step # "drain" => op \in Ops /\ LoopReady
  /\ op = "none" => running = Nil
  /\ op = "process" /\ step # "drain" => running = Nil
  /\ op # "remove" => R = <<>>
  /\ op = "remove" => build.removals /\ target \in Cells
  /\ op # "remove" => target = Nil
  /\ op = "none" \/ (op = "remove" /\ running = Nil) => O = <<>>
  /\ LoopReady \/ op # "process" \/ running # Nil

Listed(O, Q, R) == Range(O) \cup Range(Q) \cup Range(R)

Shape(O, Q, R) ==
  /\ TypeOK
  /\ ChainInv(O, Q, R)
  /\ TailInv(O, Q, R) /\ LastInv(O, R)
  /\ HeadInv
  /\ AdderInv(Listed(O, Q, R))
  /\ ControlInv(O, R)

Inv == \E O, Q, R \in Seq(Cells) : Shape(O, Q, R)

LEMMA SlotFacts ==
  /\ H1 # H2 /\ H1 \in Slots /\ H2 \in Slots /\ H1 \notin Cells /\ H2 \notin Cells
  /\ Cells \subseteq Slots /\ Nil \notin Cells /\ Sentinel \notin Cells /\ Nil # Sentinel
  /\ Nil \notin Slots /\ Sentinel \notin Slots
  /\ \A h \in Heads : Other(h) \in Heads /\ Other(h) # h /\ Other(Other(h)) = h /\ h \in Slots
                        /\ h \notin Cells
  /\ \A h \in Heads : Heads = {h, Other(h)}
  /\ Loop \in Threads
  BY DelayedQueueAssumption DEF Heads, Slots, Other, Threads

LEMMA ReadyFacts ==
  ASSUME TypeOK, HeadInv
  PROVE  /\ ReadyHead \in Heads /\ mem[ReadyHead] # Sentinel
         /\ step \in {"open", "swapHead"} => ReadyHead = active
         /\ Switching => ReadyHead = Other(active)
  <1> USE SlotFacts DEF Switching
  <1>1. active \in Heads
    BY DEF TypeOK
  <1>2. CASE step \in {"open", "swapHead"}
    BY <1>1, <1>2 DEF ReadyHead, HeadInv
  <1>3. CASE step = "storeHead"
    BY <1>1, <1>3 DEF ReadyHead, HeadInv
  <1>4. CASE step \in {"swapOldTail", "storeOldTail"}
    BY <1>1, <1>4 DEF ReadyHead, HeadInv, Other, Heads
  <1>5. CASE step = "drain"
    BY <1>5 DEF ReadyHead, HeadInv, Heads
  <1>6. QED
    BY <1>2, <1>3, <1>4, <1>5 DEF TypeOK

LEMMA ShapeSucc ==
  ASSUME NEW O \in Seq(Cells), NEW Q \in Seq(Cells), NEW R \in Seq(Cells), Shape(O, Q, R)
  PROVE  OneLinkEach(mem, adding)
  <1>1. ReadyHead \in Slots
    BY ReadyFacts, SlotFacts DEF Shape
  <1>2. Listed(O, Q, R) \subseteq Cells
    BY RangeIs DEF Listed
  <1>3. ASSUME NEW t \in Threads, adding[t].step = "link"
        PROVE  adding[t].cell \in Cells /\ adding[t].old \in Slots /\ mem[adding[t].old] \notin Cells
    BY <1>1, <1>2, <1>3, SlotFacts DEF Shape, AdderInv
  <1>4. QED
    BY <1>3 DEF Shape, AdderInv, OneLinkEach

\* The chain that a pointer leads to.
LEMMA FromIs ==
  ASSUME NEW O \in Seq(Cells), NEW succ, Chained(succ, O)
  PROVE  (IF First(O) = Nil THEN <<>> ELSE <<First(O)>> \o Path(succ, First(O))) = O
  <1>1. CASE O = <<>>
    BY <1>1, NoChain
  <1>2. CASE O # <<>>
    <2>1. First(O) = O[1] /\ O[1] # Nil
      BY <1>2, EndInRange, SlotFacts
    <2>2. Path(succ, O[1]) = Tail(O)
      <3>1. Tail(O) \in Seq(Cells) /\ Chained(succ, Tail(O)) /\ succ[O[1]] = First(Tail(O))
        BY <1>2, ChainTail
      <3>2. QED
        BY <2>1, <3>1, PathIs
    <2>3. QED
      BY <1>2, <2>1, <2>2, ChainTail
  <1>3. QED
    BY <1>1, <1>2

\* The queue that the lists and the cell in hand stand for.
ShapeGivesQueue ==
  \A O, Q, R \in Seq(Cells) : Shape(O, Q, R) =>
    /\ Linked = Listed(O, Q, R) \cup {adding[t].cell : t \in Threads}
    /\ Behind(ReadyHead) = Q
    /\ op # "remove" => Registered = O \o Q
    /\ op = "remove" => Registered = ((O \o Q) \o InHand) \o RemoveFirst(R, target)

LEMMA RegisteredIs == ShapeGivesQueue
  <1> SUFFICES ASSUME NEW O \in Seq(Cells), NEW Q \in Seq(Cells), NEW R \in Seq(Cells),
                      Shape(O, Q, R)
               PROVE  /\ Linked = Listed(O, Q, R) \cup {adding[t].cell : t \in Threads}
                      /\ Behind(ReadyHead) = Q
                      /\ op # "remove" => Registered = O \o Q
                      /\ op = "remove" =>
                           Registered = ((O \o Q) \o InHand) \o RemoveFirst(R, target)
    BY DEF ShapeGivesQueue
  <1>1. From(cur["process"]) = O
    BY FromIs DEF Shape, ChainInv, From, Behind
  <1>2. From(cur["remove"]) = R
    BY FromIs DEF Shape, ChainInv, From, Behind
  <1>3. Behind(ReadyHead) = Q
    <2>1. ReadyHead # Nil
      BY ReadyFacts, SlotFacts DEF Shape
    <2>2. QED
      BY <2>1, PathIs DEF Shape, ChainInv, Behind
  <1>4. Registered = ((O \o Q) \o InHand) \o RemoveFirst(R, target)
    <2>1. /\ O \o Q \in Seq(Cells)
          /\ O \o Q \o InHand \o RemoveFirst(R, target)
               = ((O \o Q) \o InHand) \o RemoveFirst(R, target)
      BY ConcatRange
    <2>2. QED
      BY <1>1, <1>2, <1>3, <2>1 DEF Registered
  <1>5. op # "remove" => Registered = O \o Q
    <2>1. op # "remove" => R = <<>> /\ InHand = <<>>
      BY DEF Shape, ControlInv, InHand
    <2>2. O \o Q \in Seq(Cells)
      BY ConcatRange
    <2>3. (O \o Q) \o <<>> = O \o Q
      BY <2>2, ConcatEmptySeq
    <2>4. QED
      BY <1>4, <2>1, <2>3, RemoveFromNone
  <1>6. QED
    BY <1>1, <1>2, <1>3, <1>4, <1>5 DEF Linked, Listed

LEMMA RegisteredIsNext == ShapeGivesQueue'
  BY RegisteredIs, PTL

-----------------------------------------------------------------------------
(* Facts that the actions share.                                           *)

LEMMA TypeFacts ==
  ASSUME TypeOK
  PROVE  /\ mem \in [Slots -> Cells \cup {Nil, Sentinel}]
         /\ adding \in [Threads -> Additions]
         /\ tail \in Slots /\ active \in Heads
         /\ cur \in [Ops -> Cells \cup {Nil}] /\ last \in [Ops -> Slots \cup {Nil}]
  BY DEF TypeOK, Additions

\* The ready head is the same if the heads are.
LEMMA ReadyStays ==
  ASSUME UNCHANGED <<step, active, mem[H1], mem[H2]>>
  PROVE  ReadyHead' = ReadyHead
  BY DEF ReadyHead, Other

\* The lists are the same if their pointers are.
LEMMA ChainsStay ==
  ASSUME NEW O \in Seq(Cells), NEW Q \in Seq(Cells), NEW R \in Seq(Cells),
         ChainInv(O, Q, R), UNCHANGED cur,
         \A c \in Listed(O, Q, R) : Succ'[c] = Succ[c],
         Succ[ReadyHead]' = Succ[ReadyHead]
  PROVE  ChainInv(O, Q, R)'
  <1>1. Chained(Succ', O) /\ Chained(Succ', Q) /\ Chained(Succ', R)
    BY ChainStays DEF ChainInv, Listed
  <1>2. QED
    BY <1>1 DEF ChainInv

\* A list with another cell at its end.
LEMMA ChainIsLonger ==
  ASSUME NEW q \in Seq(Cells), NEW c \in Cells, Chained(Succ, q), c \notin Range(q),
         Extends(Succ, Succ', q, c), NEW r, r = Append(q, c)
  PROVE  Longer(Succ', q, c, r)
  BY ChainGrows

\* UA_EventLoopLWIP_addDelayedCallback begins: the cell has no next cell.
LEMMA StartAddSucc ==
  ASSUME TypeOK, OneLinkEach(mem, adding), NEW t \in Threads, NEW c \in Cells,
         adding[t].step = "none", NoLinkAt(adding, c), StartAdd(t, c)
  PROVE  /\ mem' \in [Slots -> Cells \cup {Nil, Sentinel}]
         /\ mem'[c] = Nil /\ \A s \in Slots \ {c} : mem'[s] = mem[s]
         /\ adding' \in [Threads -> Additions]
         /\ adding'[t] = [step |-> "swap", cell |-> c, old |-> Nil]
         /\ \A u \in Threads \ {t} : adding'[u] = adding[u]
         /\ OneLinkEach(mem', adding')
         /\ Succ'[c] = Nil
         /\ \A s \in Slots \ {c} : Succ'[s] = Succ[s]
  <1>1. /\ mem' \in [Slots -> Cells \cup {Nil, Sentinel}]
        /\ mem'[c] = Nil /\ \A s \in Slots \ {c} : mem'[s] = mem[s]
    BY TypeFacts, SlotFacts DEF StartAdd
  <1>2. /\ adding'[t] = [step |-> "swap", cell |-> c, old |-> Nil]
        /\ \A u \in Threads \ {t} : adding'[u] = adding[u]
    BY TypeFacts DEF StartAdd
  <1>3. adding' \in [Threads -> Additions]
    <2>1. [step |-> "swap", cell |-> c, old |-> Nil] \in Additions
      BY DEF Additions
    <2>2. QED
      BY <2>1, TypeFacts DEF StartAdd
  <1>4. adding'[t].step # "link"
    BY <1>2
  <1>5. OneLinkEach(mem', adding')
    <2>1. ASSUME NEW u \in Threads, adding'[u].step = "link"
          PROVE  u # t /\ adding'[u] = adding[u] /\ adding[u].old # c
      BY <1>2, <1>4, <2>1 DEF NoLinkAt
    <2>2. QED
      BY <1>1, <2>1 DEF OneLinkEach
  <1>6. Succ'[c] = Nil
    <2>1. NoLinkAt(adding', c)
      BY <1>2, <1>4 DEF NoLinkAt
    <2>2. QED
      BY <1>1, <1>5, <2>1, SuccIs, SuccIsSuccIn, SlotFacts DEF Succ, SuccIn
  <1>7. ASSUME NEW s \in Slots \ {c} PROVE Succ'[s] = Succ[s]
    <2>1. SameLinks(adding, adding', s)
      BY <1>2, <1>4 DEF SameLinks
    <2>2. QED
      BY <1>1, <1>5, <2>1, TypeFacts, SameSlot
  <1>8. QED
    BY <1>1, <1>2, <1>3, <1>5, <1>6, <1>7

\* The tail is exchanged: the slot that it pointed to leads to the cell.
LEMMA LinkingSucc ==
  ASSUME TypeOK, OneLinkEach(mem, adding), NEW t \in Threads, NEW c \in Cells,
         adding[t].step \in {"swap", "store"}, NEW s \in Slots, Succ[s] = Nil, UNCHANGED mem,
         adding' \in [Threads -> Additions],
         adding'[t] = [step |-> "link", cell |-> c, old |-> s],
         \A u \in Threads \ {t} : adding'[u] = adding[u]
  PROVE  /\ OneLinkEach(mem', adding')
         /\ Succ'[s] = c
         /\ \A d \in Slots \ {s} : Succ'[d] = Succ[d]
  <1>1. mem[s] \notin Cells /\ NoLinkAt(adding, s)
    BY TypeFacts, SuccIs, SuccIsSuccIn
  <1>2. adding'[t].step = "link" /\ adding'[t].cell = c /\ adding'[t].old = s
    OBVIOUS
  <1>3. OneLinkEach(mem', adding')
    <2>1. ASSUME NEW u \in Threads, adding'[u].step = "link"
          PROVE  adding'[u].cell \in Cells /\ adding'[u].old \in Slots /\ mem'[adding'[u].old] \notin Cells
      BY <1>1, <1>2, <2>1 DEF OneLinkEach
    <2>2. ASSUME NEW u \in Threads, NEW v \in Threads, adding'[u].step = "link",
                 adding'[v].step = "link", adding'[u].old = adding'[v].old
          PROVE  u = v
      BY <1>1, <1>2, <2>2 DEF OneLinkEach, NoLinkAt
    <2>3. QED
      BY <2>1, <2>2 DEF OneLinkEach
  <1>4. mem' \in [Slots -> Cells \cup {Nil, Sentinel}]
    BY TypeFacts
  <1>5. Succ'[s] = c
    <2>1. SuccIn(mem', adding')[adding'[t].old] = adding'[t].cell
      BY <1>2, <1>3, <1>4, SuccIs
    <2>2. QED
      BY <1>2, <2>1 DEF Succ, SuccIn
  <1>6. ASSUME NEW d \in Slots \ {s} PROVE Succ'[d] = Succ[d]
    <2>1. SameLinks(adding, adding', d)
      BY <1>2 DEF SameLinks
    <2>2. QED
      BY <1>3, <1>4, <2>1, TypeFacts, SameSlot
  <1>7. QED
    BY <1>3, <1>5, <1>6

LEMMA HeadsStay ==
  ASSUME HeadInv, TypeOK, UNCHANGED <<step, active>>,
         \A h \in Heads : mem'[h] = mem[h], \A c \in Cells : mem'[c] # Sentinel
  PROVE  HeadInv' /\ ReadyHead' = ReadyHead
  <1>1. active \in Heads /\ Other(active) \in Heads /\ Other(active)' = Other(active)
    BY SlotFacts DEF TypeOK, Other
  <1>2. ReadyHead' = ReadyHead
    BY ReadyStays DEF Heads
  <1>3. HeadInv'
    BY <1>1 DEF HeadInv, Heads
  <1>4. QED
    BY <1>2, <1>3

-----------------------------------------------------------------------------
(* The additions.                                                          *)

LEMMA AddStep ==
  ASSUME NEW O \in Seq(Cells), NEW Q \in Seq(Cells), NEW R \in Seq(Cells), Shape(O, Q, R),
         NEW t \in Threads, NEW c \in Cells, Add(t, c)
  PROVE  Shape(O, Q, R)' /\ InHand = <<>> /\ InHand' = <<>>
  <1> DEFINE S == Listed(O, Q, R)
  <1> USE DEF Shape
  <1>1. /\ adding[t] = NotAdding /\ c \notin S /\ \A u \in Threads : adding[u].cell # c
        /\ t \in build.producers \cup {Loop}
        /\ t = Loop => op = "none" \/ (op = "process" /\ running # Nil)
        /\ StartAdd(t, c) /\ UNCHANGED <<tail, build, op, step, active, cur, last, target, running>>
    BY RegisteredIs DEF Add, ShapeGivesQueue, resetVars
  <1>2. op # "remove"
    BY <1>1 DEF ControlInv, SerialBuilds, Build
  <1>3. S \subseteq Cells /\ ReadyHead \in Heads /\ ReadyHead \notin Cells
    BY RangeIs, ReadyFacts, SlotFacts DEF Listed
  <1>4. NoLinkAt(adding, c)
    BY <1>1, <1>3 DEF AdderInv, NoLinkAt
  <1>5. adding[t].step = "none"
    BY <1>1 DEF NotAdding
  <1>6. /\ mem' \in [Slots -> Cells \cup {Nil, Sentinel}]
        /\ mem'[c] = Nil /\ \A s \in Slots \ {c} : mem'[s] = mem[s]
        /\ adding' \in [Threads -> Additions]
        /\ adding'[t] = [step |-> "swap", cell |-> c, old |-> Nil]
        /\ \A u \in Threads \ {t} : adding'[u] = adding[u]
        /\ \A s \in Slots \ {c} : Succ'[s] = Succ[s]
    BY <1>1, <1>4, <1>5, ShapeSucc, StartAddSucc
  <1>7. HeadInv' /\ ReadyHead' = ReadyHead
    <2>1. \A h \in Heads : mem'[h] = mem[h]
      BY <1>6, SlotFacts
    <2>2. \A d \in Cells : mem'[d] # Sentinel
      BY <1>6, SlotFacts DEF HeadInv
    <2>3. QED
      BY <1>1, <2>1, <2>2, HeadsStay
  <1>8. TypeOK'
    BY <1>1, <1>6 DEF TypeOK, Additions
  <1>9. ChainInv(O, Q, R)'
    <2>1. \A d \in S : Succ'[d] = Succ[d]
      BY <1>1, <1>3, <1>6, SlotFacts
    <2>2. Succ[ReadyHead]' = Succ[ReadyHead]
      BY <1>3, <1>6, <1>7, SlotFacts
    <2>3. QED
      BY <1>1, <2>1, <2>2, ChainsStay
  <1>10. TailInv(O, Q, R)' /\ LastInv(O, R)'
    BY <1>1, <1>7 DEF TailInv, LastInv, Switching, LastUnset
  <1>11. AdderInv(S)'
    <2>1. adding'[t].step = "swap" /\ adding'[t].cell = c
      BY <1>6
    <2>2. ASSUME NEW u \in Threads, adding'[u].step \in {"swap", "store"}
          PROVE  adding'[u].cell \in Cells \ S /\ mem'[adding'[u].cell] = Nil
      <3>1. CASE u = t
        BY <1>1, <1>6, <2>1, <3>1
      <3>2. CASE u # t
        <4>1. adding'[u] = adding[u]
          BY <1>6, <3>2
        <4>2. adding[u].cell \in Cells \ S /\ mem[adding[u].cell] = Nil
          BY <2>2, <4>1 DEF AdderInv
        <4>3. adding[u].cell \in Slots \ {c}
          BY <1>1, <4>2, SlotFacts
        <4>4. QED
          BY <1>6, <4>1, <4>2, <4>3
      <3>3. QED
        BY <3>1, <3>2
    <2>3. ASSUME NEW u \in Threads, adding'[u].step = "link"
          PROVE  /\ u # t /\ adding'[u] = adding[u] /\ adding'[u].cell \in Cells
                 /\ adding'[u].old \in {ReadyHead} \cup S /\ mem'[adding'[u].old] = Nil
      <3>1. u # t /\ adding'[u] = adding[u]
        BY <1>6, <2>1, <2>3
      <3>2. adding[u].old \in {ReadyHead} \cup S /\ mem[adding[u].old] = Nil /\ adding[u].cell \in Cells
        BY <2>3, <3>1 DEF AdderInv
      <3>3. adding[u].old \in Slots \ {c}
        BY <1>1, <1>3, <3>2, SlotFacts
      <3>4. QED
        BY <1>6, <3>1, <3>2, <3>3
    <2>4. ASSUME NEW u \in Threads, NEW v \in Threads, u # v,
                 adding'[u].step # "none", adding'[v].step # "none"
          PROVE  adding'[u].cell # adding'[v].cell
      BY <1>1, <1>6, <2>1, <2>4 DEF AdderInv
    <2>5. ASSUME NEW u \in Threads, adding'[u].step = "none" PROVE adding'[u] = NotAdding
      BY <1>6, <2>1, <2>5 DEF AdderInv
    <2>6. ASSUME NEW u \in Threads, adding'[u].step = "store"
          PROVE  adding'[u].old = tail' /\ ~build'.atomic
      BY <1>1, <1>6, <2>1, <2>6 DEF AdderInv
    <2>7. ASSUME NEW u \in Threads, NEW v \in Threads, adding'[u].step = "link",
                 adding'[v].step = "link", adding'[u].old = adding'[v].old
          PROVE  u = v
      BY <2>3, <2>7 DEF AdderInv
    <2>8. S' = S
      BY DEF Listed
    <2> HIDE DEF S
    <2>9. QED
      BY <1>7, <2>2, <2>3, <2>4, <2>5, <2>6, <2>7, <2>8 DEF AdderInv
  <1>12. ControlInv(O, R)'
    <2>1. ASSUME NEW u \in Threads, adding'[u] # NotAdding PROVE u \in build'.producers \cup {Loop}
      BY <1>1, <1>6, <2>1 DEF ControlInv
    <2>2. step = "drain" \/ LoopReady'
      BY <1>1, <1>6, SlotFacts DEF ControlInv, LoopReady, Ops
    <2>3. LoopReady' \/ op # "process" \/ running # Nil
      BY <1>1, <1>6, SlotFacts DEF ControlInv, LoopReady
    <2>4. QED
      BY <1>1, <2>1, <2>2, <2>3 DEF ControlInv
  <1>13. InHand = <<>> /\ InHand' = <<>>
    BY <1>1, <1>2 DEF InHand
  <1>14. QED
    BY <1>7, <1>8, <1>9, <1>10, <1>11, <1>12, <1>13

\* The steps of an exchange after which the tail points to the cell, which is
\* then the last of its list: the list behind the ready head, or that of
\* processDelayed while it is being checked out.
LEMMA TailMoves ==
  ASSUME NEW O \in Seq(Cells), NEW Q \in Seq(Cells), NEW R \in Seq(Cells), Shape(O, Q, R),
         NEW t \in Threads, NEW c \in Cells, c = adding[t].cell,
         adding[t].step \in {"swap", "store"},
         adding' \in [Threads -> Additions],
         adding'[t] = [step |-> "link", cell |-> c, old |-> tail],
         \A u \in Threads \ {t} : adding'[u] = adding[u],
         tail' = c, UNCHANGED <<mem, resetVars>>,
         Switching => op = "process"
  PROVE  IF Switching THEN Shape(Append(O, c), Q, R)' ELSE Shape(O, Append(Q, c), R)'
  <1> DEFINE S == Listed(O, Q, R)
             s == tail
  <1> USE DEF Shape
  <1>1. /\ UNCHANGED <<mem, build, op, step, active, cur, last, target, running>>
        /\ ReadyHead' = ReadyHead /\ Switching' = Switching /\ LastUnset' = LastUnset
    BY DEF resetVars, ReadyHead, Other, Switching, LastUnset
  <1>2. S \subseteq Cells /\ ReadyHead \in Heads /\ ReadyHead \notin Cells /\ ReadyHead \in Slots
    BY RangeIs, ReadyFacts, SlotFacts DEF Listed
  <1>3. c \notin S /\ mem[c] = Nil /\ c \in Slots
    BY SlotFacts DEF AdderInv
  <1>4. /\ s \in Slots
        /\ ~Switching => s = End(ReadyHead, Q)
        /\ Switching => Q = <<>> /\ O # <<>> /\ s = End(Nil, O)
    BY DEF TailInv, TypeOK
  <1>5. Succ[s] = Nil /\ s \in {ReadyHead} \cup S /\ mem[s] = Nil
    <2>1. Succ[s] = Nil /\ s \in {ReadyHead} \cup S
      <3>1. CASE Switching
        <4>1. s = O[Len(O)] /\ s \in Range(O) /\ Len(O) \in 1..Len(O)
          BY <1>4, <3>1, EndInRange
        <4>2. QED
          BY <4>1 DEF ChainInv, Chained, Listed
      <3>2. CASE ~Switching /\ Q = <<>>
        BY <1>4, <3>2, NoChain DEF ChainInv
      <3>3. CASE ~Switching /\ Q # <<>>
        <4>1. s = Q[Len(Q)] /\ s \in Range(Q) /\ Len(Q) \in 1..Len(Q)
          BY <1>4, <3>3, EndInRange
        <4>2. QED
          BY <4>1 DEF ChainInv, Chained, Listed
      <3>4. QED
        BY <3>1, <3>2, <3>3
    <2>2. mem[s] \notin Cells
      BY <1>4, <2>1, ShapeSucc, SuccIs, SuccIsSuccIn, TypeFacts
    <2>3. mem[s] # Sentinel
      BY <1>2, <2>1, ReadyFacts DEF HeadInv
    <2>4. QED
      BY <1>4, <2>1, <2>2, <2>3, TypeFacts
  <1>6. c # s /\ Succ[c] = Nil
    <2>1. c # s
      BY <1>2, <1>3, <1>5
    <2>2. NoLinkAt(adding, c)
      BY <1>2, <1>3 DEF AdderInv, NoLinkAt
    <2>3. QED
      BY <1>3, <2>1, <2>2, ShapeSucc, SuccIs, SuccIsSuccIn, TypeFacts, SlotFacts
  <1>7. /\ OneLinkEach(mem', adding')
        /\ Succ'[s] = c
        /\ \A d \in Slots \ {s} : Succ'[d] = Succ[d]
    BY <1>1, <1>4, <1>5, ShapeSucc, LinkingSucc
  <1>8. TypeOK'
    BY <1>1, <1>3 DEF TypeOK, Additions
  <1>9. HeadInv'
    BY <1>1 DEF HeadInv, Other
  <1>10. /\ c \notin Range(O) /\ c \notin Range(Q) /\ c \notin Range(R)
         /\ \A d \in S : d \in Slots
    BY <1>2, <1>3, SlotFacts DEF Listed
  <1>11. ASSUME NEW listed, listed = S \cup {c} PROVE AdderInv(listed)'
    <2>1. adding'[t].step = "link" /\ adding'[t].cell = c /\ adding'[t].old = s
      OBVIOUS
    <2>2. ASSUME NEW u \in Threads, adding'[u].step \in {"swap", "store"}
          PROVE  /\ adding'[u].cell \in Cells \ listed /\ mem'[adding'[u].cell] = Nil
                 /\ adding[u].step = adding'[u].step /\ u # t
      <3>1. u # t /\ adding'[u] = adding[u]
        BY <2>1, <2>2
      <3>2. adding[u].cell # c
        BY <2>2, <3>1 DEF AdderInv
      <3>3. QED
        BY <1>1, <1>11, <2>2, <3>1, <3>2 DEF AdderInv
    <2>3. ASSUME NEW u \in Threads, adding'[u].step = "store" PROVE FALSE
      <3>1. u # t /\ adding[u].step = "store"
        BY <2>1, <2>3
      <3>2. build \in SerialBuilds /\ ~build.atomic
        BY <3>1 DEF AdderInv, ControlInv
      <3>3. u = Loop /\ t = Loop
        BY <3>1, <3>2 DEF ControlInv, SerialBuilds, NotAdding
      <3>4. QED
        BY <3>1, <3>3
    <2>4. ASSUME NEW u \in Threads, adding'[u].step = "link"
          PROVE  /\ adding'[u].cell \in Cells /\ adding'[u].old \in {ReadyHead'} \cup listed
                 /\ mem'[adding'[u].old] = Nil
      <3>1. CASE u = t
        BY <1>1, <1>5, <1>11, <2>1, <3>1
      <3>2. CASE u # t
        BY <1>1, <1>11, <2>4, <3>2 DEF AdderInv
      <3>3. QED
        BY <3>1, <3>2
    <2>5. ASSUME NEW u \in Threads, NEW v \in Threads, u # v,
                 adding'[u].step # "none", adding'[v].step # "none"
          PROVE  adding'[u].cell # adding'[v].cell
      BY <2>1, <2>5 DEF AdderInv
    <2>6. ASSUME NEW u \in Threads, adding'[u].step = "none" PROVE adding'[u] = NotAdding
      BY <2>1, <2>6 DEF AdderInv
    <2>7. ASSUME NEW u \in Threads, NEW v \in Threads, adding'[u].step = "link",
                 adding'[v].step = "link", adding'[u].old = adding'[v].old
          PROVE  u = v
      BY <1>7, <2>7 DEF OneLinkEach
    <2>8. QED
      BY <2>2, <2>3, <2>4, <2>5, <2>6, <2>7 DEF AdderInv
  <1>12. ASSUME NEW o, NEW r, o = <<>> <=> O = <<>>, r = R PROVE ControlInv(o, r)'
    <2>1. ASSUME NEW u \in Threads, adding'[u] # NotAdding
          PROVE  u \in build'.producers \cup {Loop}
      BY <1>1, <2>1 DEF ControlInv, NotAdding
    <2>2. LoopReady => LoopReady'
      BY SlotFacts DEF LoopReady, NotAdding
    <2>3. QED
      BY <1>1, <1>12, <2>1, <2>2 DEF ControlInv
  <1>13. CASE Switching
    <2> DEFINE o == Append(O, c)
    <2>0. o = Append(O, c)
      OBVIOUS
    <2> HIDE DEF o
    <2>1. \A d \in Range(O) : Succ'[d] = IF d = O[Len(O)] THEN c ELSE Succ[d]
      BY <1>4, <1>7, <1>10, <1>13, EndInRange DEF Listed
    <2>2. Succ'[c] = Nil
      BY <1>3, <1>6, <1>7
    <2>3. /\ o \in Seq(Cells) /\ o # <<>> /\ Chained(Succ', o)
          /\ Range(o) = Range(O) \cup {c} /\ First(o) = First(O) /\ End(Nil, o) = c
      <3>1. Extends(Succ, Succ', O, c)
        BY <2>1, <2>2 DEF Extends
      <3>2. Chained(Succ, O) /\ c \notin Range(O)
        BY <1>10 DEF ChainInv
      <3>3. Longer(Succ', O, c, o)
        BY <2>0, <3>1, <3>2, ChainIsLonger
      <3>4. QED
        BY <1>4, <1>13, <3>3 DEF Longer
    <2>4. s \in Range(O)
      BY <1>4, <1>13, EndInRange
    <2>5. Chained(Succ', Q) /\ Chained(Succ', R)
      <3>1. \A d \in Range(Q) \cup Range(R) : Succ'[d] = Succ[d]
        BY <1>7, <1>10, <2>4 DEF ChainInv, Listed
      <3>2. QED
        BY <3>1, ChainStays DEF ChainInv
    <2>6. Succ'[ReadyHead] = Succ[ReadyHead]
      BY <1>2, <1>7, <2>4, RangeIs
    <2>7. ChainInv(o, Q, R)'
      BY <1>1, <1>10, <2>3, <2>5, <2>6 DEF ChainInv
    <2>8. TailInv(o, Q, R)' /\ LastInv(o, R)'
      <3>1. step \in {"swapOldTail", "storeOldTail", "storeHead"} /\ build \in SerialBuilds
        BY <1>13 DEF Switching, ControlInv
      <3>2. step = "swapOldTail"
        \* The other steps are of a build in which the loop's task alone adds.
        BY <3>1, <1>13 DEF ControlInv, SerialBuilds, LoopReady, NotAdding, AdderInv
      <3>3. QED
        BY <1>1, <1>4, <1>13, <2>3, <3>2 DEF TailInv, LastInv, Switching, LastUnset
    <2>9. AdderInv(Listed(o, Q, R))'
      <3>1. Listed(o, Q, R)' = S \cup {c} /\ Listed(o, Q, R) = S \cup {c}
        BY <2>3 DEF Listed
      <3>2. QED
        BY <1>11, <3>1 DEF AdderInv
    <2>10. ControlInv(o, R)'
      BY <1>4, <1>12, <1>13, <2>3
    <2>11. QED
      BY <1>8, <1>9, <1>13, <2>7, <2>8, <2>9, <2>10 DEF o
  <1>14. CASE ~Switching
    <2> DEFINE q == Append(Q, c)
    <2>0. q = Append(Q, c)
      OBVIOUS
    <2> HIDE DEF q
    <2>1. \A d \in Range(Q) : Succ'[d] = IF d = Q[Len(Q)] THEN c ELSE Succ[d]
      <3> TAKE d \in Range(Q)
      <3>1. Q # <<>> /\ d \in Slots
        BY <1>10, NoChain DEF Listed
      <3>2. s = Q[Len(Q)]
        BY <1>4, <1>14, <3>1, EndInRange
      <3>3. QED
        BY <1>7, <3>1, <3>2
    <2>2. Succ'[c] = Nil
      BY <1>3, <1>6, <1>7
    <2>3. /\ q \in Seq(Cells) /\ q # <<>> /\ Chained(Succ', q)
          /\ Range(q) = Range(Q) \cup {c}
          /\ Q = <<>> => First(q) = c
          /\ Q # <<>> => First(q) = First(Q)
          /\ End(ReadyHead, q) = c
      <3>1. Chained(Succ, Q) /\ c \in Cells /\ c \notin Range(Q)
        BY <1>3, <1>10 DEF ChainInv, AdderInv
      <3>2. /\ q \in Seq(Cells) /\ q # <<>> /\ Chained(Succ', q)
            /\ Range(q) = Range(Q) \cup {c}
            /\ Q = <<>> => First(q) = c
            /\ Q # <<>> => First(q) = First(Q)
            /\ \A x : End(x, q) = c
        <4>1. Extends(Succ, Succ', Q, c)
          BY <2>1, <2>2 DEF Extends
        <4>2. Longer(Succ', Q, c, q)
          BY <2>0, <3>1, <4>1, ChainIsLonger
        <4>3. QED
          BY <4>2 DEF Longer
      <3>3. QED
        BY <3>2
    <2>4. s \in {ReadyHead} \cup Range(Q)
      BY <1>4, <1>14, EndInRange, NoChain
    <2>5. Chained(Succ', O) /\ Chained(Succ', R)
      <3>1. \A d \in Range(O) \cup Range(R) : d \in Slots /\ d # s
        BY <1>2, <1>10, <2>4 DEF ChainInv, Listed
      <3>2. \A d \in Range(O) \cup Range(R) : Succ'[d] = Succ[d]
        BY <1>7, <3>1
      <3>3. QED
        BY <3>2, ChainStays DEF ChainInv
    <2>6. Succ'[ReadyHead] = First(q)
      <3>1. CASE Q = <<>>
        BY <1>4, <1>7, <1>14, <2>3, <3>1, NoChain
      <3>2. CASE Q # <<>>
        <4>1. s # ReadyHead
          BY <1>2, <1>4, <1>14, <3>2, EndInRange, RangeIs
        <4>2. QED
          BY <1>2, <1>7, <2>3, <3>2, <4>1 DEF ChainInv
      <3>3. QED
        BY <3>1, <3>2
    <2>7. ChainInv(O, q, R)'
      BY <1>1, <1>10, <2>3, <2>5, <2>6 DEF ChainInv
    <2>8. TailInv(O, q, R)' /\ LastInv(O, R)'
      BY <1>1, <1>14, <2>3 DEF TailInv, LastInv
    <2>9. AdderInv(Listed(O, q, R))'
      <3>1. Listed(O, q, R)' = S \cup {c} /\ Listed(O, q, R) = S \cup {c}
        BY <2>3 DEF Listed
      <3>2. QED
        BY <1>11, <3>1 DEF AdderInv
    <2>10. ControlInv(O, R)'
      BY <1>12
    <2>11. QED
      BY <1>8, <1>9, <1>14, <2>7, <2>8, <2>9, <2>10 DEF q
  <1>15. QED
    BY <1>13, <1>14

\* A removal that is called outside of a callback, once it has taken its list, has
\* taken its argument out.
RemovedInv ==
  op = "remove" /\ step \notin {"open", "swapHead"} /\ running = Nil
    => target \notin Range(Registered)

\* A removal adds nothing to the queue.
NothingNew == op = "remove" => Range(Registered') \subseteq Range(Registered)

\* What every step does: the lists go on, and the queue is changed as DelayedFifo
\* says or not at all.
Simulated == Inv' /\ NothingNew /\ [Fifo!Next]_(Fifo!vars)

Untouched == UNCHANGED <<Registered, running, target>>

LEMMA QueueIsTyped ==
  ASSUME Inv
  PROVE  /\ Registered \in Seq(Cells)
         /\ op # "remove" => target = Nil
         /\ op = "remove" => target \in Cells /\ target # Nil
  <1>1. PICK O, Q, R \in Seq(Cells) : Shape(O, Q, R)
    BY DEF Inv
  <1>2. /\ op # "remove" => target = Nil
        /\ op = "remove" => target \in Cells
    BY <1>1 DEF Shape, ControlInv
  <1>3. O \o Q \in Seq(Cells) /\ RemoveFirst(R, target) \in Seq(Cells)
    BY ConcatRange, RemoveType
  <1>4. InHand \in Seq(Cells)
    <2>1. ASSUME adding[Loop].step \in {"swap", "store"} PROVE adding[Loop].cell \in Cells
      BY <1>1, <2>1, SlotFacts DEF Shape, AdderInv
    <2>2. QED
      BY <2>1 DEF InHand
  <1>5. Registered \in Seq(Cells)
    <2>1. CASE op # "remove"
      BY <1>1, <1>3, <2>1, RegisteredIs DEF ShapeGivesQueue
    <2>2. CASE op = "remove"
      <3>1. Registered = ((O \o Q) \o InHand) \o RemoveFirst(R, target)
        BY <1>1, <2>2, RegisteredIs DEF ShapeGivesQueue
      <3> DEFINE W == O \o Q
                 V == RemoveFirst(R, target)
      <3>2. W \in Seq(Cells) /\ V \in Seq(Cells)
        BY <1>3
      <3>3. Registered = (W \o InHand) \o V
        BY <3>1
      <3> HIDE DEF W, V
      <3>4. W \o InHand \in Seq(Cells)
        BY <1>4, <3>2, ConcatRange
      <3>5. QED
        BY <3>2, <3>3, <3>4, ConcatRange
    <2>3. QED
      BY <2>1, <2>2
  <1>6. QED
    BY <1>2, <1>5, SlotFacts

LEMMA FifoSteps ==
  ASSUME Inv, Inv',
         \/ \E c \in Cells : op # "remove" /\ c \notin Range(Registered)
                               /\ Registered' = Append(Registered, c)
                               /\ UNCHANGED <<running, target>>
         \/ target \in Range(Registered) /\ Registered' = RemoveFirst(Registered, target)
              /\ UNCHANGED <<running, target>>
         \/ /\ running = Nil /\ target = Nil /\ Registered # <<>>
            /\ running' = Head(Registered) /\ Registered' = Tail(Registered)
            /\ target' = target
         \/ /\ running # Nil /\ target = Nil /\ running' = Nil
            /\ UNCHANGED <<Registered, target>>
         \/ target = Nil /\ target' \in Cells /\ UNCHANGED <<Registered, running>>
         \/ /\ target # Nil /\ (running = Nil => target \notin Range(Registered))
            /\ target' = Nil /\ UNCHANGED <<Registered, running>>
         \/ Untouched
  PROVE  Simulated
  <1>1. ASSUME NEW c \in Cells, c \notin Range(Registered),
               Registered' = Append(Registered, c), UNCHANGED <<running, target>>
        PROVE  Fifo!Add(c)
    BY <1>1 DEF Fifo!Add, Fifo!Range, Range
  <1>2. ASSUME target \in Range(Registered), Registered' = RemoveFirst(Registered, target),
               UNCHANGED <<running, target>>
        PROVE  Fifo!Deregister
    BY <1>2 DEF Fifo!Deregister, Fifo!Range, Range, RemoveFirst, Fifo!RemoveFirst, RemoveAt, Fifo!RemoveAt, SelectInSeq, Fifo!SelectInSeq, Min, Fifo!Min
  <1>3. ASSUME running = Nil, target = Nil, Registered # <<>>, target' = target,
               running' = Head(Registered), Registered' = Tail(Registered)
        PROVE  Fifo!Execute
    BY <1>3 DEF Fifo!Execute
  <1>4. ASSUME running # Nil, target = Nil, running' = Nil, UNCHANGED <<Registered, target>>
        PROVE  Fifo!Return
    BY <1>4 DEF Fifo!Return
  <1>5. ASSUME target = Nil, target' \in Cells, UNCHANGED <<Registered, running>>
        PROVE  Fifo!BeginRemoval(target')
    BY <1>5 DEF Fifo!BeginRemoval
  <1>6. ASSUME target # Nil, running = Nil => target \notin Range(Registered),
               target' = Nil, UNCHANGED <<Registered, running>>
        PROVE  Fifo!EndRemoval
    BY <1>6 DEF Fifo!EndRemoval, Fifo!Range, Range
  <1>7. Registered \in Seq(Cells) /\ (op # "remove" => target = Nil)
    BY QueueIsTyped
  <1>8. NothingNew
    <2>1. ASSUME Registered' = RemoveFirst(Registered, target)
          PROVE  Range(Registered') \subseteq Range(Registered)
      BY <1>7, <2>1, RemoveKeeps
    <2>2. ASSUME target = Nil PROVE op # "remove"
      BY <2>2, QueueIsTyped
    <2>3. QED
      BY <2>1, <2>2 DEF NothingNew, Untouched
  <1>9. [Fifo!Next]_(Fifo!vars)
    BY <1>1, <1>2, <1>3, <1>4, <1>5, <1>6 DEF Untouched, Fifo!Next, Fifo!vars
  <1>10. QED
    BY <1>8, <1>9 DEF Simulated

LEMMA InvIs ==
  ASSUME NEW O \in Seq(Cells), NEW Q \in Seq(Cells), NEW R \in Seq(Cells), Shape(O, Q, R)'
  PROVE  /\ Inv'
         /\ op' # "remove" => Registered' = O \o Q
         /\ op' = "remove" => Registered' = ((O \o Q) \o InHand') \o RemoveFirst(R, target')
  BY RegisteredIsNext DEF Inv, ShapeGivesQueue

\* An exchange of the tail adds the cell, or puts it back.
LEMMA TailStep ==
  ASSUME NEW O \in Seq(Cells), NEW Q \in Seq(Cells), NEW R \in Seq(Cells), Shape(O, Q, R),
         NEW t \in Threads, NEW c \in Cells, c = adding[t].cell,
         adding[t].step \in {"swap", "store"},
         adding' \in [Threads -> Additions],
         adding'[t] = [step |-> "link", cell |-> c, old |-> tail],
         \A u \in Threads \ {t} : adding'[u] = adding[u],
         tail' = c, UNCHANGED <<mem, resetVars>>
  PROVE  Simulated
  <1>0. Inv
    BY DEF Inv
  <1>1. /\ UNCHANGED <<op, target, running>>
        /\ adding[t] # NotAdding /\ adding'[t].step = "link"
    BY DEF resetVars, NotAdding
  <1>2. op = "remove" => t = Loop
    BY <1>1 DEF Shape, ControlInv, SerialBuilds
  <1>3. Switching => op = "process" /\ Q = <<>>
    <2>1. Switching => op \in Ops /\ t # Loop /\ Q = <<>>
      BY <1>1 DEF Shape, ControlInv, TailInv, Switching, LoopReady
    <2>2. QED
      BY <1>2, <2>1 DEF Ops
  <1>4. IF Switching THEN Shape(Append(O, c), Q, R)' ELSE Shape(O, Append(Q, c), R)'
    BY <1>3, TailMoves
  <1>5. /\ op # "remove" => Registered = O \o Q
        /\ op = "remove" => Registered = ((O \o Q) \o InHand) \o RemoveFirst(R, target)
    BY RegisteredIs DEF ShapeGivesQueue
  <1>6. c \notin Range(O \o Q) /\ O \o Q \in Seq(Cells)
    BY ConcatRange DEF Shape, AdderInv, Listed
  <1>7. Append(O, c) \in Seq(Cells) /\ Append(Q, c) \in Seq(Cells)
    OBVIOUS
  <1>8. CASE Switching
    <2>1. Shape(Append(O, c), Q, R)'
      BY <1>4, <1>8
    <2>2. Inv' /\ Registered' = Append(O, c) \o Q
      BY <1>1, <1>3, <1>7, <1>8, <2>1, InvIs
    <2>3. Append(O, c) \o Q = Append(O, c) /\ O \o Q = O
      BY <1>3, <1>7, <1>8, ConcatEmptySeq
    <2>4. c \notin Range(Registered) /\ Registered' = Append(Registered, c)
      BY <1>3, <1>5, <1>6, <1>8, <2>2, <2>3
    <2>5. op # "remove"
      BY <1>3, <1>8
    <2>6. QED
      BY <1>0, <1>1, <2>2, <2>4, <2>5, FifoSteps
  <1>9. CASE ~Switching
    <2>1. Shape(O, Append(Q, c), R)'
      BY <1>4, <1>9
    <2>2. /\ Inv'
          /\ op # "remove" => Registered' = O \o Append(Q, c)
          /\ op = "remove" =>
               Registered' = ((O \o Append(Q, c)) \o InHand') \o RemoveFirst(R, target)
      <3> DEFINE q == Append(Q, c)
      <3>1. q \in Seq(Cells) /\ Shape(O, q, R)'
        BY <1>7, <2>1
      <3> HIDE DEF q
      <3>2. /\ Inv'
            /\ op' # "remove" => Registered' = O \o q
            /\ op' = "remove" => Registered' = ((O \o q) \o InHand') \o RemoveFirst(R, target')
        BY <3>1, InvIs
      <3>3. QED
        BY <1>1, <3>2 DEF q
    <2>3. O \o Append(Q, c) = Append(O \o Q, c) /\ Append(O \o Q, c) = (O \o Q) \o <<c>>
      BY <1>6, ConcatAppend
    <2>4. CASE op # "remove"
      <3>1. c \notin Range(Registered) /\ Registered' = Append(Registered, c)
        BY <1>5, <1>6, <2>2, <2>3, <2>4
      <3>2. QED
        BY <1>0, <1>1, <2>2, <2>4, <3>1, FifoSteps
    <2>5. CASE op = "remove"
      <3>1. InHand = <<c>> /\ InHand' = <<>>
        BY <1>1, <1>2, <2>5 DEF InHand
      <3>2. ((O \o Q) \o <<c>>) \o <<>> = (O \o Q) \o <<c>>
        <4>1. <<c>> \in Seq(Cells)
          OBVIOUS
        <4>2. QED
          BY <1>6, <4>1, ConcatRange, ConcatEmptySeq
      <3>3. Registered' = Registered
        BY <1>5, <2>2, <2>3, <2>5, <3>1, <3>2
      <3>4. QED
        BY <1>0, <1>1, <2>2, <3>3, FifoSteps DEF Untouched
    <2>6. QED
      BY <2>4, <2>5
  <1>10. QED
    BY <1>8, <1>9

\* A step after which the same lists hold the same queue.
LEMMA SameLists ==
  ASSUME NEW O \in Seq(Cells), NEW Q \in Seq(Cells), NEW R \in Seq(Cells),
         Shape(O, Q, R), Shape(O, Q, R)', UNCHANGED <<op, target, running>>,
         op = "remove" => InHand' = InHand
  PROVE  Simulated
  <1>1. /\ op # "remove" => Registered = O \o Q
        /\ op = "remove" => Registered = ((O \o Q) \o InHand) \o RemoveFirst(R, target)
    BY RegisteredIs DEF ShapeGivesQueue
  <1>2. /\ Inv'
        /\ op' # "remove" => Registered' = O \o Q
        /\ op' = "remove" => Registered' = ((O \o Q) \o InHand') \o RemoveFirst(R, target')
    BY InvIs
  <1>3. Registered' = Registered
    BY <1>1, <1>2
  <1>4. Inv
    BY DEF Inv
  <1>5. QED
    BY <1>2, <1>3, <1>4, FifoSteps DEF Untouched

LEMMA AddIsSimulated ==
  ASSUME Inv, NEW t \in Threads, NEW c \in Cells, Add(t, c) PROVE Simulated
  <1>1. PICK O, Q, R \in Seq(Cells) : Shape(O, Q, R)
    BY DEF Inv
  <1>2. Shape(O, Q, R)' /\ InHand = <<>> /\ InHand' = <<>>
    BY <1>1, AddStep
  <1>3. UNCHANGED <<op, target, running>>
    BY DEF Add, resetVars
  <1>4. QED
    BY <1>1, <1>2, <1>3, SameLists

\* The load of an exchange that is not atomic.
LEMMA LoadTail ==
  ASSUME NEW O \in Seq(Cells), NEW Q \in Seq(Cells), NEW R \in Seq(Cells), Shape(O, Q, R),
         NEW t \in Threads, SwapTail(t), ~build.atomic
  PROVE  Shape(O, Q, R)' /\ InHand' = InHand
  <1> DEFINE c == adding[t].cell
  <1> USE DEF Shape
  <1>1. /\ adding[t].step = "swap"
        /\ adding' = [adding EXCEPT ![t].old = tail, ![t].step = "store"]
        /\ UNCHANGED <<mem, tail, build, op, step, active, cur, last, target, running>>
    BY DEF SwapTail, resetVars
  <1>2. /\ adding' \in [Threads -> Additions]
        /\ adding'[t] = [step |-> "store", cell |-> c, old |-> tail]
        /\ \A u \in Threads \ {t} : adding'[u] = adding[u]
    <2>1. adding[t] \in Additions /\ tail \in Slots /\ adding \in [Threads -> Additions]
      BY TypeFacts
    <2>2. adding'[t] = [adding[t] EXCEPT !.old = tail, !.step = "store"]
      BY <1>1, <2>1
    <2>3. adding'[t] = [step |-> "store", cell |-> c, old |-> tail]
      BY <2>1, <2>2 DEF Additions
    <2>4. adding'[t] \in Additions
      BY <2>1, <2>3 DEF Additions
    <2>5. QED
      BY <1>1, <2>1, <2>3, <2>4
  <1> HIDE DEF c
  <1>3. c = adding[t].cell
    BY DEF c
  <1>4. \A u \in Threads : adding[u].step = "link" <=> adding'[u].step = "link"
    BY <1>1, <1>2
  <1>5. \A u \in Threads : adding[u].step = "link" => adding'[u] = adding[u]
    BY <1>1, <1>2
  <1>6. \A u \in Threads : adding'[u].cell = adding[u].cell
    BY <1>2, <1>3
  <1>7. \A d \in Slots : Succ'[d] = Succ[d]
    <2> TAKE d \in Slots
    <2>1. OneLinkEach(mem, adding) /\ mem' \in [Slots -> Cells \cup {Nil, Sentinel}]
      BY <1>1, ShapeSucc, TypeFacts
    <2>2. OneLinkEach(mem', adding')
      <3>1. \A u \in Threads :
              adding'[u].step = "link" => adding[u].step = "link" /\ adding'[u] = adding[u]
        BY <1>4, <1>5
      <3>2. mem' = mem
        BY <1>1
      <3>3. QED
        BY <2>1, <3>1, <3>2 DEF OneLinkEach
    <2>3. SameLinks(adding, adding', d)
      BY <1>4, <1>5 DEF SameLinks
    <2>4. mem'[d] = mem[d] /\ mem \in [Slots -> Cells \cup {Nil, Sentinel}]
      BY <1>1, TypeFacts
    <2>5. QED
      BY <2>1, <2>2, <2>3, <2>4, SameSlot
  <1>8. ReadyHead' = ReadyHead /\ ReadyHead \in Slots
    BY <1>1, ReadyStays, ReadyFacts, SlotFacts
  <1>9. ChainInv(O, Q, R)'
    <2>1. \A d \in Listed(O, Q, R) : d \in Slots
      BY RangeIs, SlotFacts DEF Listed
    <2>2. QED
      BY <1>1, <1>7, <1>8, <2>1, ChainsStay
  <1>10. TailInv(O, Q, R)' /\ LastInv(O, R)' /\ HeadInv'
    BY <1>1, <1>8 DEF TailInv, LastInv, HeadInv, Switching, LastUnset, Other
  <1>11. TypeOK'
    BY <1>1, <1>2 DEF TypeOK, Additions
  <1>12. ASSUME NEW S, AdderInv(S) PROVE AdderInv(S)'
    <2>1. \A u \in Threads : adding'[u].step \in {"swap", "store"} => adding[u].step \in {"swap", "store"}
      BY <1>1, <1>2
    <2>2. \A u \in Threads : adding'[u].step = "none" => adding'[u] = adding[u] /\ adding[u].step = "none"
      BY <1>2
    <2>3. \A u \in Threads : adding'[u].step = "store" => adding'[u].old = tail' /\ ~build'.atomic
      BY <1>1, <1>2, <1>12 DEF AdderInv
    <2>4. \A u \in Threads : adding[u].step = "none" <=> adding'[u].step = "none"
      BY <1>1, <1>2
    <2>5. \A u \in Threads :
            adding'[u].step = "link" => adding[u].step = "link" /\ adding'[u] = adding[u]
      BY <1>4, <1>5
    <2>6. \A u \in Threads : adding'[u].step = "none" => adding'[u] = NotAdding
      BY <1>12, <2>2 DEF AdderInv
    <2>7. ASSUME NEW u \in Threads, adding'[u].step \in {"swap", "store"}
          PROVE  adding'[u].cell \in Cells \ S /\ mem'[adding'[u].cell] = Nil
      BY <1>1, <1>6, <1>12, <2>1, <2>7 DEF AdderInv
    <2>8. ASSUME NEW u \in Threads, adding'[u].step = "link"
          PROVE  /\ adding'[u].cell \in Cells
                 /\ adding'[u].old \in {ReadyHead'} \cup S
                 /\ mem'[adding'[u].old] = Nil
      BY <1>1, <1>8, <1>12, <2>5, <2>8 DEF AdderInv
    <2>9. ASSUME NEW u \in Threads, NEW v \in Threads, u # v,
                 adding'[u].step # "none", adding'[v].step # "none"
          PROVE  adding'[u].cell # adding'[v].cell
      BY <1>6, <1>12, <2>4, <2>9 DEF AdderInv
    <2>10. ASSUME NEW u \in Threads, NEW v \in Threads, adding'[u].step = "link",
                  adding'[v].step = "link", adding'[u].old = adding'[v].old
           PROVE  u = v
      BY <1>12, <2>5, <2>10 DEF AdderInv
    <2>11. QED
      BY <2>3, <2>6, <2>7, <2>8, <2>9, <2>10 DEF AdderInv
  <1>13. AdderInv(Listed(O, Q, R))'
    BY <1>12 DEF Listed, AdderInv
  <1>14. \A u \in Threads : adding'[u] # NotAdding <=> adding[u] # NotAdding
    BY <1>1, <1>2 DEF NotAdding
  <1>15. ControlInv(O, R)'
    BY <1>1, <1>14, SlotFacts DEF ControlInv, LoopReady
  <1>16. InHand' = InHand
    <2>1. adding'[Loop].step \in {"swap", "store"} <=> adding[Loop].step \in {"swap", "store"}
      BY <1>1, <1>2, SlotFacts
    <2>2. adding'[Loop].cell = adding[Loop].cell
      BY <1>6, SlotFacts
    <2>3. QED
      BY <1>1, <2>1, <2>2 DEF InHand
  <1>17. QED
    BY <1>9, <1>10, <1>11, <1>13, <1>15, <1>16

LEMMA SwapTailIsSimulated ==
  ASSUME Inv, NEW t \in Threads, SwapTail(t) PROVE Simulated
  <1>1. PICK O, Q, R \in Seq(Cells) : Shape(O, Q, R)
    BY DEF Inv
  <1>2. CASE build.atomic
    <2> DEFINE c == adding[t].cell
    <2>1. /\ adding[t].step = "swap" /\ tail' = c
          /\ adding' = [adding EXCEPT ![t].old = tail, ![t].step = "link"]
          /\ UNCHANGED <<mem, resetVars>>
      BY <1>2 DEF SwapTail
    <2>2. adding[t] \in Additions /\ tail \in Slots /\ adding \in [Threads -> Additions]
      BY <1>1, TypeFacts DEF Shape
    <2>3. adding'[t] = [adding[t] EXCEPT !.old = tail, !.step = "link"]
      BY <2>1, <2>2
    <2>4. adding'[t] = [step |-> "link", cell |-> c, old |-> tail]
      BY <2>2, <2>3 DEF Additions
    <2>5. adding'[t] \in Additions
      BY <2>2, <2>4 DEF Additions
    <2>6. adding' \in [Threads -> Additions] /\ \A u \in Threads \ {t} : adding'[u] = adding[u]
      BY <2>1, <2>2, <2>5
    <2>7. c \in Cells
      BY <1>1, <2>1 DEF Shape, AdderInv
    <2>8. c = adding[t].cell /\ adding[t].step \in {"swap", "store"}
      BY <2>1
    <2> HIDE DEF c
    <2>9. QED
      BY <1>1, <2>1, <2>4, <2>6, <2>7, <2>8, TailStep
  <1>3. CASE ~build.atomic
    <2>1. Shape(O, Q, R)' /\ InHand' = InHand
      BY <1>1, <1>3, LoadTail
    <2>2. UNCHANGED <<op, target, running>>
      BY DEF SwapTail, resetVars
    <2>3. QED
      BY <1>1, <2>1, <2>2, SameLists
  <1>4. QED
    BY <1>2, <1>3

LEMMA StoreTailIsSimulated ==
  ASSUME Inv, NEW t \in Threads, StoreTail(t) PROVE Simulated
  <1>1. PICK O, Q, R \in Seq(Cells) : Shape(O, Q, R)
    BY DEF Inv
  <1> DEFINE c == adding[t].cell
  <1>2. /\ adding[t].step = "store" /\ tail' = c
        /\ adding' = [adding EXCEPT ![t].step = "link"]
        /\ UNCHANGED <<mem, resetVars>>
    BY DEF StoreTail
  <1>3. adding[t] \in Additions /\ tail \in Slots /\ adding \in [Threads -> Additions]
    BY <1>1, TypeFacts DEF Shape
  <1>4. adding'[t] = [adding[t] EXCEPT !.step = "link"] /\ adding[t].old = tail
    BY <1>1, <1>2, <1>3 DEF Shape, AdderInv
  <1>5. adding'[t] = [step |-> "link", cell |-> c, old |-> tail]
    BY <1>3, <1>4 DEF Additions
  <1>6. adding'[t] \in Additions
    BY <1>3, <1>5 DEF Additions
  <1>7. adding' \in [Threads -> Additions] /\ \A u \in Threads \ {t} : adding'[u] = adding[u]
    BY <1>2, <1>3, <1>6
  <1>8. c \in Cells
    BY <1>1, <1>2 DEF Shape, AdderInv
  <1>9. c = adding[t].cell /\ adding[t].step \in {"swap", "store"}
    BY <1>2
  <1> HIDE DEF c
  <1>10. QED
    BY <1>1, <1>2, <1>5, <1>7, <1>8, <1>9, TailStep

\* Step 2 of the addition makes the pointer say what the list already was.
LEMMA LinkStep ==
  ASSUME NEW O \in Seq(Cells), NEW Q \in Seq(Cells), NEW R \in Seq(Cells), Shape(O, Q, R),
         NEW t \in Threads, Link(t)
  PROVE  Shape(O, Q, R)' /\ InHand' = InHand
  <1> DEFINE c == adding[t].cell
             s == adding[t].old
             S == Listed(O, Q, R)
  <1> USE DEF Shape
  <1>1. /\ adding[t].step = "link"
        /\ mem' = [mem EXCEPT ![s] = c] /\ adding' = [adding EXCEPT ![t] = NotAdding]
        /\ UNCHANGED <<tail, build, op, step, active, cur, last, target, running>>
    BY DEF Link, resetVars
  <1>2. c \in Cells /\ s \in {ReadyHead} \cup S /\ mem[s] = Nil
    BY <1>1 DEF AdderInv
  <1>3. S \subseteq Cells /\ ReadyHead \in Heads /\ ReadyHead \in Slots /\ s \in Slots
    BY <1>2, RangeIs, ReadyFacts, SlotFacts DEF Listed
  <1>4. /\ mem' \in [Slots -> Cells \cup {Nil, Sentinel}]
        /\ mem'[s] = c /\ \A d \in Slots \ {s} : mem'[d] = mem[d]
    BY <1>1, <1>2, <1>3, TypeFacts
  <1>5. /\ adding' \in [Threads -> Additions]
        /\ adding'[t] = NotAdding /\ adding'[t].step = "none"
        /\ \A u \in Threads \ {t} : adding'[u] = adding[u]
    <2>1. NotAdding \in Additions /\ NotAdding.step = "none"
      BY DEF NotAdding, Additions
    <2>2. QED
      BY <1>1, <2>1, TypeFacts
  <1>6. /\ Succ[s] = c
        /\ \A u \in Threads : u # t /\ adding[u].step = "link" => adding[u].old # s
    BY <1>1, ShapeSucc, SuccIs, SuccIsSuccIn, TypeFacts DEF AdderInv
  <1>7. ASSUME NEW u \in Threads, adding'[u].step = "link"
        PROVE  /\ u # t /\ adding'[u] = adding[u] /\ adding[u].step = "link" /\ adding[u].old # s
               /\ adding[u].old \in Slots /\ mem'[adding[u].old] = Nil
               /\ adding[u].old \in {ReadyHead} \cup S /\ adding[u].cell \in Cells
    <2>1. u # t /\ adding'[u] = adding[u] /\ adding[u].step = "link"
      BY <1>5, <1>7
    <2>2. adding[u].old # s /\ adding[u].old \in {ReadyHead} \cup S /\ mem[adding[u].old] = Nil
          /\ adding[u].cell \in Cells
      BY <1>6, <2>1 DEF AdderInv
    <2>3. adding[u].old \in Slots
      BY <1>3, <2>2, SlotFacts
    <2>4. QED
      BY <1>4, <2>1, <2>2, <2>3
  <1> HIDE DEF c, s, S
  <1>8. OneLinkEach(mem', adding')
    <2>1. ASSUME NEW u \in Threads, adding'[u].step = "link"
          PROVE  adding'[u].cell \in Cells /\ adding'[u].old \in Slots /\ mem'[adding'[u].old] \notin Cells
      BY <1>7, <2>1, SlotFacts
    <2>2. ASSUME NEW u \in Threads, NEW v \in Threads, adding'[u].step = "link",
                 adding'[v].step = "link", adding'[u].old = adding'[v].old
          PROVE  u = v
      BY <1>7, <2>2 DEF AdderInv
    <2>3. QED
      BY <2>1, <2>2 DEF OneLinkEach
  <1>9. \A d \in Slots : Succ'[d] = Succ[d]
    <2> TAKE d \in Slots
    <2>1. CASE d = s
      <3>1. SuccIn(mem', adding')[s] = c
        BY <1>2, <1>3, <1>4, <1>8, SuccIs
      <3>2. QED
        BY <1>6, <2>1, <3>1 DEF Succ, SuccIn
    <2>2. CASE d # s
      <3>1. SameLinks(adding, adding', d)
        BY <1>5, <2>2 DEF SameLinks, s
      <3>2. OneLinkEach(mem, adding) /\ mem \in [Slots -> Cells \cup {Nil, Sentinel}]
        BY ShapeSucc, TypeFacts
      <3>3. mem'[d] = mem[d]
        BY <1>4, <2>2
      <3>4. QED
        BY <1>4, <1>8, <3>1, <3>2, <3>3, SameSlot
    <2>3. QED
      BY <2>1, <2>2
  <1>10. \A h \in Heads : (mem'[h] = Sentinel <=> mem[h] = Sentinel)
    <2> TAKE h \in Heads
    <2>1. h \in Slots /\ c # Sentinel /\ Nil # Sentinel
      BY <1>2, SlotFacts
    <2>2. CASE h = s
      BY <1>2, <1>4, <2>1, <2>2
    <2>3. CASE h # s
      BY <1>4, <2>1, <2>3
    <2>4. QED
      BY <2>2, <2>3
  <1>11. ReadyHead' = ReadyHead
    BY <1>1, <1>10, SlotFacts DEF ReadyHead, Other, Heads
  <1>12. HeadInv'
    <2>1. ASSUME NEW d \in Cells PROVE mem'[d] # Sentinel
      <3>1. d \in Slots /\ mem[d] # Sentinel /\ c # Sentinel
        BY <1>2, SlotFacts DEF HeadInv
      <3>2. CASE d = s
        BY <1>4, <3>1, <3>2
      <3>3. CASE d # s
        BY <1>4, <3>1, <3>3
      <3>4. QED
        BY <3>2, <3>3
    <2>2. step = "drain" => (mem'[H1] = Sentinel <=> mem'[H2] # Sentinel)
      BY <1>10 DEF HeadInv, Heads
    <2>3. active \in Heads /\ Other(active) \in Heads /\ Other(active) # active
          /\ active \in Slots /\ Other(active) \in Slots /\ Other(active)' = Other(active)
      BY <1>1, SlotFacts DEF TypeOK, Other
    <2>4. step \in {"open", "swapHead", "storeHead"} => mem'[active] = mem[active]
      <3>1. step \in {"open", "swapHead", "storeHead"} => mem[active] # Nil
        BY SlotFacts DEF HeadInv
      <3>2. QED
        BY <1>2, <1>4, <2>3, <3>1
    <2>5. step # "drain" => mem'[Other(active)] = mem[Other(active)]
      <3>1. CASE step \in {"open", "swapHead"}
        <4>1. ReadyHead = active
          BY <3>1, ReadyFacts
        <4>2. Other(active) # s
          BY <1>2, <1>3, <2>3, <4>1, SlotFacts
        <4>3. QED
          BY <1>4, <2>3, <4>2
      <3>2. CASE Switching
        <4>1. ReadyHead = Other(active) /\ Q = <<>>
          BY <3>2, ReadyFacts DEF TailInv
        <4>2. Succ[ReadyHead] = Nil
          BY <4>1, NoChain DEF ChainInv
        <4>3. s # ReadyHead
          BY <1>2, <1>6, <4>2, SlotFacts
        <4>4. QED
          BY <1>4, <2>3, <4>1, <4>3
      <3>3. QED
        BY <3>1, <3>2 DEF TypeOK, Switching
    <2>6. step \in {"swapOldTail", "storeOldTail"} => mem'[active] = Sentinel
      BY <1>10, <2>3 DEF HeadInv
    <2>7. QED
      BY <1>1, <2>1, <2>2, <2>3, <2>4, <2>5, <2>6 DEF HeadInv
  <1>13. ChainInv(O, Q, R)'
    <2>1. \A d \in Listed(O, Q, R) : d \in Slots
      BY <1>3, SlotFacts DEF S
    <2>2. QED
      BY <1>1, <1>3, <1>9, <1>11, <2>1, ChainsStay
  <1>14. TailInv(O, Q, R)' /\ LastInv(O, R)'
    BY <1>1, <1>11 DEF TailInv, LastInv, Switching, LastUnset
  <1>15. TypeOK'
    BY <1>1, <1>4, <1>5 DEF TypeOK, Additions
  <1>16. ASSUME NEW listed, listed = S PROVE AdderInv(listed)'
    <2>1. \A u \in Threads : adding'[u].step = "none" => adding'[u] = NotAdding
      BY <1>5 DEF AdderInv
    <2>2. ASSUME NEW u \in Threads, adding'[u].step \in {"swap", "store"}
          PROVE  /\ adding'[u].cell \in Cells \ listed /\ mem'[adding'[u].cell] = Nil
                 /\ adding'[u] = adding[u]
      <3>1. adding'[u] = adding[u] /\ u # t
        BY <1>5, <2>2
      <3>2. adding[u].cell \in Cells \ S /\ mem[adding[u].cell] = Nil
        BY <2>2, <3>1 DEF AdderInv, S
      <3>3. adding[u].cell # s /\ adding[u].cell \in Slots
        BY <1>2, <1>3, <3>2, SlotFacts
      <3>4. QED
        BY <1>4, <1>16, <3>1, <3>2, <3>3
    <2>3. \A u \in Threads : adding'[u].step = "store" => adding'[u].old = tail' /\ ~build'.atomic
      BY <1>1, <2>2 DEF AdderInv
    <2>4. ASSUME NEW u \in Threads, adding'[u].step = "link"
          PROVE  /\ adding'[u].cell \in Cells
                 /\ adding'[u].old \in {ReadyHead'} \cup listed
                 /\ mem'[adding'[u].old] = Nil
      BY <1>7, <1>11, <1>16, <2>4
    <2>5. ASSUME NEW u \in Threads, NEW v \in Threads, u # v,
                 adding'[u].step # "none", adding'[v].step # "none"
          PROVE  adding'[u].cell # adding'[v].cell
      BY <1>5, <2>5 DEF AdderInv
    <2>6. ASSUME NEW u \in Threads, NEW v \in Threads, adding'[u].step = "link",
                 adding'[v].step = "link", adding'[u].old = adding'[v].old
          PROVE  u = v
      BY <1>8, <2>6 DEF OneLinkEach
    <2>7. QED
      BY <2>1, <2>2, <2>3, <2>4, <2>5, <2>6 DEF AdderInv
  <1>17. AdderInv(Listed(O, Q, R))'
    BY <1>16 DEF S, Listed, AdderInv
  <1>18. ControlInv(O, R)'
    <2>1. \A u \in Threads : adding'[u] # NotAdding => adding[u] # NotAdding
      BY <1>5
    <2>2. LoopReady => LoopReady'
      BY <1>5, SlotFacts DEF LoopReady
    <2>3. QED
      BY <1>1, <2>1, <2>2 DEF ControlInv
  <1>19. InHand' = InHand
    <2>1. CASE t = Loop
      BY <1>1, <1>5, <2>1 DEF InHand
    <2>2. CASE t # Loop
      <3>1. adding'[Loop] = adding[Loop]
        BY <1>5, <2>2, SlotFacts
      <3>2. QED
        BY <1>1, <3>1 DEF InHand
    <2>3. QED
      BY <2>1, <2>2
  <1>20. QED
    BY <1>12, <1>13, <1>14, <1>15, <1>17, <1>18, <1>19

LEMMA LinkIsSimulated ==
  ASSUME Inv, NEW t \in Threads, Link(t) PROVE Simulated
  <1>1. PICK O, Q, R \in Seq(Cells) : Shape(O, Q, R)
    BY DEF Inv
  <1>2. UNCHANGED <<op, target, running>>
    BY DEF Link, resetVars
  <1>3. QED
    BY <1>1, <1>2, LinkStep, SameLists

-----------------------------------------------------------------------------
(* The steps of resetDelayedQueue.                                         *)

\* A head that is opened or closed is not one at which a cell is to be linked.
LEMMA HeadWritten ==
  ASSUME NEW O \in Seq(Cells), NEW Q \in Seq(Cells), NEW R \in Seq(Cells), Shape(O, Q, R),
         NEW h \in Heads, NEW v \in {Nil, Sentinel}, mem' = [mem EXCEPT ![h] = v],
         mem[h] # Nil, UNCHANGED adding
  PROVE  /\ mem' \in [Slots -> Cells \cup {Nil, Sentinel}]
         /\ mem'[h] = v /\ \A d \in Slots \ {h} : mem'[d] = mem[d]
         /\ \A t \in Threads : adding[t].step = "link" => adding[t].old # h
         /\ \A d \in Slots \ {h} : Succ'[d] = Succ[d]
  <1>1. h \in Slots /\ mem \in [Slots -> Cells \cup {Nil, Sentinel}]
    BY SlotFacts, TypeFacts DEF Shape
  <1>2. /\ mem' \in [Slots -> Cells \cup {Nil, Sentinel}]
        /\ mem'[h] = v /\ \A d \in Slots \ {h} : mem'[d] = mem[d]
    BY <1>1
  <1>3. \A t \in Threads : adding[t].step = "link" => adding[t].old # h
    BY DEF Shape, AdderInv
  <1>4. OneLinkEach(mem, adding)
    BY ShapeSucc
  <1>5. OneLinkEach(mem', adding')
    <2>1. ASSUME NEW t \in Threads, adding[t].step = "link"
          PROVE  adding[t].cell \in Cells /\ adding[t].old \in Slots /\ mem'[adding[t].old] \notin Cells
      BY <1>2, <1>3, <1>4, <2>1 DEF OneLinkEach
    <2>2. adding' = adding
      OBVIOUS
    <2>3. QED
      BY <1>4, <2>1, <2>2 DEF OneLinkEach
  <1>6. ASSUME NEW d \in Slots \ {h} PROVE Succ'[d] = Succ[d]
    <2>1. SameLinks(adding, adding', d)
      BY DEF SameLinks
    <2>2. QED
      BY <1>1, <1>2, <1>4, <1>5, <2>1, SameSlot
  <1>7. QED
    BY <1>2, <1>3, <1>6

\* The additions under way when a step of the loop's task moves lists.
LEMMA AdderStays ==
  ASSUME NEW S, NEW listed \in SUBSET S, AdderInv(S), UNCHANGED <<adding, build>>,
         \A d \in Cells : mem'[d] = mem[d],
         \A t \in Threads : adding[t].step = "link" =>
           adding[t].old \in {ReadyHead'} \cup listed /\ mem'[adding[t].old] = Nil,
         \A t \in Threads : adding[t].step = "store" => tail' = tail
  PROVE  AdderInv(listed)'
  <1>1. adding' = adding /\ build' = build
    OBVIOUS
  <1>2. ASSUME NEW t \in Threads, adding[t].step \in {"swap", "store"}
        PROVE  adding[t].cell \in Cells \ listed /\ mem'[adding[t].cell] = Nil
    BY <1>2 DEF AdderInv
  <1>3. \A t \in Threads : adding[t].step = "link" => adding[t].cell \in Cells
    BY DEF AdderInv
  <1>4. \A t \in Threads : adding[t].step = "store" => adding[t].old = tail' /\ ~build.atomic
    BY DEF AdderInv
  <1>5. /\ \A t \in Threads : adding[t].step = "none" => adding[t] = NotAdding
        /\ \A t, u \in Threads :
             t # u /\ adding[t].step # "none" /\ adding[u].step # "none" =>
               adding[t].cell # adding[u].cell
        /\ \A t, u \in Threads :
             adding[t].step = "link" /\ adding[u].step = "link" /\ adding[t].old = adding[u].old
               => t = u
    BY DEF AdderInv
  <1>6. QED
    BY <1>1, <1>2, <1>3, <1>4, <1>5 DEF AdderInv

LEMMA HeadFacts ==
  ASSUME TypeOK
  PROVE  /\ active \in Heads /\ active \in Slots /\ active \notin Cells
         /\ Other(active) \in Heads /\ Other(active) \in Slots /\ Other(active) \notin Cells
         /\ Other(active) # active /\ Heads = {active, Other(active)}
         /\ active' = active => Other(active)' = Other(active)
         /\ \A d \in Cells : d \in Slots \ {active} /\ d \in Slots \ {Other(active)}
  BY SlotFacts DEF TypeOK, Other

\* The head that is not the sentinel.
LEMMA ReadyIs ==
  ASSUME NEW h \in Heads, step \notin {"open", "swapHead", "storeHead"},
         mem[h] # Sentinel, mem[Other(h)] = Sentinel
  PROVE  ReadyHead = h
  BY SlotFacts DEF ReadyHead, Other, Heads

LEMMA ReadyIsNext ==
  ASSUME NEW h \in Heads, step' \notin {"open", "swapHead", "storeHead"},
         mem'[h] # Sentinel, mem'[Other(h)] = Sentinel
  PROVE  ReadyHead' = h
  BY SlotFacts DEF ReadyHead, Other, Heads

LEMMA OpenInactiveIsSimulated ==
  ASSUME Inv, OpenInactive PROVE Simulated
  <1>1. PICK O, Q, R \in Seq(Cells) : Shape(O, Q, R)
    BY DEF Inv
  <1> DEFINE o == Other(active)
  <1>2. /\ step = "open" /\ step' = "swapHead" /\ mem' = [mem EXCEPT ![o] = Nil]
        /\ UNCHANGED <<build, tail, adding, op, active, cur, last, target, running>>
    BY DEF OpenInactive
  <1>3. mem[active] \in Cells /\ mem[o] = Sentinel /\ mem[o] # Nil
    BY <1>1, <1>2, SlotFacts DEF Shape, HeadInv
  <1>4. /\ active \in Heads /\ active \in Slots /\ o \in Heads /\ o # active
        /\ o' = o /\ \A d \in Cells : d \in Slots \ {o}
    BY <1>1, <1>2, HeadFacts DEF Shape
  <1> HIDE DEF o
  <1>5. /\ mem' \in [Slots -> Cells \cup {Nil, Sentinel}]
        /\ mem'[o] = Nil /\ \A d \in Slots \ {o} : mem'[d] = mem[d]
        /\ \A t \in Threads : adding[t].step = "link" => adding[t].old # o
        /\ \A d \in Slots \ {o} : Succ'[d] = Succ[d]
    BY <1>1, <1>2, <1>3, <1>4, HeadWritten
  <1>6. ReadyHead = active /\ ReadyHead' = active
    BY <1>2 DEF ReadyHead
  <1>7. ChainInv(O, Q, R)'
    <2>1. \A d \in Listed(O, Q, R) : Succ'[d] = Succ[d]
      BY <1>4, <1>5, RangeIs DEF Listed
    <2>2. Succ[ReadyHead]' = Succ[ReadyHead]
      BY <1>4, <1>5, <1>6
    <2>3. QED
      BY <1>1, <1>2, <2>1, <2>2, ChainsStay DEF Shape
  <1>8. TailInv(O, Q, R)' /\ LastInv(O, R)'
    BY <1>1, <1>2, <1>6 DEF Shape, TailInv, LastInv, Switching, LastUnset
  <1>9. HeadInv'
    <2>1. \A d \in Cells : mem'[d] # Sentinel
      BY <1>1, <1>4, <1>5 DEF Shape, HeadInv
    <2>2. mem'[active] \in Cells
      BY <1>3, <1>4, <1>5
    <2>3. Other(active)' = o
      BY <1>4 DEF o
    <2>4. QED
      BY <1>2, <1>5, <2>1, <2>2, <2>3 DEF HeadInv
  <1>10. ASSUME NEW S, AdderInv(S), S \subseteq Cells PROVE AdderInv(S)'
    <2>1. \A t \in Threads : adding[t].step = "link" =>
            adding[t].old \in {ReadyHead'} \cup S /\ mem'[adding[t].old] = Nil
      <3> TAKE t \in Threads
      <3> HAVE adding[t].step = "link"
      <3>1. adding[t].old \in {active} \cup S /\ mem[adding[t].old] = Nil /\ adding[t].old # o
        BY <1>5, <1>6, <1>10 DEF AdderInv
      <3>2. adding[t].old \in Slots \ {o}
        BY <1>4, <1>10, <3>1
      <3>3. QED
        BY <1>5, <1>6, <3>1, <3>2
    <2>2. \A d \in Cells : mem'[d] = mem[d]
      BY <1>4, <1>5
    <2>3. QED
      BY <1>2, <1>10, <2>1, <2>2, AdderStays
  <1>11. AdderInv(Listed(O, Q, R))'
    <2>1. Listed(O, Q, R) \subseteq Cells
      BY RangeIs DEF Listed
    <2>2. QED
      BY <1>1, <1>10, <2>1 DEF Shape, Listed, AdderInv
  <1>12. ControlInv(O, R)' /\ TypeOK'
    BY <1>1, <1>2, <1>5 DEF Shape, ControlInv, LoopReady, TypeOK
  <1>13. Shape(O, Q, R)'
    BY <1>7, <1>8, <1>9, <1>11, <1>12 DEF Shape
  <1>14. QED
    BY <1>1, <1>2, <1>13, SameLists DEF InHand

\* The list behind the ready head is checked out, and the other head is ready.
LEMMA SwapHeadFacts ==
  ASSUME NEW O \in Seq(Cells), NEW Q \in Seq(Cells), NEW R \in Seq(Cells), Shape(O, Q, R),
         SwapHead
  PROVE  /\ op \in Ops /\ LoopReady /\ cur[op] = Nil
         /\ cur' = [cur EXCEPT ![op] = First(Q)] /\ Q # <<>>
         /\ tail = End(Nil, Q)
         /\ step' = (IF build.atomic THEN "swapOldTail" ELSE "storeHead")
         /\ ReadyHead = active /\ ReadyHead' = Other(active) /\ Succ'[Other(active)] = Nil
         /\ \A d \in Cells : mem'[d] = mem[d] /\ Succ'[d] = Succ[d]
         /\ mem' \in [Slots -> Cells \cup {Nil, Sentinel}] /\ HeadInv'
         /\ \A S \in SUBSET Cells : AdderInv(S) => AdderInv(S)'
  <1> DEFINE o == Other(active)
  <1> USE DEF Shape
  <1>1. /\ step = "swapHead" /\ cur' = [cur EXCEPT ![op] = mem[active]]
        /\ step' = (IF build.atomic THEN "swapOldTail" ELSE "storeHead")
        /\ build.atomic => mem' = [mem EXCEPT ![active] = Sentinel]
        /\ ~build.atomic => mem' = mem
        /\ UNCHANGED <<build, tail, adding, op, active, last, target, running>>
    BY DEF SwapHead
  <1>2. /\ active \in Heads /\ active \in Slots /\ o \in Heads /\ o \in Slots /\ o # active
        /\ o' = o /\ active \notin Cells /\ o \notin Cells
        /\ \A d \in Cells : d \in Slots \ {active}
    BY <1>1, HeadFacts
  <1>3. mem[active] \in Cells /\ mem[o] = Nil /\ ReadyHead = active
    BY <1>1, ReadyFacts DEF HeadInv
  <1> HIDE DEF o
  <1>4. /\ mem' \in [Slots -> Cells \cup {Nil, Sentinel}]
        /\ \A d \in Slots \ {active} : mem'[d] = mem[d] /\ Succ'[d] = Succ[d]
        /\ build.atomic => mem'[active] = Sentinel
        /\ ~build.atomic => mem'[active] = mem[active]
    <2>1. CASE build.atomic
      <3>1. mem[active] # Nil /\ mem' = [mem EXCEPT ![active] = Sentinel]
        BY <1>1, <1>3, <2>1, SlotFacts
      <3>2. /\ mem' \in [Slots -> Cells \cup {Nil, Sentinel}]
            /\ mem'[active] = Sentinel /\ \A d \in Slots \ {active} : mem'[d] = mem[d]
            /\ \A d \in Slots \ {active} : Succ'[d] = Succ[d]
        BY <1>1, <1>2, <3>1, HeadWritten
      <3>3. QED
        BY <2>1, <3>2
    <2>2. CASE ~build.atomic
      <3>1. mem' = mem /\ adding' = adding
        BY <1>1, <2>2
      <3>2. Succ' = Succ
        BY <3>1 DEF Succ
      <3>3. QED
        BY <2>2, <3>1, <3>2, TypeFacts
    <2>3. QED
      BY <2>1, <2>2
  <1>5. Succ[active] = mem[active]
    <2>1. OneLinkEach(mem, adding) /\ mem \in [Slots -> Cells \cup {Nil, Sentinel}]
      BY ShapeSucc, TypeFacts
    <2>2. SuccIn(mem, adding)[active] = mem[active]
      BY <1>2, <1>3, <2>1, SuccIs
    <2>3. QED
      BY <2>2, SuccIsSuccIn
  <1>6. First(Q) = mem[active] /\ Q # <<>>
    <2>1. First(Q) = mem[active]
      BY <1>3, <1>5 DEF ChainInv
    <2>2. QED
      BY <1>3, <2>1, NoChain, SlotFacts
  <1>7. ReadyHead' = o
    <2>1. CASE build.atomic
      <3>1. step' \notin {"open", "swapHead", "storeHead"} /\ mem'[o] # Sentinel
            /\ mem'[active] = Sentinel /\ Other(o) = active
        BY <1>1, <1>2, <1>3, <1>4, <2>1, SlotFacts DEF o
      <3>2. QED
        BY <1>2, <3>1, ReadyIsNext
    <2>2. CASE ~build.atomic
      BY <1>1, <1>2, <2>2 DEF ReadyHead, o
    <2>3. QED
      BY <2>1, <2>2
  <1>8. \A t \in Threads : adding[t].step = "link" =>
          adding[t].old # o /\ adding[t].old # active /\ mem[adding[t].old] = Nil
    <2> TAKE t \in Threads
    <2> HAVE adding[t].step = "link"
    <2>1. adding[t].old \in {active} \cup Listed(O, Q, R) /\ mem[adding[t].old] = Nil
      BY <1>3 DEF AdderInv
    <2>2. Listed(O, Q, R) \subseteq Cells
      BY RangeIs DEF Listed
    <2>3. QED
      BY <1>2, <1>3, <2>1, <2>2, SlotFacts
  <1>9. Succ'[o] = Nil
    <2>1. Succ[o] = Nil
      BY <1>2, <1>3, <1>8, ShapeSucc, SuccIs, SuccIsSuccIn, TypeFacts, SlotFacts DEF NoLinkAt
    <2>2. QED
      BY <1>2, <1>4, <2>1
  <1>10. HeadInv'
    <2>1. \A d \in Cells : mem'[d] # Sentinel
      BY <1>2, <1>4 DEF HeadInv
    <2>2. mem'[o] = Nil /\ Other(active)' = o
      BY <1>2, <1>3, <1>4 DEF o
    <2>3. CASE build.atomic
      BY <1>1, <1>4, <2>1, <2>2, <2>3 DEF HeadInv
    <2>4. CASE ~build.atomic
      BY <1>1, <1>3, <1>4, <2>1, <2>2, <2>4 DEF HeadInv
    <2>5. QED
      BY <2>3, <2>4
  <1>11. ASSUME NEW S \in SUBSET Cells, AdderInv(S) PROVE AdderInv(S)'
    <2>1. \A t \in Threads : adding[t].step = "link" =>
            adding[t].old \in {ReadyHead'} \cup S /\ mem'[adding[t].old] = Nil
      <3> TAKE t \in Threads
      <3> HAVE adding[t].step = "link"
      <3>1. adding[t].old \in {active} \cup S /\ adding[t].old # active /\ mem[adding[t].old] = Nil
        BY <1>3, <1>8, <1>11 DEF AdderInv
      <3>2. adding[t].old \in Slots \ {active}
        BY <1>2, <3>1
      <3>3. QED
        BY <1>4, <3>1, <3>2
    <2>2. \A d \in Cells : mem'[d] = mem[d]
      BY <1>2, <1>4
    <2>3. QED
      BY <1>1, <1>11, <2>1, <2>2, AdderStays
  <1>12. op \in Ops /\ LoopReady /\ cur[op] = Nil
    BY <1>1 DEF ControlInv
  <1>13. tail = End(Nil, Q)
    BY <1>1, <1>6 DEF TailInv, Switching, End
  <1>14. QED
    BY <1>1, <1>2, <1>3, <1>4, <1>6, <1>7, <1>9, <1>10, <1>11, <1>12, <1>13 DEF o

LEMMA SwapHeadIsSimulated ==
  ASSUME Inv, SwapHead
  PROVE  Simulated /\ (op = "remove" /\ running = Nil => target \notin Range(Registered'))
  <1>1. PICK O, Q, R \in Seq(Cells) : Shape(O, Q, R)
    BY DEF Inv
  <1>2. /\ op \in Ops /\ LoopReady /\ cur[op] = Nil
        /\ cur' = [cur EXCEPT ![op] = First(Q)] /\ Q # <<>>
        /\ tail = End(Nil, Q)
        /\ step' = (IF build.atomic THEN "swapOldTail" ELSE "storeHead")
        /\ ReadyHead = active /\ ReadyHead' = Other(active) /\ Succ'[Other(active)] = Nil
        /\ \A d \in Cells : mem'[d] = mem[d] /\ Succ'[d] = Succ[d]
        /\ mem' \in [Slots -> Cells \cup {Nil, Sentinel}] /\ HeadInv'
        /\ \A S \in SUBSET Cells : AdderInv(S) => AdderInv(S)'
    BY <1>1, SwapHeadFacts
  <1>3. /\ step = "swapHead"
        /\ UNCHANGED <<build, tail, adding, op, active, last, target, running>>
    BY DEF SwapHead
  <1>4. cur \in [Ops -> Cells \cup {Nil}] /\ First(Q) \in Cells
    BY <1>1, <1>2, TypeFacts, EndInRange DEF Shape
  <1>5. /\ cur'[op] = First(Q) /\ \A x \in Ops \ {op} : cur'[x] = cur[x]
        /\ cur' \in [Ops -> Cells \cup {Nil}]
    BY <1>2, <1>4
  <1>6. TypeOK'
    BY <1>1, <1>2, <1>3, <1>5 DEF Shape, TypeOK
  <1>7. Chained(Succ', O) /\ Chained(Succ', Q) /\ Chained(Succ', R)
    BY <1>1, <1>2, RangeIs, ChainStays DEF Shape, ChainInv
  <1>8. /\ op = "process" => O = <<>> /\ R = <<>>
        /\ op = "remove" => R = <<>>
    <2>1. \A L \in Seq(Cells) : First(L) = Nil => L = <<>>
      BY EndInRange, SlotFacts
    <2>2. QED
      BY <1>1, <1>2, <2>1 DEF Shape, ChainInv, ControlInv
  <1>9. InHand' = <<>> /\ InHand = <<>>
    BY <1>2, <1>3 DEF InHand, LoopReady, NotAdding
  <1>10. Switching'
    BY <1>2 DEF Switching
  <1>11. ASSUME NEW S, S = Listed(O, Q, R) PROVE AdderInv(S)'
    <2>1. S \subseteq Cells /\ AdderInv(S)
      BY <1>1, <1>11, RangeIs DEF Listed, Shape
    <2>2. QED
      BY <1>2, <2>1
  <1>12. CASE op = "process"
    <2>1. ChainInv(Q, <<>>, R)'
      BY <1>1, <1>2, <1>5, <1>7, <1>8, <1>12, NoChain DEF Shape, ChainInv, Ops
    <2>2. TailInv(Q, <<>>, R)' /\ LastInv(Q, R)'
      BY <1>2, <1>3, <1>8, <1>10, <1>12 DEF TailInv, LastInv, LastUnset
    <2>3. AdderInv(Listed(Q, <<>>, R))'
      <3>1. Listed(Q, <<>>, R) = Listed(O, Q, R)
        BY <1>8, <1>12, NoChain DEF Listed
      <3>2. QED
        BY <1>11, <3>1 DEF Listed, AdderInv
    <2>4. ControlInv(Q, R)'
      BY <1>1, <1>2, <1>3, <1>12 DEF Shape, ControlInv, LoopReady
    <2>5. Shape(Q, <<>>, R)'
      BY <1>2, <1>6, <2>1, <2>2, <2>3, <2>4 DEF Shape
    <2>6. Registered = O \o Q /\ Inv' /\ Registered' = Q \o <<>>
      BY <1>1, <1>3, <1>12, <2>5, RegisteredIs, InvIs, NoChain DEF ShapeGivesQueue
    <2>7. O \o Q = Q /\ Q \o <<>> = Q
      BY <1>8, <1>12, ConcatEmptySeq
    <2>8. QED
      BY <1>3, <1>12, <2>6, <2>7, FifoSteps DEF Untouched
  <1>13. CASE op = "remove"
    <2>1. ChainInv(O, <<>>, Q)'
      BY <1>1, <1>2, <1>5, <1>7, <1>8, <1>13, NoChain DEF Shape, ChainInv, Ops
    <2>2. TailInv(O, <<>>, Q)' /\ LastInv(O, Q)'
      BY <1>1, <1>2, <1>3, <1>10, <1>13 DEF Shape, TailInv, LastInv, LastUnset
    <2>3. AdderInv(Listed(O, <<>>, Q))'
      <3>1. Listed(O, <<>>, Q) = Listed(O, Q, R)
        BY <1>8, <1>13, NoChain DEF Listed
      <3>2. QED
        BY <1>11, <3>1 DEF Listed, AdderInv
    <2>4. ControlInv(O, Q)'
      BY <1>1, <1>2, <1>3, <1>13 DEF Shape, ControlInv, LoopReady
    <2>5. Shape(O, <<>>, Q)'
      BY <1>2, <1>6, <2>1, <2>2, <2>3, <2>4 DEF Shape
    <2>6. /\ Registered = ((O \o Q) \o <<>>) \o RemoveFirst(R, target)
          /\ Inv' /\ Registered' = ((O \o <<>>) \o <<>>) \o RemoveFirst(Q, target)
      <3>1. Registered = ((O \o Q) \o InHand) \o RemoveFirst(R, target)
        BY <1>1, <1>13, RegisteredIs DEF ShapeGivesQueue
      <3>2. <<>> \in Seq(Cells) /\ op' = "remove" /\ target' = target
        BY <1>3, <1>13
      <3>3. Inv' /\ Registered' = ((O \o <<>>) \o InHand') \o RemoveFirst(Q, target')
        BY <2>5, <3>2, InvIs
      <3>4. QED
        BY <1>9, <3>1, <3>2, <3>3
    <2>7. Registered = O \o Q /\ Registered' = O \o RemoveFirst(Q, target)
      <3>1. O \o Q \in Seq(Cells)
        BY ConcatRange
      <3>2. /\ ((O \o Q) \o <<>>) \o <<>> = O \o Q
            /\ (O \o <<>>) \o <<>> = O
        BY <3>1, ConcatEmptySeq
      <3>3. RemoveFirst(R, target) = <<>>
        BY <1>8, <1>13, RemoveFromNone
      <3>4. QED
        BY <2>6, <3>2, <3>3
    <2>8. target \in Cells
      BY <1>1, <1>13 DEF Shape, ControlInv
    <2>9. ASSUME target \in Range(Q) PROVE Simulated
      <3>1. target \notin Range(O) /\ target \in Range(O \o Q)
        BY <1>1, <2>9, ConcatRange DEF Shape, ChainInv
      <3>2. Registered' = RemoveFirst(Registered, target)
        BY <2>7, <3>1, RemoveBehind
      <3>3. QED
        BY <1>3, <2>6, <2>7, <3>1, <3>2, FifoSteps
    <2>10. ASSUME target \notin Range(Q) PROVE Simulated
      <3>1. Registered' = Registered
        BY <2>7, <2>10, RemoveAbsent
      <3>2. QED
        BY <1>3, <2>6, <3>1, FifoSteps DEF Untouched
    <2>11. ASSUME running = Nil PROVE target \notin Range(Registered')
      <3>1. O = <<>> /\ Distinct(Q)
        BY <1>1, <1>13, <2>11 DEF Shape, ControlInv, ChainInv, Chained
      <3>2. RemoveFirst(Q, target) \in Seq(Cells) /\ target \notin Range(RemoveFirst(Q, target))
        BY <3>1, RemoveType, RemovedIsGone
      <3> DEFINE V == RemoveFirst(Q, target)
      <3>3. V \in Seq(Cells) /\ target \notin Range(V) /\ Registered' = <<>> \o V
        BY <2>7, <3>1, <3>2
      <3> HIDE DEF V
      <3>4. QED
        BY <3>3, ConcatEmptySeq
    <2>12. QED
      BY <2>9, <2>10, <2>11
  <1>14. QED
    BY <1>2, <1>12, <1>13 DEF Ops

LEMMA StoreHeadIsSimulated ==
  ASSUME Inv, StoreHead PROVE Simulated
  <1>1. PICK O, Q, R \in Seq(Cells) : Shape(O, Q, R)
    BY DEF Inv
  <1> DEFINE o == Other(active)
  <1>2. /\ step = "storeHead" /\ step' = "swapOldTail"
        /\ mem' = [mem EXCEPT ![active] = Sentinel]
        /\ UNCHANGED <<build, tail, adding, op, active, cur, last, target, running>>
    BY DEF StoreHead
  <1>3. mem[active] \in Cells /\ mem[o] = Nil /\ mem[active] # Nil /\ ReadyHead = o
    BY <1>1, <1>2, SlotFacts DEF Shape, HeadInv, ReadyHead
  <1>4. /\ active \in Heads /\ active \in Slots /\ o \in Heads /\ o \in Slots /\ o # active
        /\ o' = o /\ \A d \in Cells : d \in Slots \ {active}
    BY <1>1, <1>2, HeadFacts DEF Shape
  <1>5. Other(o) = active
    BY <1>4, SlotFacts
  <1> HIDE DEF o
  <1>6. /\ mem' \in [Slots -> Cells \cup {Nil, Sentinel}]
        /\ mem'[active] = Sentinel /\ \A d \in Slots \ {active} : mem'[d] = mem[d]
        /\ \A t \in Threads : adding[t].step = "link" => adding[t].old # active
        /\ \A d \in Slots \ {active} : Succ'[d] = Succ[d]
    BY <1>1, <1>2, <1>3, <1>4, HeadWritten
  <1>7. mem'[o] = Nil
    BY <1>3, <1>4, <1>6
  <1>8. ReadyHead' = o
    <2>1. step' \notin {"open", "swapHead", "storeHead"} /\ mem'[o] # Sentinel
      BY <1>2, <1>7, SlotFacts
    <2>2. QED
      BY <1>4, <1>5, <1>6, <2>1, ReadyIsNext
  <1>9. ChainInv(O, Q, R)'
    <2>1. \A d \in Listed(O, Q, R) : Succ'[d] = Succ[d]
      BY <1>4, <1>6, RangeIs DEF Listed
    <2>2. Succ[ReadyHead]' = Succ[ReadyHead]
      BY <1>3, <1>4, <1>6, <1>8
    <2>3. QED
      BY <1>1, <1>2, <2>1, <2>2, ChainsStay DEF Shape
  <1>10. TailInv(O, Q, R)' /\ LastInv(O, R)'
    BY <1>1, <1>2, <1>3, <1>8 DEF Shape, TailInv, LastInv, Switching, LastUnset
  <1>11. HeadInv'
    <2>1. \A d \in Cells : mem'[d] # Sentinel
      BY <1>1, <1>4, <1>6 DEF Shape, HeadInv
    <2>2. Other(active)' = o
      BY <1>4 DEF o
    <2>3. QED
      BY <1>2, <1>6, <1>7, <2>1, <2>2 DEF HeadInv
  <1>12. ASSUME NEW S, AdderInv(S), S \subseteq Cells PROVE AdderInv(S)'
    <2>1. \A t \in Threads : adding[t].step = "link" =>
            adding[t].old \in {ReadyHead'} \cup S /\ mem'[adding[t].old] = Nil
      <3> TAKE t \in Threads
      <3> HAVE adding[t].step = "link"
      <3>1. adding[t].old \in {o} \cup S /\ mem[adding[t].old] = Nil
        BY <1>3, <1>12 DEF AdderInv
      <3>2. adding[t].old \in Slots \ {active}
        BY <1>4, <1>12, <3>1
      <3>3. QED
        BY <1>6, <1>8, <3>1, <3>2
    <2>2. \A d \in Cells : mem'[d] = mem[d]
      BY <1>4, <1>6
    <2>3. QED
      BY <1>2, <1>12, <2>1, <2>2, AdderStays
  <1>13. AdderInv(Listed(O, Q, R))'
    <2>1. Listed(O, Q, R) \subseteq Cells
      BY RangeIs DEF Listed
    <2>2. QED
      BY <1>1, <1>12, <2>1 DEF Shape, Listed, AdderInv
  <1>14. ControlInv(O, R)' /\ TypeOK'
    BY <1>1, <1>2, <1>6 DEF Shape, ControlInv, LoopReady, TypeOK
  <1>15. Shape(O, Q, R)'
    BY <1>9, <1>10, <1>11, <1>13, <1>14 DEF Shape
  <1>16. QED
    BY <1>1, <1>2, <1>15, SameLists DEF InHand

\* The tail is moved to the head that is ready now, and last is set.
LEMMA OldTailIsSimulated ==
  ASSUME Inv, SwapOldTail \/ StoreOldTail PROVE Simulated
  <1>1. PICK O, Q, R \in Seq(Cells) : Shape(O, Q, R)
    BY DEF Inv
  <1> DEFINE o == Other(active)
  <1>2. /\ step \in {"swapOldTail", "storeOldTail"}
        /\ step' \in {"storeOldTail", "drain"}
        /\ step' = "drain" => tail' = o
        /\ step' # "drain" => tail' = tail /\ ~build.atomic
        /\ step = "swapOldTail" => last' = [last EXCEPT ![op] = tail]
        /\ step # "swapOldTail" => last' = last
        /\ step # "swapOldTail" \/ build.atomic => step' = "drain"
        /\ UNCHANGED <<build, mem, adding, op, active, cur, target, running>>
    BY DEF SwapOldTail, StoreOldTail, NewTail
  <1>3. mem[active] = Sentinel /\ mem[o] = Nil
    BY <1>1, <1>2 DEF Shape, HeadInv
  <1>4. /\ o \in Heads /\ o \in Slots /\ o' = o /\ Other(o) = active
        /\ H1 \in {o, active} /\ H2 \in {o, active} /\ H1 # H2 /\ o # active
    <2>1. active \in Heads /\ o \in Heads /\ o \in Slots /\ o # active /\ o' = o
          /\ Heads = {active, o}
      BY <1>1, <1>2, HeadFacts DEF Shape
    <2>2. Other(o) = active
      BY <2>1, SlotFacts
    <2>3. H1 \in Heads /\ H2 \in Heads
      BY DEF Heads
    <2>4. QED
      BY <2>1, <2>2, <2>3, SlotFacts
  <1> HIDE DEF o
  <1>5. ReadyHead = o /\ ReadyHead' = o
    <2>1. step \notin {"open", "swapHead", "storeHead"} /\ mem[o] # Sentinel
      BY <1>2, <1>3, SlotFacts
    <2>2. step' \notin {"open", "swapHead", "storeHead"} /\ mem'[o] # Sentinel
          /\ mem'[Other(o)] = Sentinel
      BY <1>2, <1>3, <1>4, SlotFacts
    <2>3. QED
      BY <1>3, <1>4, <2>1, <2>2, ReadyIs, ReadyIsNext
  <1>6. /\ Switching /\ Q = <<>> /\ op \in Ops /\ LoopReady
        /\ op = "process" => O # <<>> /\ tail = End(Nil, O)
        /\ op = "remove" => R # <<>> /\ tail = End(Nil, R)
    BY <1>1, <1>2 DEF Shape, TailInv, ControlInv, Switching
  <1>7. Succ' = Succ
    BY <1>2 DEF Succ
  <1>8. ChainInv(O, Q, R)'
    BY <1>1, <1>2, <1>5, <1>7, ChainsStay DEF Shape
  <1>9. TailInv(O, Q, R)'
    <2>1. CASE step' = "drain"
      BY <1>2, <1>5, <1>6, <2>1, NoChain DEF TailInv, Switching
    <2>2. CASE step' = "storeOldTail"
      BY <1>2, <1>6, <2>2 DEF TailInv, Switching
    <2>3. QED
      BY <1>2, <2>1, <2>2
  <1>10. LastInv(O, R)'
    <2>1. last \in [Ops -> Slots \cup {Nil}] /\ LastInv(O, R)
      BY <1>1, TypeFacts DEF Shape
    <2>2. CASE step = "swapOldTail"
      <3>1. last'[op] = tail /\ \A x \in Ops \ {op} : last'[x] = last[x]
        BY <1>2, <1>6, <2>1, <2>2
      <3>2. CASE op = "process"
        BY <1>2, <1>6, <2>1, <3>1, <3>2 DEF LastInv, LastUnset, Ops
      <3>3. CASE op = "remove"
        BY <1>2, <1>6, <2>1, <3>1, <3>3 DEF LastInv, LastUnset, Ops
      <3>4. QED
        BY <1>6, <3>2, <3>3 DEF Ops
    <2>3. CASE step # "swapOldTail"
      BY <1>2, <2>1, <2>3 DEF LastInv, LastUnset
    <2>4. QED
      BY <2>2, <2>3
  <1>11. HeadInv'
    <2>1. \A d \in Cells : mem'[d] # Sentinel
      BY <1>1, <1>2 DEF Shape, HeadInv
    <2>2. Other(active)' = o
      BY <1>4 DEF o
    <2>3. mem'[H1] = Sentinel <=> mem'[H2] # Sentinel
      BY <1>2, <1>3, <1>4, SlotFacts
    <2>4. QED
      BY <1>2, <1>3, <2>1, <2>2, <2>3 DEF HeadInv
  <1>12. \A t \in Threads : adding[t].step # "store"
    <2>1. ASSUME NEW t \in Threads, adding[t].step = "store" PROVE FALSE
      <3>1. ~build.atomic /\ adding[t] # NotAdding /\ build \in SerialBuilds
        BY <1>1, <2>1 DEF Shape, AdderInv, ControlInv, NotAdding
      <3>2. t = Loop
        BY <1>1, <3>1 DEF Shape, ControlInv, SerialBuilds
      <3>3. QED
        BY <1>6, <3>1, <3>2 DEF LoopReady
    <2>2. QED
      BY <2>1
  <1>13. ASSUME NEW S, AdderInv(S) PROVE AdderInv(S)'
    <2>1. \A t \in Threads : adding[t].step = "link" =>
            adding[t].old \in {ReadyHead'} \cup S /\ mem'[adding[t].old] = Nil
      BY <1>2, <1>5, <1>13 DEF AdderInv
    <2>2. QED
      BY <1>2, <1>12, <1>13, <2>1, AdderStays
  <1>14. AdderInv(Listed(O, Q, R))'
    BY <1>1, <1>13 DEF Shape, Listed, AdderInv
  <1>15. ControlInv(O, R)'
    BY <1>1, <1>2 DEF Shape, ControlInv, LoopReady
  <1>16. TypeOK'
    <2>1. last' \in [Ops -> Slots \cup {Nil}] /\ tail' \in Slots
      BY <1>1, <1>2, <1>4 DEF Shape, TypeOK
    <2>2. step' \in {"open", "swapHead", "storeHead", "swapOldTail", "storeOldTail", "drain"}
      BY <1>2
    <2>3. QED
      BY <1>1, <1>2, <2>1, <2>2 DEF Shape, TypeOK
  <1>17. Shape(O, Q, R)'
    BY <1>8, <1>9, <1>10, <1>11, <1>14, <1>15, <1>16 DEF Shape
  <1>18. QED
    BY <1>1, <1>2, <1>17, SameLists DEF InHand

\* processDelayed or removeDelayedCallback begins.
LEMMA BeginStep ==
  ASSUME NEW O \in Seq(Cells), NEW Q \in Seq(Cells), NEW R \in Seq(Cells), Shape(O, Q, R),
         NEW o \in Ops, Begin(o), LoopReady, R = <<>>,
         o = "process" => O = <<>>,
         o = "process" => op = "none" /\ target' = Nil,
         o = "remove" => build.removals /\ target' \in Cells,
         op = "none" \/ (op = "process" /\ running # Nil),
         target' \in Cells \cup {Nil},
         UNCHANGED <<build, mem, tail, adding, running>>
  PROVE  Shape(O, Q, R)' /\ cur' = cur
  <1> USE DEF Shape
  <1>1. /\ op' = o /\ cur' = [cur EXCEPT ![o] = Nil] /\ last' = [last EXCEPT ![o] = Nil]
        /\ step' = (IF IsEmpty THEN "drain" ELSE "open")
        /\ active' = ActiveHead
    BY DEF Begin
  <1>2. step = "drain"
    BY DEF ControlInv, Ops
  <1>3. ReadyHead = ActiveHead /\ ReadyHead' = ActiveHead /\ ActiveHead \in Heads
        /\ mem[Other(ActiveHead)] = Sentinel
    <2>1. ReadyHead = ActiveHead
      BY <1>2 DEF ReadyHead, ActiveHead
    <2>2. ReadyHead' = ActiveHead
      BY <1>1 DEF ReadyHead, ActiveHead
    <2>3. QED
      BY <1>2, <2>1, <2>2, SlotFacts DEF ActiveHead, HeadInv, Heads, Other
  <1>4. cur[o] = Nil /\ cur \in [Ops -> Cells \cup {Nil}] /\ last \in [Ops -> Slots \cup {Nil}]
    BY TypeFacts, NoChain DEF ChainInv, Ops
  <1>5. cur' = cur
    BY <1>1, <1>4
  <1>6. \A x \in Ops : x # o => last'[x] = last[x]
    BY <1>1, <1>4
  <1>7. Succ' = Succ
    BY DEF Succ
  <1>8. ChainInv(O, Q, R)'
    BY <1>3, <1>5, <1>7, ChainsStay
  <1>9. TailInv(O, Q, R)'
    BY <1>1, <1>2, <1>3 DEF TailInv, Switching
  <1>10. LastInv(O, R)'
    BY <1>1, <1>2, <1>6 DEF LastInv, LastUnset, Ops
  <1>11. HeadInv'
    <2>1. \A d \in Cells : mem'[d] # Sentinel
      BY DEF HeadInv
    <2>2. mem'[H1] = Sentinel <=> mem'[H2] # Sentinel
      BY <1>2 DEF HeadInv
    <2>3. ~IsEmpty => mem'[active'] \in Cells
      BY <1>1, <1>2, SlotFacts DEF IsEmpty, ActiveHead, HeadInv
    <2>4. Other(active)' = Other(ActiveHead)
      BY <1>1 DEF Other
    <2>5. mem'[Other(active)'] = Sentinel
      BY <1>3, <2>4
    <2>6. QED
      BY <1>1, <2>1, <2>2, <2>3, <2>5 DEF HeadInv
  <1>12. ASSUME NEW S, S = Listed(O, Q, R) PROVE AdderInv(S)'
    <2>1. AdderInv(S)
      BY <1>12
    <2>2. \A t \in Threads : adding[t].step = "link" =>
            adding[t].old \in {ReadyHead'} \cup S /\ mem'[adding[t].old] = Nil
      BY <1>3, <2>1 DEF AdderInv
    <2>3. QED
      BY <2>1, <2>2, AdderStays
  <1>13. AdderInv(Listed(O, Q, R))'
    BY <1>12 DEF Listed, AdderInv
  <1>14. ControlInv(O, R)'
    <2>1. LoopReady'
      BY DEF LoopReady
    <2>2. step' \in {"open", "drain"}
      BY <1>1
    <2>3. QED
      BY <1>1, <1>4, <1>5, <2>1, <2>2 DEF ControlInv, Ops
  <1>15. TypeOK'
    <2>1. last' \in [Ops -> Slots \cup {Nil}] /\ op' \in Ops \cup {"none"}
      BY <1>1, <1>4
    <2>2. active' \in Heads /\ step' \in {"open", "drain"}
      BY <1>1, <1>3
    <2>3. QED
      BY <1>5, <2>1, <2>2 DEF TypeOK
  <1>16. QED
    BY <1>5, <1>8, <1>9, <1>10, <1>11, <1>13, <1>14, <1>15

LEMMA BeginsAreSimulated ==
  ASSUME Inv, Process \/ \E c \in Cells : RemoveDelayed(c)
  PROVE  Simulated /\ Registered' = Registered
  <1>1. PICK O, Q, R \in Seq(Cells) : Shape(O, Q, R)
    BY DEF Inv
  <1>2. \A L \in Seq(Cells) : First(L) = Nil => L = <<>>
    BY EndInRange, SlotFacts
  <1>3. CASE Process
    <2>1. /\ LoopReady /\ op = "none" /\ Begin("process")
          /\ UNCHANGED <<build, mem, tail, adding, target, running>>
      BY <1>3 DEF Process
    <2>2. /\ O = <<>> /\ R = <<>> /\ target' = Nil /\ target' \in Cells \cup {Nil}
          /\ "process" \in Ops
      BY <1>1, <2>1 DEF Shape, ControlInv, TypeOK, Ops
    <2>3. Shape(O, Q, R)' /\ op' = "process"
      BY <1>1, <2>1, <2>2, BeginStep DEF Begin
    <2>4. Registered = O \o Q /\ Registered' = O \o Q /\ Inv'
      BY <1>1, <2>1, <2>3, RegisteredIs, InvIs DEF ShapeGivesQueue
    <2>5. QED
      BY <2>1, <2>4, FifoSteps DEF Untouched
  <1>4. ASSUME NEW c \in Cells, RemoveDelayed(c)
        PROVE  Simulated /\ Registered' = Registered
    <2>1. /\ LoopReady /\ build.removals
          /\ op = "none" \/ (op = "process" /\ running # Nil)
          /\ target' = c /\ Begin("remove")
          /\ UNCHANGED <<build, mem, tail, adding, running>>
      BY <1>4 DEF RemoveDelayed
    <2>2. R = <<>> /\ target' \in Cells \cup {Nil} /\ target' \in Cells /\ "remove" \in Ops
      BY <1>1, <2>1 DEF Shape, ControlInv, Ops
    <2>3. Shape(O, Q, R)' /\ op' = "remove"
      BY <1>1, <2>1, <2>2, BeginStep DEF Begin
    <2>4. InHand' = <<>>
      BY <2>1, SlotFacts DEF InHand, LoopReady, NotAdding
    <2>5. /\ Registered = O \o Q /\ Inv'
          /\ Registered' = ((O \o Q) \o <<>>) \o RemoveFirst(R, target')
      <3>1. op # "remove"
        BY <2>1
      <3>2. Registered = O \o Q
        BY <1>1, <3>1, RegisteredIs DEF ShapeGivesQueue
      <3>3. Inv' /\ Registered' = ((O \o Q) \o InHand') \o RemoveFirst(R, target')
        BY <2>3, InvIs
      <3>4. QED
        BY <2>4, <3>2, <3>3
    <2>6. Registered' = O \o Q
      <3>1. O \o Q \in Seq(Cells)
        BY ConcatRange
      <3>2. RemoveFirst(R, target') = <<>> /\ ((O \o Q) \o <<>>) \o <<>> = O \o Q
        BY <2>2, <3>1, RemoveFromNone, ConcatEmptySeq
      <3>3. QED
        BY <2>5, <3>2
    <2>7. target = Nil /\ UNCHANGED <<Registered, running>> /\ target' \in Cells
      BY <2>1, <2>2, <2>5, <2>6, QueueIsTyped
    <2>8. QED
      BY <2>5, <2>7, FifoSteps
  <1>5. QED
    BY <1>3, <1>4

-----------------------------------------------------------------------------
(* The loops over the lists that are checked out.                          *)

\* After the spin loop the next pointer is final: no addition is about to write
\* it, and it leads to the rest of the list.
LEMMA NextIs ==
  ASSUME NEW O \in Seq(Cells), NEW Q \in Seq(Cells), NEW R \in Seq(Cells), Shape(O, Q, R),
         NEW L \in Seq(Cells), L # <<>>, Chained(Succ, L),
         mem[L[1]] # Nil \/ L[1] = End(Nil, L)
  PROVE  /\ mem[L[1]] = First(Tail(L))
         /\ \A t \in Threads : adding[t].step = "link" => adding[t].old # L[1]
  <1> DEFINE c == L[1]
  <1>1. /\ c \in Cells /\ c \in Slots /\ Succ[c] = First(Tail(L))
        /\ c = L[Len(L)] <=> Tail(L) = <<>>
    BY ChainTail, SlotFacts
  <1>2. OneLinkEach(mem, adding) /\ mem \in [Slots -> Cells \cup {Nil, Sentinel}]
        /\ mem[c] # Sentinel
    BY <1>1, ShapeSucc, TypeFacts DEF Shape, HeadInv
  <1>3. /\ mem[c] \in Cells => Succ[c] = mem[c]
        /\ Succ[c] = Nil <=> mem[c] \notin Cells /\ NoLinkAt(adding, c)
    BY <1>1, <1>2, SuccIs, SuccIsSuccIn
  <1>4. L[1] = End(Nil, L) => Tail(L) = <<>>
    BY <1>1 DEF End
  <1>5. mem[c] \in Cells \cup {Nil}
    BY <1>1, <1>2
  <1>6. \A t \in Threads : adding[t].step = "link" => mem[adding[t].old] = Nil
    BY DEF Shape, AdderInv
  <1> HIDE DEF c
  <1>7. CASE mem[c] \in Cells
    <2>1. mem[c] = First(Tail(L)) /\ mem[c] # Nil
      BY <1>1, <1>3, <1>7, SlotFacts
    <2>2. QED
      BY <1>6, <2>1 DEF c
  <1>8. CASE mem[c] = Nil
    <2>1. Tail(L) = <<>>
      BY <1>4, <1>8 DEF c
    <2>2. Succ[c] = Nil /\ First(Tail(L)) = Nil
      BY <1>1, <2>1, NoChain
    <2>3. NoLinkAt(adding, c)
      BY <1>3, <2>2
    <2>4. QED
      BY <1>8, <2>2, <2>3 DEF NoLinkAt, c
  <1>9. QED
    BY <1>5, <1>7, <1>8

LEMMA ExecuteIsSimulated ==
  ASSUME Inv, Execute PROVE Simulated
  <1>1. PICK O, Q, R \in Seq(Cells) : Shape(O, Q, R)
    BY DEF Inv
  <1>2. /\ op = "process" /\ step = "drain" /\ running = Nil /\ LoopReady
        /\ cur["process"] # Nil
        /\ mem[cur["process"]] # Nil \/ cur["process"] = last["process"]
        /\ running' = cur["process"]
        /\ cur' = [cur EXCEPT !["process"] = mem[cur["process"]]]
        /\ UNCHANGED <<build, mem, tail, adding, op, step, active, last, target>>
    BY DEF Execute, Draining, NextIsKnown
  <1>3. R = <<>> /\ O # <<>> /\ cur["process"] = O[1] /\ Chained(Succ, O)
    <2>1. O # <<>>
      BY <1>1, <1>2, NoChain DEF Shape, ChainInv
    <2>2. QED
      BY <1>1, <1>2, <2>1, EndInRange DEF Shape, ChainInv, ControlInv
  <1>4. last["process"] = End(Nil, O)
    BY <1>1, <1>2, <1>3 DEF Shape, LastInv, LastUnset
  <1>5. /\ Tail(O) \in Seq(Cells) /\ Chained(Succ, Tail(O))
        /\ O[1] \in Cells /\ O[1] \notin Range(Tail(O))
        /\ Range(O) = {O[1]} \cup Range(Tail(O))
        /\ Tail(O) # <<>> => \A s : End(s, Tail(O)) = O[Len(O)]
    BY <1>3, ChainTail
  <1> DEFINE T == Tail(O)
  <1>6. /\ mem[O[1]] = First(T)
        /\ \A t \in Threads : adding[t].step = "link" => adding[t].old # O[1]
    BY <1>1, <1>2, <1>3, <1>4, NextIs
  <1>7. O \o Q # <<>> /\ Head(O \o Q) = O[1] /\ Tail(O \o Q) = T \o Q
    BY <1>3, ConcatHead
  <1>8. T # <<>> => End(Nil, T) = End(Nil, O)
    BY <1>3, <1>5 DEF End
  <1>9. T \in Seq(Cells) /\ Chained(Succ, T) /\ Range(O) = {O[1]} \cup Range(T)
    BY <1>5
  <1> HIDE DEF T
  <1>10. /\ cur'["process"] = First(T) /\ cur'["remove"] = cur["remove"]
         /\ cur' \in [Ops -> Cells \cup {Nil}]
    <2>1. cur \in [Ops -> Cells \cup {Nil}] /\ First(T) \in Cells \cup {Nil}
      BY <1>1, <1>9, EndInRange, NoChain, TypeFacts DEF Shape
    <2>2. QED
      BY <1>2, <1>3, <1>6, <2>1 DEF Ops
  <1>11. Succ' = Succ /\ ReadyHead' = ReadyHead
    BY <1>2, ReadyStays DEF Succ
  <1>12. ChainInv(T, Q, R)'
    BY <1>1, <1>9, <1>10, <1>11 DEF Shape, ChainInv
  <1>13. TailInv(T, Q, R)' /\ LastInv(T, R)'
    BY <1>1, <1>2, <1>3, <1>4, <1>8, <1>11
      DEF Shape, TailInv, LastInv, Switching, LastUnset
  <1>14. HeadInv'
    BY <1>1, <1>2 DEF Shape, HeadInv
  <1>15. ASSUME NEW listed, listed = Listed(T, Q, R) PROVE AdderInv(listed)'
    <2>1. AdderInv(Listed(O, Q, R)) /\ listed \subseteq Listed(O, Q, R)
          /\ Listed(O, Q, R) = {O[1]} \cup listed
      BY <1>1, <1>9, <1>15 DEF Shape, Listed
    <2>2. \A t \in Threads : adding[t].step = "link" =>
            adding[t].old \in {ReadyHead'} \cup listed /\ mem'[adding[t].old] = Nil
      BY <1>2, <1>6, <1>11, <2>1 DEF AdderInv
    <2>3. QED
      BY <1>2, <2>1, <2>2, AdderStays
  <1>16. AdderInv(Listed(T, Q, R))'
    BY <1>15 DEF Listed, AdderInv
  <1>17. ControlInv(T, R)' /\ TypeOK'
    BY <1>1, <1>2, <1>3, <1>5, <1>10, SlotFacts
      DEF Shape, ControlInv, LoopReady, TypeOK
  <1>18. Shape(T, Q, R)'
    BY <1>12, <1>13, <1>14, <1>16, <1>17 DEF Shape
  <1>19. Registered = O \o Q /\ Inv' /\ Registered' = T \o Q
    BY <1>1, <1>2, <1>9, <1>18, RegisteredIs, InvIs DEF ShapeGivesQueue
  <1>20. target = Nil
    BY <1>2, QueueIsTyped
  <1>21. QED
    BY <1>2, <1>3, <1>7, <1>19, <1>20, FifoSteps

LEMMA ReturnIsSimulated ==
  ASSUME Inv, Return PROVE Simulated
  <1>1. PICK O, Q, R \in Seq(Cells) : Shape(O, Q, R)
    BY DEF Inv
  <1>2. /\ op = "process" /\ running # Nil /\ LoopReady /\ running' = Nil
        /\ UNCHANGED <<build, mem, tail, adding, op, step, active, cur, last, target>>
    BY DEF Return
  <1>3. Succ' = Succ /\ ReadyHead' = ReadyHead
    BY <1>2, ReadyStays DEF Succ
  <1>4. ChainInv(O, Q, R)' /\ TailInv(O, Q, R)' /\ LastInv(O, R)' /\ HeadInv'
    BY <1>1, <1>2, <1>3
      DEF Shape, ChainInv, TailInv, LastInv, HeadInv, Switching, LastUnset, Other
  <1>5. AdderInv(Listed(O, Q, R))'
    BY <1>1, <1>2, <1>3 DEF Shape, AdderInv, Listed
  <1>6. ControlInv(O, R)' /\ TypeOK'
    BY <1>1, <1>2 DEF Shape, ControlInv, LoopReady, TypeOK
  <1>7. Shape(O, Q, R)'
    BY <1>4, <1>5, <1>6 DEF Shape
  <1>8. Registered = O \o Q /\ Inv' /\ Registered' = O \o Q
    BY <1>1, <1>2, <1>7, RegisteredIs, InvIs DEF ShapeGivesQueue
  <1>9. target = Nil
    BY <1>2, QueueIsTyped
  <1>10. QED
    BY <1>2, <1>8, <1>9, FifoSteps

LEMMA DoneIsSimulated ==
  ASSUME Inv, RemovedInv, Done PROVE Simulated
  <1>1. PICK O, Q, R \in Seq(Cells) : Shape(O, Q, R)
    BY DEF Inv
  <1>2. /\ op \in Ops /\ step = "drain" /\ LoopReady /\ cur[op] = Nil
        /\ op = "process" => running = Nil
        /\ op' = (IF op = "remove" /\ running # Nil THEN "process" ELSE "none")
        /\ step' = "drain" /\ last' = [last EXCEPT ![op] = Nil]
        /\ target' = Nil /\ active' = H1
        /\ UNCHANGED <<build, mem, tail, adding, cur, running>>
    BY DEF Done, Draining
  <1>3. R = <<>> /\ (op = "process" => O = <<>>) /\ (op' = "none" => O = <<>> /\ running = Nil)
    <2>1. \A L \in Seq(Cells) : First(L) = Nil => L = <<>>
      BY EndInRange, SlotFacts
    <2>2. (op = "process" => O = <<>>) /\ (op = "remove" => R = <<>>)
      BY <1>1, <1>2, <2>1 DEF Shape, ChainInv
    <2>3. QED
      BY <1>1, <1>2, <2>2 DEF Shape, ControlInv, Ops
  <1>4. Succ' = Succ /\ ReadyHead' = ReadyHead
    BY <1>2 DEF Succ, ReadyHead
  <1>5. ChainInv(O, Q, R)' /\ TailInv(O, Q, R)' /\ HeadInv'
    BY <1>1, <1>2, <1>4 DEF Shape, ChainInv, TailInv, HeadInv, Switching
  <1>6. LastInv(O, R)'
    <2>1. \A x \in Ops : x # op => last'[x] = last[x]
      BY <1>1, <1>2, TypeFacts DEF Shape
    <2>2. QED
      BY <1>1, <1>2, <1>3, <2>1 DEF Shape, LastInv, LastUnset, Ops
  <1>7. AdderInv(Listed(O, Q, R))'
    BY <1>1, <1>2, <1>4 DEF Shape, AdderInv, Listed
  <1>8. ControlInv(O, R)'
    <2>1. LoopReady'
      BY <1>2 DEF LoopReady
    <2>2. op' \in {"process", "none"}
      BY <1>2
    <2>3. QED
      BY <1>1, <1>2, <1>3, <2>1, <2>2 DEF Shape, ControlInv
  <1>9. TypeOK'
    <2>1. last' \in [Ops -> Slots \cup {Nil}] /\ op' \in Ops \cup {"none"} /\ active' \in Heads
      BY <1>1, <1>2 DEF Shape, TypeOK, Heads, Ops
    <2>2. QED
      BY <1>1, <1>2, <2>1 DEF Shape, TypeOK
  <1>10. Shape(O, Q, R)'
    BY <1>5, <1>6, <1>7, <1>8, <1>9 DEF Shape
  <1>11. Registered = O \o Q
    <2>1. CASE op # "remove"
      BY <1>1, <2>1, RegisteredIs DEF ShapeGivesQueue
    <2>2. CASE op = "remove"
      <3>1. InHand = <<>>
        BY <1>2, SlotFacts DEF InHand, LoopReady, NotAdding
      <3>2. Registered = ((O \o Q) \o <<>>) \o RemoveFirst(R, target)
        BY <1>1, <2>2, <3>1, RegisteredIs DEF ShapeGivesQueue
      <3>3. O \o Q \in Seq(Cells)
        BY ConcatRange
      <3>4. RemoveFirst(R, target) = <<>> /\ ((O \o Q) \o <<>>) \o <<>> = O \o Q
        BY <1>3, <3>3, RemoveFromNone, ConcatEmptySeq
      <3>5. QED
        BY <3>2, <3>4
    <2>3. QED
      BY <2>1, <2>2
  <1>12. Inv' /\ Registered' = O \o Q
    BY <1>2, <1>10, InvIs
  <1>13. CASE op = "remove"
    <2>1. target # Nil
      BY <1>13, QueueIsTyped
    <2>2. running = Nil => target \notin Range(Registered)
      BY <1>2, <1>13 DEF RemovedInv
    <2>3. QED
      BY <1>2, <1>11, <1>12, <2>1, <2>2, FifoSteps
  <1>14. CASE op # "remove"
    <2>1. target = Nil
      BY <1>14, QueueIsTyped
    <2>2. QED
      BY <1>2, <1>11, <1>12, <2>1, FifoSteps DEF Untouched
  <1>15. QED
    BY <1>13, <1>14

\* removeDelayedCallback takes the first element off its list.
Taken(O, Q, R) ==
  /\ R # <<>> /\ Tail(R) \in Seq(Cells) /\ Chained(Succ, Tail(R))
  /\ cur["remove"] = R[1] /\ R[1] \in Cells /\ R[1] \notin Listed(O, Q, Tail(R))
  /\ R = <<R[1]>> \o Tail(R)
  /\ Listed(O, Q, R) = {R[1]} \cup Listed(O, Q, Tail(R))
  /\ cur'["remove"] = First(Tail(R)) /\ cur'["process"] = cur["process"]
  /\ cur' \in [Ops -> Cells \cup {Nil}]
  /\ NoLinkAt(adding, R[1])
  /\ Tail(R) # <<>> => last["remove"] = End(Nil, Tail(R))

LEMMA TakeNext ==
  ASSUME NEW O \in Seq(Cells), NEW Q \in Seq(Cells), NEW R \in Seq(Cells), Shape(O, Q, R),
         PutBack
  PROVE  Taken(O, Q, R)
  <1> USE DEF Shape
  <1>1. /\ op = "remove" /\ step = "drain" /\ cur["remove"] # Nil
        /\ mem[cur["remove"]] # Nil \/ cur["remove"] = last["remove"]
        /\ cur' = [cur EXCEPT !["remove"] = mem[cur["remove"]]]
    BY DEF PutBack, Draining, NextIsKnown
  <1>2. R # <<>> /\ cur["remove"] = R[1] /\ Chained(Succ, R)
    <2>1. R # <<>>
      BY <1>1, NoChain DEF ChainInv
    <2>2. QED
      BY <2>1, EndInRange DEF ChainInv
  <1>3. last["remove"] = End(Nil, R)
    BY <1>1, <1>2 DEF LastInv, LastUnset
  <1> DEFINE T == Tail(R)
  <1>4. /\ T \in Seq(Cells) /\ Chained(Succ, T)
        /\ R[1] \in Cells /\ R[1] \notin Range(T)
        /\ Range(R) = {R[1]} \cup Range(T)
        /\ T # <<>> => \A s : End(s, T) = R[Len(R)]
        /\ R = <<R[1]>> \o T
    BY <1>2, ChainTail
  <1>5. /\ mem[R[1]] = First(T)
        /\ \A t \in Threads : adding[t].step = "link" => adding[t].old # R[1]
    BY <1>1, <1>2, <1>3, NextIs
  <1> HIDE DEF T
  <1>6. cur \in [Ops -> Cells \cup {Nil}] /\ First(T) \in Cells \cup {Nil}
    BY <1>4, EndInRange, NoChain, TypeFacts
  <1>7. /\ cur'["remove"] = First(T) /\ cur'["process"] = cur["process"]
        /\ cur' \in [Ops -> Cells \cup {Nil}]
    BY <1>1, <1>2, <1>5, <1>6 DEF Ops
  <1>8. R[1] \notin Listed(O, Q, T) /\ Listed(O, Q, R) = {R[1]} \cup Listed(O, Q, T)
    BY <1>4 DEF Listed, ChainInv
  <1>9. T # <<>> => last["remove"] = End(Nil, T)
    BY <1>2, <1>3, <1>4 DEF End
  <1>10. NoLinkAt(adding, R[1])
    BY <1>5 DEF NoLinkAt
  <1>11. QED
    BY <1>2, <1>4, <1>7, <1>8, <1>9, <1>10 DEF T, Taken

\* The argument of removeDelayedCallback is dropped.
LEMMA DropStep ==
  ASSUME NEW O \in Seq(Cells), NEW Q \in Seq(Cells), NEW R \in Seq(Cells), Shape(O, Q, R),
         PutBack, cur["remove"] = target
  PROVE  Shape(O, Q, Tail(R))'
  <1>1. /\ op = "remove" /\ step = "drain" /\ LoopReady
        /\ UNCHANGED <<build, mem, tail, adding, op, step, active, last, target, running>>
    BY DEF PutBack, Draining, IsTarget
  <1> DEFINE T == Tail(R)
  <1>2. /\ T \in Seq(Cells) /\ Chained(Succ, T)
        /\ Listed(O, Q, R) = {R[1]} \cup Listed(O, Q, T)
        /\ Range(T) \subseteq Range(R)
        /\ cur'["remove"] = First(T) /\ cur'["process"] = cur["process"]
        /\ cur' \in [Ops -> Cells \cup {Nil}]
        /\ NoLinkAt(adding, R[1])
        /\ T # <<>> => last["remove"] = End(Nil, T)
    <2>1. R # <<>> /\ Chained(Succ, R)
      BY TakeNext DEF Taken, Shape, ChainInv
    <2>2. Range(T) \subseteq Range(R)
      BY <2>1, ChainTail
    <2>3. Taken(O, Q, R)
      BY TakeNext
    <2>4. QED
      BY <2>2, <2>3 DEF Taken
  <1> HIDE DEF T
  <1>3. Succ' = Succ /\ ReadyHead' = ReadyHead
    BY <1>1, ReadyStays DEF Succ
  <1>4. ChainInv(O, Q, T)'
    BY <1>2, <1>3 DEF Shape, ChainInv
  <1>5. TailInv(O, Q, T)' /\ LastInv(O, T)' /\ HeadInv'
    BY <1>1, <1>2, <1>3 DEF Shape, TailInv, LastInv, HeadInv, Switching, LastUnset
  <1>6. ASSUME NEW listed, listed = Listed(O, Q, T) PROVE AdderInv(listed)'
    <2>1. AdderInv(Listed(O, Q, R)) /\ listed \subseteq Listed(O, Q, R)
          /\ Listed(O, Q, R) = {R[1]} \cup listed
      BY <1>2, <1>6 DEF Shape
    <2>2. \A t \in Threads : adding[t].step = "link" =>
            adding[t].old \in {ReadyHead'} \cup listed /\ mem'[adding[t].old] = Nil
      BY <1>1, <1>2, <1>3, <2>1 DEF AdderInv, NoLinkAt
    <2>3. QED
      BY <1>1, <2>1, <2>2, AdderStays
  <1>7. AdderInv(Listed(O, Q, T))'
    BY <1>6 DEF Listed, AdderInv
  <1>8. ControlInv(O, T)' /\ TypeOK'
    BY <1>1, <1>2 DEF Shape, ControlInv, LoopReady, TypeOK
  <1>9. QED
    BY <1>4, <1>5, <1>7, <1>8 DEF Shape, T

\* Another element begins to be added again.
LEMMA PutBackStep ==
  ASSUME NEW O \in Seq(Cells), NEW Q \in Seq(Cells), NEW R \in Seq(Cells), Shape(O, Q, R),
         PutBack, cur["remove"] # target
  PROVE  Shape(O, Q, Tail(R))' /\ InHand' = <<R[1]>>
  <1> DEFINE T == Tail(R)
             c == R[1]
  <1>1. /\ op = "remove" /\ step = "drain" /\ LoopReady
        /\ StartAdd(Loop, cur["remove"])
        /\ UNCHANGED <<build, tail, op, step, active, last, target, running>>
    BY DEF PutBack, Draining, IsTarget
  <1>2. /\ T \in Seq(Cells) /\ Chained(Succ, T)
        /\ cur["remove"] = c /\ c \in Cells /\ c \notin Listed(O, Q, T)
        /\ Listed(O, Q, R) = {c} \cup Listed(O, Q, T)
        /\ Range(T) \subseteq Range(R)
        /\ cur'["remove"] = First(T) /\ cur'["process"] = cur["process"]
        /\ cur' \in [Ops -> Cells \cup {Nil}]
        /\ NoLinkAt(adding, c)
        /\ T # <<>> => last["remove"] = End(Nil, T)
    <2>1. R # <<>> /\ Chained(Succ, R)
      BY TakeNext DEF Taken, Shape, ChainInv
    <2>2. Range(T) \subseteq Range(R)
      BY <2>1, ChainTail
    <2>3. Taken(O, Q, R)
      BY TakeNext
    <2>4. QED
      BY <2>2, <2>3 DEF Taken
  <1> HIDE DEF T, c
  <1>3. build.removals /\ build.producers = {} /\ \A u \in Threads : u # Loop => adding[u] = NotAdding
    BY <1>1 DEF Shape, ControlInv, SerialBuilds
  <1>4. adding[Loop] = NotAdding /\ Loop \in Threads /\ NotAdding.step = "none"
    BY <1>1, SlotFacts DEF LoopReady, NotAdding
  <1>5. /\ mem' \in [Slots -> Cells \cup {Nil, Sentinel}]
        /\ mem'[c] = Nil /\ \A s \in Slots \ {c} : mem'[s] = mem[s]
        /\ adding' \in [Threads -> Additions]
        /\ adding'[Loop] = [step |-> "swap", cell |-> c, old |-> Nil]
        /\ \A u \in Threads \ {Loop} : adding'[u] = adding[u]
        /\ \A s \in Slots \ {c} : Succ'[s] = Succ[s]
    <2>1. OneLinkEach(mem, adding) /\ TypeOK
      BY ShapeSucc DEF Shape
    <2>2. StartAdd(Loop, c) /\ adding[Loop].step = "none"
      BY <1>1, <1>2, <1>4
    <2>3. QED
      BY <1>2, <1>4, <2>1, <2>2, StartAddSucc
  <1>6. /\ adding'[Loop].step = "swap" /\ adding'[Loop].cell = c
        /\ \A u \in Threads : u # Loop => adding'[u] = NotAdding
    <2>1. ASSUME NEW u \in Threads, u # Loop PROVE adding'[u] = NotAdding
      <3>1. adding'[u] = adding[u] /\ adding[u] = NotAdding
        BY <1>3, <1>5, <2>1
      <3>2. QED
        BY <3>1
    <2>2. QED
      BY <1>5, <2>1
  <1>7. \A h \in Heads : mem'[h] = mem[h]
    BY <1>2, <1>5, SlotFacts
  <1>8. \A d \in Cells : mem'[d] # Sentinel
    BY <1>2, <1>5, SlotFacts DEF Shape, HeadInv
  <1>9. HeadInv' /\ ReadyHead' = ReadyHead
    BY <1>1, <1>7, <1>8, HeadsStay DEF Shape
  <1>10. ReadyHead \in Slots \ {c}
    BY <1>2, ReadyFacts, SlotFacts DEF Shape
  <1>11. ChainInv(O, Q, T)'
    <2>1. \A d \in Listed(O, Q, T) : d \in Slots \ {c}
      BY <1>2, RangeIs, SlotFacts DEF Listed
    <2>2. \A d \in Listed(O, Q, T) : Succ'[d] = Succ[d]
      BY <1>5, <2>1
    <2>3. Chained(Succ', O) /\ Chained(Succ', Q) /\ Chained(Succ', T)
      BY <1>2, <2>2, ChainStays DEF Listed, Shape, ChainInv
    <2>4. Succ'[ReadyHead'] = Succ[ReadyHead]
      BY <1>5, <1>9, <1>10
    <2>5. QED
      BY <1>2, <2>3, <2>4 DEF Shape, ChainInv
  <1>12. TailInv(O, Q, T)' /\ LastInv(O, T)'
    BY <1>1, <1>2, <1>9 DEF Shape, TailInv, LastInv, Switching, LastUnset
  <1>13. ASSUME NEW listed, listed = Listed(O, Q, T) PROVE AdderInv(listed)'
    <2>1. NotAdding.step = "none"
      BY <1>4
    <2>2. \A u \in Threads : u # Loop => adding'[u].step = "none"
      BY <1>6, <2>1
    <2>3. ASSUME NEW u \in Threads, adding'[u].step # "none" PROVE u = Loop
      BY <2>2, <2>3
    <2>4. c \in Cells \ listed /\ mem'[c] = Nil
      BY <1>2, <1>5, <1>13
    <2>5. QED
      BY <1>6, <2>2, <2>3, <2>4 DEF AdderInv
  <1>14. AdderInv(Listed(O, Q, T))'
    BY <1>13 DEF Listed, AdderInv
  <1>15. ControlInv(O, T)'
    <2>1. \A u \in Threads : adding'[u] # NotAdding => u = Loop
      BY <1>6
    <2>2. QED
      BY <1>1, <1>3, <2>1 DEF Shape, ControlInv
  <1>16. TypeOK'
    BY <1>1, <1>2, <1>5 DEF Shape, TypeOK, Additions
  <1>17. InHand' = <<c>>
    BY <1>1, <1>6 DEF InHand
  <1>18. QED
    BY <1>9, <1>11, <1>12, <1>14, <1>15, <1>16, <1>17 DEF Shape, T, c

LEMMA PutBackIsSimulated ==
  ASSUME Inv, PutBack PROVE Simulated
  <1>1. PICK O, Q, R \in Seq(Cells) : Shape(O, Q, R)
    BY DEF Inv
  <1> DEFINE T == Tail(R)
             W == O \o Q
  <1>2. /\ op = "remove" /\ LoopReady /\ UNCHANGED <<op, target, running>>
        /\ cur["remove"] = target => UNCHANGED adding
    BY DEF PutBack, Draining, IsTarget
  <1>3. /\ R # <<>> /\ T \in Seq(Cells) /\ cur["remove"] = R[1] /\ R[1] \in Cells
        /\ R[1] \notin Listed(O, Q, T) /\ R = <<R[1]>> \o T
    BY <1>1, TakeNext DEF Taken
  <1>4. W \in Seq(Cells) /\ W \o <<>> = W
    BY ConcatRange, ConcatEmptySeq
  <1>5. InHand = <<>>
    BY <1>2, SlotFacts DEF InHand, LoopReady, NotAdding
  <1>6. Registered = W \o RemoveFirst(R, target)
    <2>1. Registered = (W \o InHand) \o RemoveFirst(R, target)
      BY <1>1, <1>2, RegisteredIs DEF ShapeGivesQueue
    <2>2. QED
      BY <1>4, <1>5, <2>1
  <1>7. Shape(O, Q, T)'
    BY <1>1, DropStep, PutBackStep
  <1>8. Inv' /\ Registered' = (W \o InHand') \o RemoveFirst(T, target)
    <2>1. op' = "remove" /\ target' = target
      BY <1>2
    <2> HIDE DEF T
    <2>2. Inv' /\ Registered' = ((O \o Q) \o InHand') \o RemoveFirst(T, target')
      BY <1>3, <1>7, <2>1, InvIs
    <2>3. QED
      BY <2>1, <2>2
  <1>9. CASE R[1] = target
    <2>1. InHand' = <<>>
      BY <1>2, <1>3, <1>5, <1>9 DEF InHand
    <2>2. RemoveFirst(R, target) = T
      BY <1>3, <1>9, RemoveHead
    <2>3. RemoveFirst(T, target) = T
      <3>1. target \notin Range(T)
        BY <1>3, <1>9 DEF Listed
      <3>2. QED
        BY <1>3, <3>1, RemoveAbsent
    <2>4. Registered' = Registered
      BY <1>4, <1>6, <1>8, <2>1, <2>2, <2>3
    <2>5. QED
      BY <1>2, <1>8, <2>4, FifoSteps DEF Untouched
  <1>10. CASE R[1] # target
    <2>1. InHand' = <<R[1]>>
      BY <1>1, <1>3, <1>10, PutBackStep
    <2>2. RemoveFirst(R, target) = <<R[1]>> \o RemoveFirst(T, target)
      BY <1>3, <1>10, RemoveFromTail
    <2>3. <<R[1]>> \in Seq(Cells) /\ RemoveFirst(T, target) \in Seq(Cells)
      <3>1. R[1] \in Cells /\ T \in Seq(Cells)
        BY <1>3
      <3> HIDE DEF T
      <3>2. <<R[1]>> \in Seq(Cells)
        BY <3>1
      <3>3. RemoveFirst(T, target) \in Seq(Cells)
        BY <3>1, RemoveType
      <3>4. QED
        BY <3>2, <3>3
    <2> DEFINE V == RemoveFirst(T, target)
    <2>4. (W \o <<R[1]>>) \o V = W \o (<<R[1]>> \o V)
      BY <1>4, <2>3, ConcatAssociative
    <2>5. Registered' = Registered
      BY <1>6, <1>8, <2>1, <2>2, <2>4
    <2>6. QED
      BY <1>2, <1>8, <2>5, FifoSteps DEF Untouched
  <1>11. QED
    BY <1>9, <1>10

-----------------------------------------------------------------------------
(* The specification.                                                      *)

LEMMA InitIsEmpty ==
  ASSUME Init, Builds \subseteq SerialBuilds PROVE Inv /\ Fifo!Init
  <1>1. /\ build \in SerialBuilds /\ mem = [s \in Slots |-> IF s = H2 THEN Sentinel ELSE Nil]
        /\ tail = H1 /\ adding = [t \in Threads |-> NotAdding] /\ op = "none" /\ step = "drain"
        /\ active = H1 /\ cur = [o \in Ops |-> Nil] /\ last = [o \in Ops |-> Nil]
        /\ target = Nil /\ running = Nil
    BY DEF Init
  <1>2. TypeOK
    <2>1. NotAdding \in [step : {"none", "swap", "store", "link"},
                         cell : Cells \cup {Nil}, old : Slots \cup {Nil}]
      BY DEF NotAdding
    <2>2. adding \in [Threads -> [step : {"none", "swap", "store", "link"},
                                  cell : Cells \cup {Nil}, old : Slots \cup {Nil}]]
      BY <1>1, <2>1
    <2>3. mem \in [Slots -> Cells \cup {Nil, Sentinel}]
      BY <1>1
    <2>4. build \in Builds /\ tail \in Slots /\ active \in Heads
      BY <1>1, SlotFacts DEF Init, Heads
    <2>5. QED
      BY <1>1, <2>2, <2>3, <2>4 DEF TypeOK
  <1>3. mem[H1] = Nil /\ mem[H2] = Sentinel /\ \A c \in Cells : mem[c] = Nil
    BY <1>1, SlotFacts
  <1>4. \A t \in Threads : adding[t] = NotAdding /\ adding[t].step = "none"
    BY <1>1 DEF NotAdding
  <1>5. ReadyHead = H1
    BY <1>1, <1>3, SlotFacts DEF ReadyHead
  <1>6. Succ[H1] = Nil
    <2>1. OneLinkEach(mem, adding) /\ NoLinkAt(adding, H1)
      BY <1>4 DEF OneLinkEach, NoLinkAt
    <2>2. QED
      BY <1>2, <1>3, <2>1, SuccIs, SuccIsSuccIn, TypeFacts, SlotFacts
  <1>7. cur["process"] = Nil /\ cur["remove"] = Nil
    BY <1>1 DEF Ops
  <1>8. ChainInv(<<>>, <<>>, <<>>)
    BY <1>5, <1>6, <1>7, NoChain DEF ChainInv
  <1>9. TailInv(<<>>, <<>>, <<>>) /\ LastInv(<<>>, <<>>)
    BY <1>1, <1>5, NoChain DEF TailInv, LastInv, Switching
  <1>10. HeadInv
    BY <1>1, <1>3, SlotFacts DEF HeadInv
  <1>11. AdderInv(Listed(<<>>, <<>>, <<>>))
    BY <1>4 DEF AdderInv
  <1>12. ControlInv(<<>>, <<>>)
    BY <1>1, <1>4, SlotFacts DEF ControlInv, LoopReady
  <1>13. Shape(<<>>, <<>>, <<>>)
    BY <1>2, <1>8, <1>9, <1>10, <1>11, <1>12 DEF Shape
  <1>14. <<>> \in Seq(Cells)
    OBVIOUS
  <1>15. Registered = <<>> \o <<>>
    BY <1>1, <1>13, <1>14, RegisteredIs DEF ShapeGivesQueue
  <1>16. <<>> \o <<>> = <<>>
    BY <1>14, ConcatEmptySeq
  <1>17. QED
    BY <1>1, <1>13, <1>14, <1>15, <1>16 DEF Inv, Fifo!Init

LEMMA StutterIsSimulated ==
  ASSUME Inv, UNCHANGED vars PROVE Simulated
  <1>1. PICK O, Q, R \in Seq(Cells) : Shape(O, Q, R)
    BY DEF Inv
  <1>2. UNCHANGED <<build, mem, tail, adding, op, step, active, cur, last, target, running>>
    BY DEF vars
  <1>3. Succ' = Succ /\ ReadyHead' = ReadyHead
    BY <1>2, ReadyStays DEF Succ
  <1>4. ChainInv(O, Q, R)' /\ TailInv(O, Q, R)' /\ LastInv(O, R)' /\ HeadInv'
    BY <1>1, <1>2, <1>3
      DEF Shape, ChainInv, TailInv, LastInv, HeadInv, Switching, LastUnset, Other
  <1>5. AdderInv(Listed(O, Q, R))'
    BY <1>1, <1>2, <1>3 DEF Shape, AdderInv, Listed
  <1>6. ControlInv(O, R)' /\ TypeOK'
    BY <1>1, <1>2 DEF Shape, ControlInv, LoopReady, TypeOK
  <1>7. Shape(O, Q, R)'
    BY <1>4, <1>5, <1>6 DEF Shape
  <1>8. QED
    BY <1>1, <1>2, <1>7, SameLists DEF InHand

LEMMA StepIsSimulated ==
  ASSUME Inv, RemovedInv, [Next]_vars PROVE Simulated
  <1>1. ASSUME NEW t \in Threads, NEW c \in Cells, Add(t, c) PROVE Simulated
    BY <1>1, AddIsSimulated
  <1>2. ASSUME NEW t \in Threads, ThreadStep(t) PROVE Simulated
    BY <1>2, SwapTailIsSimulated, StoreTailIsSimulated, LinkIsSimulated DEF ThreadStep
  <1>3. CASE LoopStep
    <2>1. CASE Process
      BY <2>1, BeginsAreSimulated
    <2>2. CASE Reset
      BY <2>2, OpenInactiveIsSimulated, SwapHeadIsSimulated, StoreHeadIsSimulated,
         OldTailIsSimulated DEF Reset
    <2>3. CASE Execute
      BY <2>3, ExecuteIsSimulated
    <2>4. CASE Return
      BY <2>4, ReturnIsSimulated
    <2>5. CASE PutBack
      BY <2>5, PutBackIsSimulated
    <2>6. CASE Done
      BY <2>6, DoneIsSimulated
    <2>7. QED
      BY <1>3, <2>1, <2>2, <2>3, <2>4, <2>5, <2>6 DEF LoopStep
  <1>4. CASE \E c \in Cells : RemoveDelayed(c)
    BY <1>4, BeginsAreSimulated
  <1>5. CASE UNCHANGED vars
    BY <1>5, StutterIsSimulated
  <1>6. QED
    BY <1>1, <1>2, <1>3, <1>4, <1>5 DEF Next

\* A removal that finds both heads empty has nothing to remove.
LEMMA NothingToRemove ==
  ASSUME Inv, NEW c \in Cells, RemoveDelayed(c), running = Nil, IsEmpty
  PROVE  Registered = <<>>
  <1>1. PICK O, Q, R \in Seq(Cells) : Shape(O, Q, R)
    BY DEF Inv
  <1>2. op = "none" /\ LoopReady /\ build.removals
    BY DEF RemoveDelayed
  <1>3. O = <<>>
    BY <1>1, <1>2 DEF Shape, ControlInv
  <1>4. ReadyHead \in Slots /\ mem[ReadyHead] \notin Cells
    BY <1>1, ReadyFacts, SlotFacts DEF Shape, IsEmpty, Heads
  <1>5. \A t \in Threads : adding[t].step # "link"
    <2>1. \A t \in Threads : adding[t] = NotAdding
      BY <1>1, <1>2 DEF Shape, ControlInv, SerialBuilds, LoopReady
    <2>2. QED
      BY <2>1 DEF NotAdding
  <1>6. Succ[ReadyHead] = Nil
    <2>1. OneLinkEach(mem, adding) /\ NoLinkAt(adding, ReadyHead)
      BY <1>1, <1>5, ShapeSucc DEF NoLinkAt
    <2>2. QED
      BY <1>1, <1>4, <2>1, SuccIs, SuccIsSuccIn, TypeFacts DEF Shape
  <1>7. Q = <<>>
    BY <1>1, <1>6, EndInRange, SlotFacts DEF Shape, ChainInv
  <1>8. Registered = O \o Q
    BY <1>1, <1>2, RegisteredIs DEF ShapeGivesQueue
  <1>9. <<>> \o <<>> = <<>>
    BY ConcatEmptySeq
  <1>10. QED
    BY <1>3, <1>7, <1>8, <1>9

LEMMA RemovedStays ==
  ASSUME Inv, RemovedInv, [Next]_vars PROVE RemovedInv'
  <1> SUFFICES ASSUME op' = "remove", step' \notin {"open", "swapHead"}, running' = Nil
               PROVE  target' \notin Range(Registered')
    BY DEF RemovedInv
  <1>1. NothingNew
    BY StepIsSimulated DEF Simulated
  <1>2. op = "remove" => UNCHANGED <<running, target>>
    BY DEF Next, Add, ThreadStep, SwapTail, StoreTail, Link, resetVars, LoopStep, Process,
       Reset, OpenInactive, SwapHead, StoreHead, SwapOldTail, StoreOldTail, Execute, Draining,
       Return, PutBack, Done, RemoveDelayed, Ops, vars
  <1>3. CASE op = "remove" /\ step \notin {"open", "swapHead"}
    BY <1>1, <1>2, <1>3 DEF RemovedInv, NothingNew
  <1>4. CASE op = "remove" /\ step \in {"open", "swapHead"}
    <2>1. SwapHead
      BY <1>4 DEF Next, Add, ThreadStep, SwapTail, StoreTail, Link, resetVars, LoopStep,
         Process, Reset, OpenInactive, StoreHead, SwapOldTail, StoreOldTail, Execute, Draining,
         Return, PutBack, Done, RemoveDelayed, Ops, vars
    <2>2. QED
      BY <1>2, <1>4, <2>1, SwapHeadIsSimulated
  <1>5. CASE op # "remove"
    <2>1. PICK c \in Cells : RemoveDelayed(c)
      BY <1>5 DEF Next, Add, ThreadStep, SwapTail, StoreTail, Link, resetVars, LoopStep,
         Process, Begin, Reset, OpenInactive, SwapHead, StoreHead, SwapOldTail, StoreOldTail,
         Execute, Draining, Return, PutBack, Done, vars
    <2>2. running = Nil /\ IsEmpty
      BY <2>1 DEF RemoveDelayed, Begin
    <2>3. Registered = <<>>
      BY <2>1, <2>2, NothingToRemove
    <2>4. Registered' = Registered
      BY <2>1, BeginsAreSimulated
    <2>5. QED
      BY <2>3, <2>4, NoChain
  <1>6. QED
    BY <1>3, <1>4, <1>5

LEMMA TailFollows == Inv => TailIsReachable
  <1> SUFFICES ASSUME Inv PROVE TailIsReachable
    OBVIOUS
  <1>1. PICK O, Q, R \in Seq(Cells) : Shape(O, Q, R)
    BY DEF Inv
  <1>2. TypeOK
    BY <1>1 DEF Shape
  <1>3. Behind(ReadyHead) = Q
    BY <1>1, RegisteredIs DEF ShapeGivesQueue
  <1>4. ASSUME step = "drain" PROVE tail \in {ReadyHead} \cup Range(Q)
    <2>1. tail = End(ReadyHead, Q)
      BY <1>1, <1>4 DEF Shape, TailInv, Switching
    <2>2. CASE Q = <<>>
      BY <2>1, <2>2, NoChain
    <2>3. CASE Q # <<>>
      BY <2>1, <2>3, EndInRange
    <2>4. QED
      BY <2>2, <2>3
  <1>5. ASSUME step = "drain" PROVE (mem[H1] = Sentinel) # (mem[H2] = Sentinel)
    BY <1>1, <1>5 DEF Shape, HeadInv
  <1>6. QED
    BY <1>2, <1>3, <1>4, <1>5 DEF TailIsReachable

\* Whatever the contexts that call addDelayedCallback do between the steps of
\* processDelayed and removeDelayedCallback, the lists are well formed: every cell
\* is in one list at most, and the pointers, with the links still to be written,
\* lead through the lists to their ends.
THEOREM ListsAreWellFormed ==
  ASSUME Builds \subseteq SerialBuilds PROVE Spec => []Inv
  <1>1. Init => Inv /\ RemovedInv
    BY InitIsEmpty DEF Init, RemovedInv
  <1>2. Inv /\ RemovedInv /\ [Next]_vars => Inv' /\ RemovedInv'
    BY StepIsSimulated, RemovedStays DEF Simulated
  <1>3. QED
    BY <1>1, <1>2, PTL DEF Spec

\* When a removal that was called outside of a callback has put the rest of its
\* list back, or is about to, its argument is not in the queue any more.
THEOREM RemovalRemoves ==
  ASSUME Builds \subseteq SerialBuilds PROVE Spec => []RemovedInv
  <1>1. Init => Inv /\ RemovedInv
    BY InitIsEmpty DEF Init, RemovedInv
  <1>2. Inv /\ RemovedInv /\ [Next]_vars => Inv' /\ RemovedInv'
    BY StepIsSimulated, RemovedStays DEF Simulated
  <1>3. QED
    BY <1>1, <1>2, PTL DEF Spec

\* Between the exchanges one head is the sentinel and el->delayedTail points into
\* the list of the other one, so that the next element cannot get lost.
THEOREM TailReachable ==
  ASSUME Builds \subseteq SerialBuilds PROVE Spec => []TailIsReachable
  <1>1. Spec => []Inv
    BY ListsAreWellFormed
  <1>2. QED
    BY <1>1, TailFollows, PTL

\* The list with two heads is the queue that open62541.h promises: a callback
\* leaves it to be executed, once and in the order of addition, or in a call of
\* removeDelayedCallback whose argument it is, and in no other way, whoever adds
\* callbacks and whenever; that is, in the builds in which no exchange is
\* interrupted by another one.
THEOREM DelayedImplementsFifo ==
  ASSUME Builds \subseteq SerialBuilds PROVE Spec => FifoSpec
  <1>1. Init => Fifo!Init
    BY InitIsEmpty
  <1>2. Inv /\ RemovedInv /\ [Next]_vars => [Fifo!Next]_(Fifo!vars)
    BY StepIsSimulated DEF Simulated
  <1>3. Spec => []Inv /\ []RemovedInv
    BY ListsAreWellFormed, RemovalRemoves
  <1>4. QED
    BY <1>1, <1>2, <1>3, PTL DEF Spec, FifoSpec, Fifo!Spec
=============================================================================
