---------------------------- MODULE ZipTreeProofs ----------------------------
(***************************************************************************)
(* The zip tree keeps the entries of the timer in order, for any number of *)
(* entries, any times and any order of ranks.                              *)
(*                                                                         *)
(* The shape of a zip tree is determined by the keys and the ranks of its  *)
(* entries, so a tree is described by its set of entries, and each loop of *)
(* ziptree.c by the sets that the trees in its hands stand for.            *)
(***************************************************************************)
EXTENDS ZipTree, FiniteSetTheorems, TLAPS

-----------------------------------------------------------------------------
(* Induction over the naturals, for sets.                                  *)

\* A set of naturals has a smallest element.
LEMMA SmallestIn ==
  ASSUME NEW S \in SUBSET Nat, S # {} PROVE \E m \in S : \A k \in S : m <= k
  <1> DEFINE R == OpToRel(<, Nat)
  <1>1. IsWellFoundedOn(R, Nat)
    BY NatLessThanWellFounded
  <1>2. \A x, y \in Nat : <<x, y>> \in R <=> x < y
    BY DEF OpToRel
  <1> HIDE DEF R
  <1>3. PICK x \in S : \A y \in S : ~ (<<y, x>> \in R)
    BY <1>1, WFMin
  <1>4. ASSUME NEW y \in S PROVE x <= y
    <2>1. x \in Nat /\ y \in Nat
      OBVIOUS
    <2>2. ~(y < x)
      BY <1>2, <1>3, <2>1
    <2>3. QED
      BY <2>1, <2>2
  <1>5. QED
    BY <1>4

\* Induction, for a set of naturals.
LEMMA SetInduction ==
  ASSUME NEW S \in SUBSET Nat, 0 \in S, \A n \in S : n + 1 \in S PROVE S = Nat
  <1> SUFFICES ASSUME S # Nat PROVE FALSE
    OBVIOUS
  <1> DEFINE U == Nat \ S
  <1>1. U \in SUBSET Nat /\ U # {}
    OBVIOUS
  <1>2. \A n \in Nat : n \in U <=> n \notin S
    OBVIOUS
  <1> HIDE DEF U
  <1>3. PICK m \in U : \A k \in U : m <= k
    BY <1>1, SmallestIn
  <1>4. m \in Nat /\ m # 0
    BY <1>1, <1>2, <1>3
  <1>5. m - 1 \in Nat /\ ~(m <= m - 1) /\ m = (m - 1) + 1
    BY <1>4
  <1>6. m - 1 \in S
    BY <1>2, <1>3, <1>5
  <1>7. QED
    BY <1>2, <1>3, <1>4, <1>5, <1>6

-----------------------------------------------------------------------------
(* Loops.                                                                  *)

Entries == Cardinality(Elems)

\* What a loop has come to after each of n rounds
Rounds(round, start, n, f) ==
  f = [i \in 0..n |-> IF i = 0 THEN start ELSE round[f[i - 1]]]

\* The number of entries, which is the number of rounds of a loop, is a natural.
LEMMA EntriesAreNat == Entries \in Nat
  BY ZipTreeAssumption, FS_CardinalityType DEF Entries

\* However many rounds a loop takes, there is a function that tells what it has
\* come to.
LEMMA RoundsExist ==
  ASSUME NEW round, NEW start, NEW n \in Nat
  PROVE  \E f : Rounds(round, start, n, f)
  <1> DEFINE S == {m \in Nat : \E f : Rounds(round, start, m, f)}
  <1>1. 0 \in S
    <2> DEFINE f == [i \in 0..0 |-> start]
    <2>1. Rounds(round, start, 0, f)
      BY DEF Rounds
    <2>2. QED
      BY <2>1
  <1>2. ASSUME NEW m \in S PROVE m + 1 \in S
    <2>1. PICK f : Rounds(round, start, m, f)
      OBVIOUS
    <2> DEFINE g == [i \in 0..(m + 1) |-> IF i <= m THEN f[i] ELSE round[f[m]]]
               h == [i \in 0..(m + 1) |-> IF i = 0 THEN start ELSE round[g[i - 1]]]
    <2>2. \A i \in 0..m : f[i] = IF i = 0 THEN start ELSE round[f[i - 1]]
      BY <2>1 DEF Rounds
    <2>3. ASSUME NEW i \in 0..(m + 1) PROVE g[i] = h[i]
      <3>1. CASE i = 0
        BY <2>2, <3>1
      <3>2. CASE i \in 1..m
        <4>1. i \in 0..m /\ i - 1 \in 0..(m + 1) /\ i - 1 <= m /\ i # 0 /\ i <= m
          BY <3>2
        <4>2. QED
          BY <2>2, <4>1
      <3>3. CASE i = m + 1
        <4>1. i # 0 /\ ~(i <= m) /\ i - 1 = m /\ m \in 0..(m + 1) /\ m <= m
          BY <3>3
        <4>2. QED
          BY <4>1
      <3>4. QED
        BY <3>1, <3>2, <3>3
    <2>4. g = h
      BY <2>3
    <2> HIDE DEF g
    <2>5. Rounds(round, start, m + 1, g)
      BY <2>4 DEF Rounds
    <2>6. QED
      BY <2>5
  <1>3. S = Nat
    <2>1. S \in SUBSET Nat
      OBVIOUS
    <2> HIDE DEF S
    <2>2. QED
      BY <1>1, <1>2, <2>1, SetInduction
  <1>4. QED
    BY <1>3

\* What holds after each number of rounds, holds of the result of a loop.
LEMMA LoopInvariant ==
  ASSUME NEW round, NEW start, NEW I,
         start \in I[0],
         \A n \in 0..(Entries - 1) : \A s \in I[n] : round[s] \in I[n + 1]
  PROVE  Loop(round, start) \in I[Entries]
  <1> DEFINE f == CHOOSE f : Rounds(round, start, Entries, f)
             S == {n \in Nat : n <= Entries => f[n] \in I[n]}
  <1>1. Entries \in Nat
    BY EntriesAreNat
  <1>2. Loop(round, start) = f[Entries]
    BY DEF Loop, Rounds, Entries
  <1>3. Rounds(round, start, Entries, f)
    BY <1>1, RoundsExist
  <1> HIDE DEF f
  <1>4. \A n \in 0..Entries : f[n] = IF n = 0 THEN start ELSE round[f[n - 1]]
    BY <1>3 DEF Rounds
  <1>5. 0 \in S
    BY <1>1, <1>4
  <1>6. ASSUME NEW n \in S PROVE n + 1 \in S
    <2>1. CASE n + 1 <= Entries
      <3>1. /\ n \in 0..(Entries - 1) /\ n + 1 \in 0..Entries /\ n + 1 # 0
            /\ (n + 1) - 1 = n /\ n <= Entries
        BY <1>1, <2>1
      <3>2. f[n + 1] = round[f[n]]
        BY <1>4, <3>1
      <3>3. QED
        BY <3>1, <3>2
    <2>2. CASE ~(n + 1 <= Entries)
      BY <2>2
    <2>3. QED
      BY <2>1, <2>2
  <1>7. S = Nat
    <2>1. S \in SUBSET Nat
      OBVIOUS
    <2> HIDE DEF S
    <2>2. QED
      BY <1>5, <1>6, <2>1, SetInduction
  <1>8. Entries \in S
    BY <1>1, <1>7
  <1>9. QED
    BY <1>1, <1>2, <1>8

\* Fewer entries are left in each round.
LEMMA FewerLeft ==
  ASSUME NEW M \in SUBSET Elems, NEW N \in SUBSET M, N # M,
         NEW n \in Nat, Cardinality(M) + n <= Entries
  PROVE  Cardinality(N) + (n + 1) <= Entries
  <1>1. IsFiniteSet(M)
    BY ZipTreeAssumption, FS_Subset
  <1>2. IsFiniteSet(N) /\ Cardinality(N) <= Cardinality(M) /\ Cardinality(M) # Cardinality(N)
    BY <1>1, FS_Subset
  <1>3. Cardinality(N) \in Nat /\ Cardinality(M) \in Nat
    BY <1>1, <1>2, FS_CardinalityType
  <1>4. QED
    BY <1>2, <1>3, EntriesAreNat

\* No entry is left after a round for each of them.
LEMMA NoneLeft ==
  ASSUME NEW M \in SUBSET Elems, Cardinality(M) + Entries <= Entries
  PROVE  M = {}
  <1>1. IsFiniteSet(M)
    BY ZipTreeAssumption, FS_Subset
  <1>2. Cardinality(M) = 0
    BY <1>1, EntriesAreNat, FS_CardinalityType
  <1>3. QED
    BY <1>1, <1>2, FS_EmptySet

\* A set of entries has no more elements than there are entries.
LEMMA AtMostAll ==
  ASSUME NEW M \in SUBSET Elems PROVE Cardinality(M) + 0 <= Entries
  <1>1. IsFiniteSet(M) /\ Cardinality(M) <= Entries
    BY ZipTreeAssumption, FS_Subset DEF Entries
  <1>2. QED
    BY <1>1, EntriesAreNat, FS_CardinalityType

-----------------------------------------------------------------------------
(* The orders by key and by rank.                                          *)

\* Every entry of a tree has a time.
Keyed(k, M) == \A x \in M : k[x] \in Int

\* y is on that side of x.
OnSide(k, y, x, side) == IF side = "left" THEN Before(k, y, x) ELSE Before(k, x, y)

SidesOrder(k, M) ==
  \A side \in Sides :
    /\ \A x, y, z \in M : OnSide(k, x, y, side) /\ OnSide(k, y, z, side) => OnSide(k, x, z, side)
    /\ \A x, y \in M : x # y => (OnSide(k, x, y, side) <=> ~OnSide(k, x, y, OtherSide(side)))
    /\ \A x, y \in M : OnSide(k, x, y, side) => x # y /\ ~OnSide(k, y, x, side)
    /\ \A x, y \in M : OnSide(k, x, y, side) <=> OnSide(k, y, x, OtherSide(side))

\* Two keys are never equal, since the addresses differ.
LEMMA KeysAreOrdered ==
  ASSUME NEW k, NEW M \in SUBSET Elems, Keyed(k, M)
  PROVE  SidesOrder(k, M)
  <1>1. \A x \in M : k[x] \in Int /\ x \in Nat
    BY ZipTreeAssumption DEF Keyed
  <1>2. /\ \A x, y, z \in M : Before(k, x, y) /\ Before(k, y, z) => Before(k, x, z)
        /\ \A x, y \in M : x # y => (Before(k, x, y) <=> ~Before(k, y, x))
        /\ \A x, y \in M : Before(k, x, y) => x # y /\ ~Before(k, y, x)
    BY <1>1 DEF Before
  <1>3. Sides = {"left", "right"} /\ OtherSide("left") = "right" /\ OtherSide("right") = "left"
    BY DEF Sides, OtherSide
  <1>4. QED
    BY <1>2, <1>3 DEF SidesOrder, OnSide

\* There are two sides, each the other one of the other.
LEMMA SideFacts ==
  /\ Sides = {"left", "right"}
  /\ OtherSide("left") = "right" /\ OtherSide("right") = "left"
  /\ \A side \in Sides : /\ OtherSide(side) \in Sides /\ OtherSide(side) # side
                         /\ OtherSide(OtherSide(side)) = side
                         /\ \A other \in Sides : other = side \/ other = OtherSide(side)
  BY DEF Sides, OtherSide

\* The places of pointers are different from each other, and NULL is no entry.
LEMMA PlaceFacts ==
  /\ Null \notin Elems
  /\ Tree \in Places /\ ProcessTree \in Places /\ Tree # ProcessTree
  /\ \A x \in Elems, side \in Sides :
       /\ <<x, side>> \in Places /\ <<x, side>> # Tree /\ <<x, side>> # ProcessTree
       /\ \A y, other : <<x, side>> = <<y, other>> <=> x = y /\ side = other
  BY ZipTreeAssumption DEF Places, Edges, Tree, ProcessTree, Sides

\* No two entries have the same rank.
RankInv ==
  /\ rank \in [Elems -> Elems]
  /\ \A x, y \in Elems : x # y => rank[x] # rank[y]

\* __ZIP_RANK_CMP is a strict total order.
LEMMA RanksAreOrdered ==
  ASSUME RankInv
  PROVE  /\ \A x, y, z \in Elems : Below(x, y) /\ Below(y, z) => Below(x, z)
         /\ \A x, y \in Elems : x # y => (Below(x, y) <=> ~Below(y, x))
         /\ \A x \in Elems : ~Below(x, x)
  <1>1. \A x \in Elems : rank[x] \in Nat
    BY ZipTreeAssumption DEF RankInv
  <1>2. QED
    BY <1>1 DEF RankInv, Below

-----------------------------------------------------------------------------
(* Trees.                                                                  *)

\* v points to the entry of M of the highest rank.
IsTop(v, M) ==
  IF M = {} THEN v = Null
  ELSE v \in M /\ \A y \in M : y # v => Below(y, v)

\* The entries of M on one side of x, and those of them that come below x
Half(k, M, x, side) == {y \in M : OnSide(k, y, x, side)}
Sub(k, M, x, side) ==
  {y \in Half(k, M, x, side) :
     \A z \in Half(k, M, x, side) : z = y \/ OnSide(k, y, z, side) => Below(z, x)}

\* v points to the zip tree of the entries M.
Treap(l, k, M, v) ==
  /\ IsTop(v, M)
  /\ \A x \in M : \A side \in Sides : IsTop(l[<<x, side>>], Sub(k, M, x, side))

\* Everything is below the top.
LEMMA TopSub ==
  ASSUME NEW k, NEW M \in SUBSET Elems, Keyed(k, M), RankInv,
         NEW v \in M, IsTop(v, M), NEW side \in Sides
  PROVE  Sub(k, M, v, side) = Half(k, M, v, side)
  <1>1. ASSUME NEW z \in Half(k, M, v, side) PROVE Below(z, v)
    BY <1>1, KeysAreOrdered DEF Half, IsTop, SidesOrder
  <1>2. QED
    BY <1>1 DEF Sub

\* The subtrees of a half are those of the whole.
LEMMA HalfSub ==
  ASSUME NEW k, NEW M \in SUBSET Elems, Keyed(k, M), RankInv,
         NEW v \in M, IsTop(v, M), NEW s \in Sides,
         NEW x \in Half(k, M, v, s), NEW side \in Sides
  PROVE  Sub(k, Half(k, M, v, s), x, side) = Sub(k, M, x, side)
  <1> DEFINE H == Half(k, M, v, s)
  <1>1. SidesOrder(k, M) /\ H \subseteq M /\ x \in M /\ OnSide(k, x, v, s)
    BY KeysAreOrdered DEF Half
  <1>2. CASE side = s
    <2>1. Half(k, H, x, side) = Half(k, M, x, side)
      BY <1>1, <1>2 DEF Half, SidesOrder
    <2>2. QED
      BY <2>1 DEF Sub
  <1>3. CASE side = OtherSide(s)
    <2>1. ASSUME NEW y \in M, OnSide(k, y, x, side),
                 \A z \in Half(k, M, x, side) : z = y \/ OnSide(k, y, z, side) => Below(z, x)
          PROVE  y \in H
      <3>1. SUFFICES ASSUME ~OnSide(k, y, v, s) PROVE FALSE
        BY DEF Half
      <3>2. OnSide(k, v, x, side)
        BY <1>1, <1>3 DEF SidesOrder
      <3>3. v = y \/ OnSide(k, y, v, side)
        BY <1>1, <1>3, <3>1 DEF SidesOrder
      <3>4. Below(v, x)
        BY <2>1, <3>2, <3>3 DEF Half
      <3>5. Below(x, v)
        BY <1>1 DEF IsTop, SidesOrder
      <3>6. QED
        BY <1>1, <3>4, <3>5, RanksAreOrdered
    <2>2. ASSUME NEW y \in H, NEW z \in Half(k, M, x, side), z = y \/ OnSide(k, y, z, side)
          PROVE  z \in Half(k, H, x, side)
      <3>1. z \in M /\ OnSide(k, z, x, side) /\ y \in M /\ OnSide(k, y, v, s)
        BY DEF Half
      <3>2. z = y \/ OnSide(k, z, y, s)
        BY <1>1, <1>3, <2>2, <3>1, SideFacts DEF SidesOrder
      <3>3. OnSide(k, z, v, s)
        BY <1>1, <3>1, <3>2 DEF SidesOrder
      <3>4. QED
        BY <3>1, <3>3 DEF Half
    <2>3. Half(k, H, x, side) \subseteq Half(k, M, x, side)
      BY <1>1 DEF Half
    <2>4. ASSUME NEW y \in Sub(k, M, x, side) PROVE y \in Sub(k, H, x, side)
      BY <2>1, <2>2, <2>3 DEF Sub, Half
    <2>5. ASSUME NEW y \in Sub(k, H, x, side) PROVE y \in Sub(k, M, x, side)
      <3>1. y \in H /\ y \in Half(k, M, x, side)
        BY <2>3 DEF Sub, Half
      <3>2. ASSUME NEW z \in Half(k, M, x, side), z = y \/ OnSide(k, y, z, side)
            PROVE  Below(z, x)
        <4>1. z \in Half(k, H, x, side)
          BY <2>2, <3>1, <3>2
        <4>2. QED
          BY <3>2, <4>1 DEF Sub
      <3>3. QED
        BY <3>1, <3>2 DEF Sub
    <2>6. QED
      BY <2>4, <2>5
  <1>4. QED
    BY <1>2, <1>3, SideFacts

\* The whole is the top and the two halves.
LEMMA MembersOfHalves ==
  ASSUME NEW k, NEW M \in SUBSET Elems, Keyed(k, M), NEW v \in M
  PROVE  \A x \in M : x = v \/ \E side \in Sides : x \in Half(k, M, v, side)
  <1>1. SidesOrder(k, M)
    BY KeysAreOrdered
  <1>2. QED
    BY <1>1, SideFacts DEF SidesOrder, Half

\* A tree has its top at its root, and a tree on each side.
LEMMA Unfold ==
  ASSUME NEW l, NEW k, NEW M \in SUBSET Elems, NEW v, Keyed(k, M), RankInv,
         Treap(l, k, M, v), M # {}
  PROVE  /\ v \in M /\ v \in Elems /\ v # Null
         /\ IsTop(v, M)
         /\ \A side \in Sides : Treap(l, k, Half(k, M, v, side), l[<<v, side>>])
  <1>1. v \in M /\ IsTop(v, M) /\ v \in Elems /\ v # Null
    BY PlaceFacts DEF Treap, IsTop
  <1>2. ASSUME NEW s \in Sides PROVE Treap(l, k, Half(k, M, v, s), l[<<v, s>>])
    <2>1. IsTop(l[<<v, s>>], Half(k, M, v, s))
      BY <1>1, TopSub DEF Treap
    <2>2. ASSUME NEW x \in Half(k, M, v, s), NEW side \in Sides
          PROVE  IsTop(l[<<x, side>>], Sub(k, Half(k, M, v, s), x, side))
      <3>1. Sub(k, Half(k, M, v, s), x, side) = Sub(k, M, x, side)
        BY <1>1, HalfSub
      <3>2. x \in M
        BY DEF Half
      <3>3. QED
        BY <3>1, <3>2 DEF Treap
    <2>3. QED
      BY <2>1, <2>2 DEF Treap
  <1>3. QED
    BY <1>1, <1>2

\* A top of the highest rank and the trees of both halves are a tree.
LEMMA Fold ==
  ASSUME NEW l, NEW k, NEW M \in SUBSET Elems, NEW v \in M, Keyed(k, M), RankInv,
         IsTop(v, M),
         \A side \in Sides : Treap(l, k, Half(k, M, v, side), l[<<v, side>>])
  PROVE  Treap(l, k, M, v)
  <1>1. ASSUME NEW x \in M, NEW side \in Sides
        PROVE  IsTop(l[<<x, side>>], Sub(k, M, x, side))
    <2>1. CASE x = v
      <3>1. Sub(k, M, v, side) = Half(k, M, v, side)
        BY TopSub
      <3>2. QED
        BY <2>1, <3>1 DEF Treap
    <2>2. ASSUME NEW s \in Sides, x \in Half(k, M, v, s)
          PROVE  IsTop(l[<<x, side>>], Sub(k, M, x, side))
      <3>1. Sub(k, Half(k, M, v, s), x, side) = Sub(k, M, x, side)
        BY <2>2, HalfSub
      <3>2. QED
        BY <2>2, <3>1 DEF Treap
    <2>3. QED
      BY <2>1, <2>2, MembersOfHalves
  <1>2. QED
    BY <1>1 DEF Treap

\* The root is NULL if and only if nothing is in the tree.
LEMMA EmptyTreap ==
  ASSUME NEW l, NEW k, NEW M \in SUBSET Elems, NEW v, Treap(l, k, M, v)
  PROVE  v = Null <=> M = {}
  BY PlaceFacts DEF Treap, IsTop

\* NULL is the tree of no entries.
LEMMA NoTreap ==
  ASSUME NEW l, NEW k PROVE Treap(l, k, {}, Null)
  BY DEF Treap, IsTop

\* A tree depends on the edges of its entries only.
LEMMA SameTreap ==
  ASSUME NEW l, NEW m, NEW k, NEW M, NEW v, Treap(l, k, M, v),
         \A x \in M : \A side \in Sides : m[<<x, side>>] = l[<<x, side>>]
  PROVE  Treap(m, k, M, v)
  BY DEF Treap

\* And on their keys only.
LEMMA SameKeys ==
  ASSUME NEW l, NEW k, NEW j, NEW M, NEW v, Treap(l, k, M, v),
         \A x \in M : j[x] = k[x]
  PROVE  Treap(l, j, M, v)
  <1>1. ASSUME NEW x \in M, NEW side \in Sides PROVE Sub(j, M, x, side) = Sub(k, M, x, side)
    <2>1. \A y, z \in M : OnSide(j, y, z, side) <=> OnSide(k, y, z, side)
      BY DEF OnSide, Before
    <2>2. Half(j, M, x, side) = Half(k, M, x, side)
      BY <2>1 DEF Half
    <2>3. Half(k, M, x, side) \subseteq M
      BY DEF Half
    <2>4. QED
      BY <2>1, <2>2, <2>3 DEF Sub
  <1>2. QED
    BY <1>1 DEF Treap

-----------------------------------------------------------------------------
(* Moving elements over.                                                   *)

EdgesOf(M) == M \X Sides

\* The pointers that belong to the entries M.
LEMMA EdgesOfIs ==
  ASSUME NEW M
  PROVE  /\ \A x, side : <<x, side>> \in EdgesOf(M) <=> x \in M /\ side \in Sides
         /\ \A e \in EdgesOf(M) : \E x \in M, side \in Sides : e = <<x, side>>
  BY DEF EdgesOf

\* The elements that stay are on one side of those that do not.
Cut(k, M, side, stay) == \A y \in M \cap stay, z \in M \ stay : OnSide(k, z, y, side)

\* MoveOver is at cur, where the tree of M is still to be walked down.
Movable(l, k, M, side, fix, cur) ==
  /\ l \in Pointers /\ cur \in Elems \ M
  /\ fix \in Places \ EdgesOf(M) /\ fix # <<cur, side>> /\ l[fix] = Null
  /\ Treap(l, k, M, l[<<cur, side>>])

\* The pointers m are what MoveOver is to make of l: only pointers to and in the
\* tree of M change, which becomes a tree below cur and one at fix.
Moved(m, l, k, M, side, stay, fix, cur) ==
  /\ m \in Pointers
  /\ Treap(m, k, M \cap stay, m[<<cur, side>>])
  /\ Treap(m, k, M \ stay, m[fix])
  /\ \A e \in Places : e \notin EdgesOf(M) \cup {<<cur, side>>, fix} => m[e] = l[e]

MovesOn(l1, l, k, M1, M, side, stay, fix1, fix, cur1, cur) ==
  /\ M1 \subseteq M /\ M1 # M
  /\ Movable(l1, k, M1, side, fix1, cur1)
  /\ \A m : Moved(m, l1, k, M1, side, stay, fix1, cur1) => Moved(m, l, k, M, side, stay, fix, cur)

\* A pointer is NULL or points to an entry.
LEMMA PointsToElem ==
  ASSUME NEW l \in Pointers, NEW e \in Places PROVE l[e] \in Elems \cup {Null}
  BY DEF Pointers

\* A round of MoveOver that goes on to an element that stays.
LEMMA MoveOn ==
  ASSUME RankInv, NEW l, NEW k, NEW M \in SUBSET Elems, Keyed(k, M), NEW side \in Sides,
         NEW stay, Cut(k, M, side, stay), NEW fix, NEW cur,
         Movable(l, k, M, side, fix, cur),
         l[<<cur, side>>] # Null, l[<<cur, side>>] \in stay
  PROVE  MovesOn(l, l, k, Half(k, M, l[<<cur, side>>], side), M, side, stay, fix, fix,
                 l[<<cur, side>>], cur)
  <1> DEFINE next == l[<<cur, side>>]
             H == Half(k, M, next, side)
             other == OtherSide(side)
             K == Half(k, M, next, other)
  <1>1. Treap(l, k, M, next) /\ M # {}
    BY EmptyTreap DEF Movable
  <1>2. /\ next \in M /\ next \in Elems /\ next # Null /\ IsTop(next, M)
        /\ Treap(l, k, H, l[<<next, side>>]) /\ Treap(l, k, K, l[<<next, other>>])
    BY <1>1, Unfold, SideFacts
  <1>3. SidesOrder(k, M) /\ other \in Sides /\ other # side
    BY KeysAreOrdered, SideFacts
  <1>4. H \subseteq M /\ K \subseteq M /\ next \notin H /\ next \notin K /\ H \cap K = {}
    BY <1>2, <1>3 DEF Half, SidesOrder
  <1>5. \A x \in M : x = next \/ x \in H \/ x \in K
    BY <1>2, <1>3 DEF Half, SidesOrder
  <1>6. Movable(l, k, H, side, fix, next)
    BY <1>2, <1>4, EdgesOfIs DEF Movable
  <1>7. \A y \in M \ stay : y \in H
    <2> SUFFICES ASSUME NEW y \in M \ stay PROVE y \in H
      OBVIOUS
    <2>1. OnSide(k, y, next, side)
      BY <1>2 DEF Cut
    <2>2. QED
      BY <2>1 DEF Half
  <1> HIDE DEF next, H, K, other
  <1>8. ASSUME NEW m, Moved(m, l, k, H, side, stay, fix, next)
        PROVE  Moved(m, l, k, M, side, stay, fix, cur)
    <2>1. \A e \in Places : e \notin EdgesOf(H) \cup {<<next, side>>, fix} => m[e] = l[e]
      BY <1>8 DEF Moved
    <2>2. \A e \in Places : e \notin EdgesOf(M) \cup {<<cur, side>>, fix} => m[e] = l[e]
      BY <2>1, <1>2, <1>4, EdgesOfIs
    <2>3. cur \in Elems \ M /\ fix # <<cur, side>> /\ fix \notin EdgesOf(M)
      BY DEF Movable
    <2>4. m[<<cur, side>>] = next
      <3>1. <<cur, side>> \in Places
        BY <2>3, PlaceFacts
      <3>2. <<cur, side>> \notin EdgesOf(H) \cup {<<next, side>>, fix}
        BY <1>2, <1>4, <2>3, EdgesOfIs
      <3>3. QED
        BY <2>1, <3>1, <3>2 DEF next
    <2>5. \A x \in K \cup {next}, s \in Sides :
            x # next \/ s = other => m[<<x, s>>] = l[<<x, s>>]
      <3> SUFFICES ASSUME NEW x \in K \cup {next}, NEW s \in Sides, x # next \/ s = other
                   PROVE  m[<<x, s>>] = l[<<x, s>>]
        OBVIOUS
      <3>1. x \in M /\ x \notin H /\ <<x, s>> \in Places
        BY <1>2, <1>4, PlaceFacts
      <3>2. <<x, s>> \notin EdgesOf(H) \cup {<<next, side>>, fix}
        BY <1>3, <2>3, <3>1, EdgesOfIs
      <3>3. QED
        BY <2>1, <3>1, <3>2
    <2>6. Treap(m, k, K, m[<<next, other>>])
      <3>1. Treap(m, k, K, l[<<next, other>>])
        BY <1>2, <1>4, <2>5, SameTreap
      <3>2. QED
        BY <1>3, <2>5, <3>1
    <2>7. Treap(m, k, H \cap stay, m[<<next, side>>]) /\ Treap(m, k, H \ stay, m[fix])
      BY <1>8 DEF Moved
    <2>8. M \ stay = H \ stay
      BY <1>4, <1>7
    <2>9. next \in M \cap stay
      BY <1>2 DEF next
    <2>10. Half(k, M \cap stay, next, side) = H \cap stay
      BY DEF Half, H
    <2>11. Half(k, M \cap stay, next, other) = K
      <3>1. K \subseteq stay
        BY <1>4, <1>7
      <3>2. QED
        BY <3>1 DEF Half, K
    <2>12. Treap(m, k, M \cap stay, next)
      <3>1. IsTop(next, M \cap stay)
        BY <1>2, <2>9 DEF IsTop
      <3>2. \A s \in Sides : Treap(m, k, Half(k, M \cap stay, next, s), m[<<next, s>>])
        BY <2>6, <2>7, <2>10, <2>11, SideFacts DEF other
      <3>3. Keyed(k, M \cap stay)
        BY DEF Keyed
      <3>4. QED
        BY <2>9, <3>1, <3>2, <3>3, Fold
    <2>13. QED
      BY <1>8, <2>2, <2>4, <2>7, <2>8, <2>12 DEF Moved
  <1>9. QED
    BY <1>2, <1>4, <1>6, <1>8 DEF MovesOn, next, H

\* A round of MoveOver that moves an element to the other tree.
LEMMA MoveAway ==
  ASSUME RankInv, NEW l, NEW k, NEW M \in SUBSET Elems, Keyed(k, M), NEW side \in Sides,
         NEW stay, Cut(k, M, side, stay), NEW fix, NEW cur,
         Movable(l, k, M, side, fix, cur),
         l[<<cur, side>>] # Null, l[<<cur, side>>] \notin stay
  PROVE  LET next == l[<<cur, side>>]
             edge == <<next, OtherSide(side)>>
         IN MovesOn([l EXCEPT ![<<cur, side>>] = l[edge], ![edge] = Null, ![fix] = next],
                    l, k, Half(k, M, next, OtherSide(side)), M, side, stay, edge, fix, cur, cur)
  <1> DEFINE next == l[<<cur, side>>]
             other == OtherSide(side)
             H == Half(k, M, next, other)
             K == Half(k, M, next, side)
             edge == <<next, other>>
             j == [l EXCEPT ![<<cur, side>>] = l[edge], ![edge] = Null, ![fix] = next]
  <1>1. Treap(l, k, M, next) /\ M # {}
    BY EmptyTreap DEF Movable
  <1>2. /\ next \in M /\ next \in Elems /\ next # Null /\ IsTop(next, M)
        /\ Treap(l, k, H, l[<<next, other>>]) /\ Treap(l, k, K, l[<<next, side>>])
    BY <1>1, Unfold, SideFacts
  <1>3. SidesOrder(k, M) /\ other \in Sides /\ other # side
    BY KeysAreOrdered, SideFacts
  <1>4. H \subseteq M /\ K \subseteq M /\ next \notin H /\ next \notin K /\ H \cap K = {}
    BY <1>2, <1>3 DEF Half, SidesOrder
  <1>5. \A y \in M \cap stay : y \in H
    <2> SUFFICES ASSUME NEW y \in M \cap stay PROVE y \in H
      OBVIOUS
    <2>1. OnSide(k, next, y, side)
      BY <1>2 DEF Cut
    <2>2. OnSide(k, y, next, other)
      BY <1>2, <1>3, <2>1 DEF SidesOrder
    <2>3. QED
      BY <2>2 DEF Half
  <1>6. /\ l \in Pointers /\ cur \in Elems \ M
        /\ fix \in Places \ EdgesOf(M) /\ fix # <<cur, side>>
    BY DEF Movable
  <1>7. /\ edge \in Places /\ <<cur, side>> \in Places /\ edge # <<cur, side>> /\ edge # fix
        /\ edge \in EdgesOf(M) /\ edge \notin EdgesOf(H)
    BY <1>2, <1>3, <1>4, <1>6, PlaceFacts, EdgesOfIs
  <1>8. /\ j \in Pointers
        /\ j[<<cur, side>>] = l[edge] /\ j[edge] = Null /\ j[fix] = next
        /\ \A e \in Places : e \notin {<<cur, side>>, edge, fix} => j[e] = l[e]
    <2>1. l[edge] \in Elems \cup {Null}
      BY <1>6, <1>7, PointsToElem
    <2> HIDE DEF next, edge
    <2>2. QED
      BY <1>2, <1>6, <1>7, <2>1 DEF Pointers
  <1> HIDE DEF next, H, K, other, edge, j
  <1>9. \A x \in M, s \in Sides : <<x, s>> # edge => j[<<x, s>>] = l[<<x, s>>]
    <2> SUFFICES ASSUME NEW x \in M, NEW s \in Sides, <<x, s>> # edge
                 PROVE  j[<<x, s>>] = l[<<x, s>>]
      OBVIOUS
    <2>1. <<x, s>> \in Places /\ <<x, s>> # <<cur, side>> /\ <<x, s>> # fix
      BY <1>6, PlaceFacts, EdgesOfIs
    <2>2. QED
      BY <1>8, <2>1
  <1>10. \A x \in H \cup K, s \in Sides : <<x, s>> # edge
    BY <1>2, <1>4, PlaceFacts DEF edge
  <1>11. Movable(j, k, H, side, edge, cur)
    <2>1. Treap(j, k, H, l[edge])
      <3>1. Treap(l, k, H, l[edge])
        BY <1>2 DEF edge
      <3>2. QED
        BY <1>4, <1>9, <1>10, <3>1, SameTreap
    <2>2. QED
      BY <1>4, <1>6, <1>7, <1>8, <2>1 DEF Movable
  <1>12. ASSUME NEW m, Moved(m, j, k, H, side, stay, edge, cur)
         PROVE  Moved(m, l, k, M, side, stay, fix, cur)
    <2>1. \A e \in Places : e \notin EdgesOf(H) \cup {<<cur, side>>, edge} => m[e] = j[e]
      BY <1>12 DEF Moved
    <2>2. \A e \in Places : e \notin EdgesOf(M) \cup {<<cur, side>>, fix} => m[e] = l[e]
      BY <1>4, <1>7, <1>8, <2>1, EdgesOfIs
    <2>3. m[fix] = next
      BY <1>4, <1>6, <1>7, <1>8, <2>1, EdgesOfIs
    <2>4. \A x \in K \cup {next}, s \in Sides :
            x # next \/ s = side => m[<<x, s>>] = l[<<x, s>>]
      <3> SUFFICES ASSUME NEW x \in K \cup {next}, NEW s \in Sides, x # next \/ s = side
                   PROVE  m[<<x, s>>] = l[<<x, s>>]
        OBVIOUS
      <3>1. x \in M /\ x \notin H /\ <<x, s>> \in Places
        BY <1>2, <1>4, PlaceFacts
      <3>2. <<x, s>> # edge
        BY <1>2, <1>3, <3>1, PlaceFacts DEF edge
      <3>3. <<x, s>> \notin EdgesOf(H) \cup {<<cur, side>>, edge}
        BY <1>6, <3>1, <3>2, EdgesOfIs
      <3>4. QED
        BY <1>9, <2>1, <3>1, <3>2, <3>3
    <2>5. Treap(m, k, K, m[<<next, side>>])
      <3>1. Treap(m, k, K, l[<<next, side>>])
        BY <1>2, <1>4, <2>4, SameTreap
      <3>2. QED
        BY <2>4, <3>1
    <2>6. Treap(m, k, H \cap stay, m[<<cur, side>>]) /\ Treap(m, k, H \ stay, m[edge])
      BY <1>12 DEF Moved
    <2>7. M \cap stay = H \cap stay
      BY <1>4, <1>5
    <2>8. next \in M \ stay
      BY <1>2 DEF next
    <2>9. Half(k, M \ stay, next, other) = H \ stay
      BY DEF Half, H
    <2>10. Half(k, M \ stay, next, side) = K
      <3>1. K \cap stay = {}
        BY <1>4, <1>5
      <3>2. QED
        BY <3>1 DEF Half, K
    <2>11. Treap(m, k, M \ stay, next)
      <3>1. IsTop(next, M \ stay)
        BY <1>2, <2>8 DEF IsTop
      <3>2. \A s \in Sides : Treap(m, k, Half(k, M \ stay, next, s), m[<<next, s>>])
        BY <2>5, <2>6, <2>9, <2>10, SideFacts DEF other, edge
      <3>3. Keyed(k, M \ stay)
        BY DEF Keyed
      <3>4. QED
        BY <2>8, <3>1, <3>2, <3>3, Fold
    <2>12. QED
      BY <1>12, <2>2, <2>3, <2>6, <2>7, <2>11 DEF Moved
  <1>13. MovesOn(j, l, k, H, M, side, stay, edge, fix, cur, cur)
    BY <1>2, <1>4, <1>11, <1>12 DEF MovesOn
  <1>14. QED
    BY <1>13 DEF next, H, edge, j, other

\* What __ZIP_INSERT_MOVE_RIGHT and the three loops like it do: the tree below
\* one side of cur is cut in two.
LEMMA MoveOverCuts ==
  ASSUME RankInv, NEW l, NEW k, NEW M \in SUBSET Elems, Keyed(k, M), NEW side \in Sides,
         NEW stay, Cut(k, M, side, stay), NEW fix, NEW cur,
         Movable(l, k, M, side, fix, cur)
  PROVE  Moved(MoveOver(l, side, stay, fix, cur), l, k, M, side, stay, fix, cur)
  <1> DEFINE round == MoveRound(side, stay)
             start == [link |-> l, cur |-> cur, fix |-> fix]
             Left(w, N) ==
               /\ Movable(w.link, k, N, side, w.fix, w.cur)
               /\ \A m : Moved(m, w.link, k, N, side, stay, w.fix, w.cur)
                           => Moved(m, l, k, M, side, stay, fix, cur)
             I == [n \in 0..Entries |->
                    {w \in Walks : \E N \in SUBSET M : Cardinality(N) + n <= Entries /\ Left(w, N)}]
  <1>1. Entries \in Nat
    BY EntriesAreNat
  <1>2. start \in I[0]
    <2>1. start \in Walks
      BY DEF Movable, Walks
    <2>2. Left(start, M)
      OBVIOUS
    <2>3. Cardinality(M) + 0 <= Entries
      BY AtMostAll
    <2> HIDE DEF Left
    <2>4. QED
      BY <1>1, <2>1, <2>2, <2>3
  <1>3. ASSUME NEW n \in 0..(Entries - 1), NEW w \in I[n] PROVE round[w] \in I[n + 1]
    <2>0. n \in 0..Entries /\ n + 1 \in 0..Entries /\ n \in Nat
      BY <1>1
    <2>1. w \in Walks
      BY <2>0
    <2>2. PICK N \in SUBSET M : Cardinality(N) + n <= Entries /\ Left(w, N)
      BY <2>0
    <2>3. SUFFICES \E P \in SUBSET M : Cardinality(P) + (n + 1) <= Entries /\ Left(round[w], P)
                                       /\ round[w] \in Walks
      BY <2>0
    <2> DEFINE next == w.link[<<w.cur, side>>]
               other == <<next, OtherSide(side)>>
    <2>4. /\ N \in SUBSET Elems /\ Keyed(k, N) /\ Cut(k, N, side, stay)
          /\ Movable(w.link, k, N, side, w.fix, w.cur)
      BY <2>2 DEF Keyed, Cut
    <2>5. /\ w.link \in Pointers /\ w.cur \in Elems /\ w.fix \in Places
          /\ w = [link |-> w.link, cur |-> w.cur, fix |-> w.fix]
      BY <2>1 DEF Walks
    <2>6. CASE next = Null
      <3>1. round[w] = w
        BY <2>1, <2>6 DEF MoveRound
      <3>2. N = {}
        BY <2>4, <2>6, EmptyTreap DEF Movable
      <3>3. Cardinality(N) + (n + 1) <= Entries
        BY <1>1, <3>2, FS_EmptySet
      <3>4. QED
        BY <2>1, <2>2, <3>1, <3>3
    <2>7. CASE next # Null /\ next \in stay
      <3>1. MovesOn(w.link, w.link, k, Half(k, N, next, side), N, side, stay, w.fix, w.fix,
                    next, w.cur)
        BY <2>4, <2>7, MoveOn
      <3>2. round[w] = [w EXCEPT !.cur = next]
        BY <2>1, <2>7 DEF MoveRound
      <3> DEFINE P == Half(k, N, next, side)
      <3>3. P \in SUBSET N /\ P # N /\ Movable(w.link, k, P, side, w.fix, next)
        BY <3>1 DEF MovesOn
      <3>4. Cardinality(P) + (n + 1) <= Entries
        BY <2>0, <2>2, <2>4, <3>3, FewerLeft
      <3>5. /\ round[w].link = w.link /\ round[w].cur = next /\ round[w].fix = w.fix
            /\ round[w] \in Walks
        <4>1. next \in Elems
          BY <3>3 DEF Movable
        <4>2. QED
          BY <2>5, <3>2, <4>1 DEF Walks
      <3>6. Left(round[w], P)
        BY <2>2, <3>1, <3>3, <3>5 DEF MovesOn
      <3> HIDE DEF P, Left, round
      <3>7. QED
        BY <3>3, <3>4, <3>5, <3>6
    <2>8. CASE next # Null /\ next \notin stay
      <3> DEFINE P == Half(k, N, next, OtherSide(side))
                 j == [w.link EXCEPT ![<<w.cur, side>>] = w.link[other], ![other] = Null,
                                     ![w.fix] = next]
      <3>1. MovesOn(j, w.link, k, P, N, side, stay, other, w.fix, w.cur, w.cur)
        BY <2>4, <2>8, MoveAway
      <3>2. round[w] = [w EXCEPT !.fix = other, !.link = j]
        BY <2>1, <2>8 DEF MoveRound
      <3>3. P \in SUBSET N /\ P # N /\ Movable(j, k, P, side, other, w.cur)
        BY <3>1 DEF MovesOn
      <3>4. Cardinality(P) + (n + 1) <= Entries
        BY <2>0, <2>2, <2>4, <3>3, FewerLeft
      <3>5. /\ round[w].link = j /\ round[w].cur = w.cur /\ round[w].fix = other
            /\ round[w] \in Walks
        <4>1. j \in Pointers /\ other \in Places
          BY <3>3 DEF Movable
        <4> HIDE DEF j, other
        <4>2. QED
          BY <2>5, <3>2, <4>1 DEF Walks
      <3> HIDE DEF j, other, next
      <3>6. Left(round[w], P)
        BY <2>2, <3>1, <3>3, <3>5 DEF MovesOn
      <3> HIDE DEF P, Left, round
      <3>7. QED
        BY <3>3, <3>4, <3>5, <3>6
    <2>9. QED
      BY <2>6, <2>7, <2>8
  <1> HIDE DEF I
  <1>4. Loop(round, start) \in I[Entries]
    BY <1>2, <1>3, LoopInvariant
  <1> DEFINE w == Loop(round, start)
  <1>5. PICK N \in SUBSET M : Cardinality(N) + Entries <= Entries /\ Left(w, N)
    BY <1>1, <1>4 DEF I
  <1>6. N = {}
    BY <1>5, NoneLeft
  <1>7. Moved(w.link, w.link, k, N, side, stay, w.fix, w.cur)
    <2>1. /\ w.link \in Pointers /\ w.link[w.fix] = Null
          /\ Treap(w.link, k, {}, w.link[<<w.cur, side>>])
      BY <1>5, <1>6 DEF Movable
    <2> HIDE DEF w
    <2>2. w.link[<<w.cur, side>>] = Null
      BY <2>1, EmptyTreap
    <2>3. QED
      BY <1>6, <2>1, <2>2, NoTreap DEF Moved
  <1>8. Moved(w.link, l, k, M, side, stay, fix, cur)
    BY <1>5, <1>7
  <1>9. QED
    BY <1>8 DEF MoveOver

-----------------------------------------------------------------------------
(* Merging two trees.                                                      *)

\* The trees of A and B, which are on the two sides of each other, are still to
\* be merged at edge.
Zippable(l, k, A, B, side, edge, v, w) ==
  /\ l \in Pointers /\ edge \in Places \ EdgesOf(A \cup B)
  /\ Treap(l, k, A, v) /\ Treap(l, k, B, w)
  /\ \A x \in A, y \in B : OnSide(k, x, y, side)

\* The pointers m are what Zip is to make of l.
Zipped(m, l, k, M, edge) ==
  /\ m \in Pointers
  /\ Treap(m, k, M, m[edge])
  /\ \A e \in Places : e \notin EdgesOf(M) \cup {edge} => m[e] = l[e]

ZipsOn(l1, l, k, A, B1, B, side, edge1, edge, v, w1) ==
  /\ B1 \subseteq B /\ A \cup B1 # A \cup B
  /\ Zippable(l1, k, A, B1, side, edge1, v, w1)
  /\ \A m : Zipped(m, l1, k, A \cup B1, edge1) => Zipped(m, l, k, A \cup B, edge)

\* One round: the top w of the tree of B is above the tree of A.
LEMMA ZipOn ==
  ASSUME RankInv, NEW l, NEW k, NEW A \in SUBSET Elems, NEW B \in SUBSET Elems,
         Keyed(k, A \cup B), NEW side \in Sides, NEW edge, NEW v, NEW w,
         Zippable(l, k, A, B, side, edge, v, w),
         v # Null, w # Null, Below(v, w)
  PROVE  /\ <<w, side>> \in Places
         /\ ZipsOn([l EXCEPT ![edge] = w], l, k, A, Half(k, B, w, side), B, side,
                   <<w, side>>, edge, v, l[<<w, side>>])
  <1> DEFINE j == [l EXCEPT ![edge] = w]
             H == Half(k, B, w, side)
             other == OtherSide(side)
             K == Half(k, B, w, other)
             M == A \cup B
  <1>1. /\ A # {} /\ B # {} /\ Keyed(k, A) /\ Keyed(k, B)
        /\ Treap(l, k, A, v) /\ Treap(l, k, B, w)
        /\ edge \in Places /\ edge \notin EdgesOf(M)
        /\ l \in Pointers
    BY EmptyTreap DEF Zippable, Keyed
  <1>2. v \in A /\ IsTop(v, A)
    BY <1>1, Unfold
  <1>3. /\ w \in B /\ w \in Elems /\ IsTop(w, B)
        /\ Treap(l, k, H, l[<<w, side>>]) /\ Treap(l, k, K, l[<<w, other>>])
    BY <1>1, Unfold, SideFacts
  <1>4. SidesOrder(k, M) /\ other \in Sides /\ other # side
    BY KeysAreOrdered, SideFacts
  <1>5. \A x \in A : OnSide(k, x, w, side) /\ ~OnSide(k, x, w, other) /\ x # w /\ x \notin B
    BY <1>3, <1>4 DEF Zippable, SidesOrder
  <1>6. IsTop(w, M)
    <2> SUFFICES ASSUME NEW y \in A PROVE Below(y, w)
      BY <1>3 DEF IsTop
    <2>1. v \in Elems /\ y \in Elems /\ w \in Elems
      BY <1>2, <1>3
    <2>2. y = v \/ Below(y, v)
      BY <1>1, <1>2 DEF IsTop
    <2>3. QED
      BY <2>1, <2>2, RanksAreOrdered
  <1>7. H \subseteq B /\ K \subseteq B /\ w \notin H /\ w \notin K /\ H \cap K = {}
    BY <1>3, <1>4 DEF Half, SidesOrder
  <1>8. Half(k, M, w, side) = A \cup H
    BY <1>5 DEF Half
  <1>9. Half(k, M, w, other) = K
    BY <1>5 DEF Half
  <1>10. <<w, side>> \in Places /\ <<w, side>> \in EdgesOf(M) /\ <<w, side>> \notin EdgesOf(A \cup H)
    BY <1>3, <1>5, <1>7, PlaceFacts, EdgesOfIs
  <1> HIDE DEF H, K, other, M
  <1>11. j \in Pointers /\ j[edge] = w /\ \A e \in Places : e # edge => j[e] = l[e]
    BY <1>1, <1>3 DEF Pointers
  <1> HIDE DEF j
  <1>12. \A x \in M, s \in Sides : j[<<x, s>>] = l[<<x, s>>] /\ <<x, s>> \in Places
    <2> SUFFICES ASSUME NEW x \in M, NEW s \in Sides
                 PROVE  j[<<x, s>>] = l[<<x, s>>] /\ <<x, s>> \in Places
      OBVIOUS
    <2>1. <<x, s>> \in Places /\ <<x, s>> # edge
      BY <1>1, PlaceFacts, EdgesOfIs DEF M
    <2>2. QED
      BY <1>11, <2>1
  <1>13. A \subseteq M /\ B \subseteq M /\ H \subseteq M /\ K \subseteq M
    BY <1>7 DEF M
  <1>14. Zippable(j, k, A, H, side, <<w, side>>, v, l[<<w, side>>])
    <2>1. Treap(j, k, A, v) /\ Treap(j, k, H, l[<<w, side>>])
      BY <1>1, <1>3, <1>12, <1>13, SameTreap
    <2>2. \A x \in A, y \in H : OnSide(k, x, y, side)
      BY <1>7 DEF Zippable
    <2>3. QED
      BY <1>10, <1>11, <2>1, <2>2 DEF Zippable
  <1>15. ASSUME NEW m, Zipped(m, j, k, A \cup H, <<w, side>>)
         PROVE  Zipped(m, l, k, M, edge)
    <2>1. \A e \in Places : e \notin EdgesOf(A \cup H) \cup {<<w, side>>} => m[e] = j[e]
      BY <1>15 DEF Zipped
    <2>2. \A e \in Places : e \notin EdgesOf(M) \cup {edge} => m[e] = l[e]
      BY <1>7, <1>10, <1>11, <2>1, EdgesOfIs DEF M
    <2>3. m[edge] = w
      BY <1>1, <1>7, <1>10, <1>11, <2>1, EdgesOfIs DEF M
    <2>4. \A x \in K \cup {w}, s \in Sides :
            x # w \/ s = other => m[<<x, s>>] = l[<<x, s>>]
      <3> SUFFICES ASSUME NEW x \in K \cup {w}, NEW s \in Sides, x # w \/ s = other
                   PROVE  m[<<x, s>>] = l[<<x, s>>]
        OBVIOUS
      <3>1. x \in M /\ x \notin H /\ x \notin A /\ x \in Elems
        BY <1>3, <1>5, <1>7, <1>13
      <3>2. <<x, s>> \notin EdgesOf(A \cup H) \cup {<<w, side>>}
        BY <1>4, <3>1, PlaceFacts, EdgesOfIs
      <3>3. QED
        BY <1>12, <2>1, <3>1, <3>2
    <2>5. Treap(m, k, K, m[<<w, other>>])
      <3>1. Treap(m, k, K, l[<<w, other>>])
        BY <1>3, <1>7, <2>4, SameTreap
      <3>2. QED
        BY <1>4, <2>4, <3>1
    <2>6. Treap(m, k, A \cup H, m[<<w, side>>])
      BY <1>15 DEF Zipped
    <2>7. Treap(m, k, M, w)
      <3>1. \A s \in Sides : Treap(m, k, Half(k, M, w, s), m[<<w, s>>])
        BY <1>8, <1>9, <2>5, <2>6, SideFacts DEF other
      <3>2. w \in M /\ M \in SUBSET Elems /\ Keyed(k, M)
        BY <1>3 DEF M
      <3>3. QED
        BY <1>6, <3>1, <3>2, Fold
    <2>8. QED
      BY <1>15, <2>2, <2>3, <2>7 DEF Zipped
  <1>16. A \cup H # M
    BY <1>3, <1>5, <1>7 DEF M
  <1>17. ZipsOn(j, l, k, A, H, B, side, <<w, side>>, edge, v, l[<<w, side>>])
    BY <1>7, <1>14, <1>15, <1>16 DEF ZipsOn, M
  <1>18. QED
    BY <1>10, <1>17 DEF j, H

\* What holds of a merge holds with both trees exchanged.
LEMMA ZipSwapped ==
  ASSUME NEW l, NEW k, NEW A \in SUBSET Elems, NEW B \in SUBSET Elems, Keyed(k, A \cup B),
         NEW side \in Sides, NEW edge, NEW v, NEW w,
         Zippable(l, k, A, B, side, edge, v, w)
  PROVE  Zippable(l, k, B, A, OtherSide(side), edge, w, v)
  <1>1. SidesOrder(k, A \cup B) /\ B \cup A = A \cup B
    BY KeysAreOrdered
  <1>2. \A x \in B, y \in A : OnSide(k, x, y, OtherSide(side))
    BY <1>1 DEF Zippable, SidesOrder
  <1>3. QED
    BY <1>1, <1>2 DEF Zippable

\* Where one of the trees is empty, the other one is the rest.
LEMMA ZipEnds ==
  ASSUME NEW l, NEW k, NEW A \in SUBSET Elems, NEW B \in SUBSET Elems, NEW side, NEW edge,
         NEW v, NEW w, Zippable(l, k, A, B, side, edge, v, w), Null \in {v, w}
  PROVE  Zipped([l EXCEPT ![edge] = IF v # Null THEN v ELSE w], l, k, A \cup B, edge)
  <1> DEFINE u == IF v # Null THEN v ELSE w
             j == [l EXCEPT ![edge] = u]
  <1>1. Treap(l, k, A, v) /\ Treap(l, k, B, w)
    BY DEF Zippable
  <1>2. (v = Null <=> A = {}) /\ (w = Null <=> B = {})
    BY <1>1, EmptyTreap
  <1>3. Treap(l, k, A \cup B, u)
    <2>1. CASE v # Null
      <3>1. w = Null /\ B = {} /\ A \cup B = A
        BY <1>2, <2>1
      <3>2. QED
        BY <1>1, <2>1, <3>1
    <2>2. CASE v = Null
      <3>1. A \cup B = B
        BY <1>2, <2>2
      <3>2. QED
        BY <1>1, <2>2, <3>1
    <2>3. QED
      BY <2>1, <2>2
  <1>4. u \in Elems \cup {Null}
    BY <1>2, <1>3 DEF Treap, IsTop
  <1>5. l \in Pointers /\ edge \in Places /\ edge \notin EdgesOf(A \cup B)
    BY DEF Zippable
  <1> HIDE DEF u
  <1>6. j \in Pointers /\ j[edge] = u /\ \A e \in Places : e # edge => j[e] = l[e]
    BY <1>4, <1>5 DEF Pointers
  <1> HIDE DEF j
  <1>7. Treap(j, k, A \cup B, u)
    <2> SUFFICES ASSUME NEW x \in A \cup B, NEW s \in Sides PROVE j[<<x, s>>] = l[<<x, s>>]
      BY <1>3, SameTreap
    <2>1. <<x, s>> \in Places /\ <<x, s>> # edge
      BY <1>5, PlaceFacts, EdgesOfIs
    <2>2. QED
      BY <1>6, <2>1
  <1>8. QED
    BY <1>6, <1>7 DEF Zipped, j, u

\* __ZIP_ZIP merges the trees.
LEMMA ZipMerges ==
  ASSUME RankInv, NEW l, NEW k, NEW A \in SUBSET Elems, NEW B \in SUBSET Elems,
         Keyed(k, A \cup B), NEW edge, NEW v, NEW w,
         Zippable(l, k, A, B, "left", edge, v, w)
  PROVE  Zipped(Zip(l, edge, v, w), l, k, A \cup B, edge)
  <1> DEFINE start == [link |-> l, edge |-> edge, left |-> v, right |-> w]
             M == A \cup B
             Left(z, C, D) ==
               /\ Zippable(z.link, k, C, D, "left", z.edge, z.left, z.right)
               /\ \A m : Zipped(m, z.link, k, C \cup D, z.edge) => Zipped(m, l, k, M, edge)
             Fewer(z, C, D, n) == Cardinality(C \cup D) + n <= Entries \/ Null \in {z.left, z.right}
             I == [n \in 0..Entries |->
                    {z \in Merges : \E C, D \in SUBSET M : C \cup D \in SUBSET M /\ Left(z, C, D) /\ Fewer(z, C, D, n)}]
  <1>1. Entries \in Nat /\ Keyed(k, M) /\ M \in SUBSET Elems
    BY EntriesAreNat
  <1>2. start \in I[0]
    <2>1. start \in Merges
      <3>1. v \in Elems \cup {Null} /\ w \in Elems \cup {Null}
        BY DEF Zippable, Treap, IsTop
      <3>2. QED
        BY <3>1 DEF Zippable, Merges
    <2>2. Left(start, A, B)
      OBVIOUS
    <2>3. Cardinality(M) + 0 <= Entries
      BY <1>1, AtMostAll
    <2>4. Fewer(start, A, B, 0)
      BY <2>3
    <2>5. A \in SUBSET M /\ B \in SUBSET M /\ A \cup B \in SUBSET M
      OBVIOUS
    <2> HIDE DEF Left, Fewer, start, M
    <2>6. QED
      BY <1>1, <2>1, <2>2, <2>4, <2>5
  <1>3. ASSUME NEW n \in 0..(Entries - 1), NEW z \in I[n] PROVE ZipRound[z] \in I[n + 1]
    <2>0. n \in 0..Entries /\ n + 1 \in 0..Entries /\ n \in Nat
      BY <1>1
    <2>1. z \in Merges
      BY <2>0
    <2>2. PICK C \in SUBSET M, D \in SUBSET M :
            C \cup D \in SUBSET M /\ Left(z, C, D) /\ Fewer(z, C, D, n)
      BY <2>0
    <2>3. SUFFICES \E X, Y \in SUBSET M :
            /\ X \cup Y \in SUBSET M /\ Left(ZipRound[z], X, Y)
            /\ Fewer(ZipRound[z], X, Y, n + 1) /\ ZipRound[z] \in Merges
      BY <2>0
    <2>4. /\ C \in SUBSET Elems /\ D \in SUBSET Elems /\ Keyed(k, C \cup D) /\ Keyed(k, D \cup C)
          /\ Zippable(z.link, k, C, D, "left", z.edge, z.left, z.right)
          /\ C \cup D \in SUBSET Elems /\ D \cup C = C \cup D
      BY <1>1, <2>2 DEF Keyed
    <2>5. /\ z.link \in Pointers /\ z.edge \in Places
          /\ z.left \in Elems \cup {Null} /\ z.right \in Elems \cup {Null}
          /\ z = [link |-> z.link, edge |-> z.edge, left |-> z.left, right |-> z.right]
      BY <2>1 DEF Merges
    <2>6. CASE Null \in {z.left, z.right}
      <3>1. ZipRound[z] = z
        BY <2>1, <2>6 DEF ZipRound
      <3> HIDE DEF Left, M
      <3>2. QED
        BY <2>1, <2>2, <2>6, <3>1
    <2>7. CASE ~(Null \in {z.left, z.right}) /\ Below(z.left, z.right)
      <3> DEFINE edge1 == <<z.right, "left">>
                 H == Half(k, D, z.right, "left")
                 j == [z.link EXCEPT ![z.edge] = z.right]
                 right1 == z.link[edge1]
      <3>1. /\ edge1 \in Places
            /\ ZipsOn(j, z.link, k, C, H, D, "left", edge1, z.edge, z.left, right1)
        BY <2>4, <2>7, ZipOn, SideFacts
      <3>2. ZipRound[z] = [z EXCEPT !.link = j, !.edge = edge1, !.right = right1]
        BY <2>1, <2>7 DEF ZipRound
      <3>3. /\ C \cup H \in SUBSET (C \cup D) /\ C \cup H # C \cup D /\ H \in SUBSET M
            /\ Zippable(j, k, C, H, "left", edge1, z.left, right1)
        BY <2>2, <3>1 DEF ZipsOn
      <3>4. CASE Cardinality(C \cup D) + n <= Entries
        <4>1. Cardinality(C \cup H) + (n + 1) <= Entries
          BY <2>0, <2>4, <3>3, <3>4, FewerLeft
        <4>2. /\ ZipRound[z].link = j /\ ZipRound[z].edge = edge1 /\ ZipRound[z].left = z.left
              /\ ZipRound[z].right = right1 /\ ZipRound[z] \in Merges
          <5>1. j \in Pointers
            BY <3>3 DEF Zippable
          <5>2. right1 \in Elems \cup {Null}
            BY <2>5, <3>1, PointsToElem
          <5> HIDE DEF j, right1, edge1
          <5>3. QED
            BY <2>5, <3>1, <3>2, <5>1, <5>2 DEF Merges
        <4> HIDE DEF H, j, right1, edge1
        <4>3. Left(ZipRound[z], C, H)
          BY <2>2, <3>1, <3>3, <4>2 DEF ZipsOn
        <4>4. Fewer(ZipRound[z], C, H, n + 1)
          BY <4>1
        <4>5. C \cup H \in SUBSET M
          BY <2>2, <3>3
        <4> HIDE DEF Left, Fewer, M
        <4>6. QED
          BY <2>2, <3>3, <4>2, <4>3, <4>4, <4>5
      <3>5. QED
        BY <2>2, <2>7, <3>4
    <2>8. CASE ~(Null \in {z.left, z.right}) /\ ~Below(z.left, z.right)
      <3> DEFINE edge1 == <<z.left, "right">>
                 H == Half(k, C, z.left, "right")
                 j == [z.link EXCEPT ![z.edge] = z.left]
                 left1 == z.link[edge1]
      <3>0. Below(z.right, z.left)
        <4>1. Treap(z.link, k, C, z.left) /\ Treap(z.link, k, D, z.right)
          BY <2>4 DEF Zippable
        <4>2. z.left \in C /\ z.right \in D
          BY <2>8, <4>1 DEF Treap, IsTop
        <4>3. OnSide(k, z.left, z.right, "left")
          BY <2>4, <4>2 DEF Zippable
        <4>4. z.left # z.right
          BY <2>4, <4>2, <4>3, KeysAreOrdered, SideFacts DEF SidesOrder
        <4>5. QED
          BY <2>4, <2>8, <4>2, <4>4, RanksAreOrdered
      <3>1. Zippable(z.link, k, D, C, "right", z.edge, z.right, z.left)
        <4>1. Zippable(z.link, k, D, C, OtherSide("left"), z.edge, z.right, z.left)
          BY <2>4, ZipSwapped, SideFacts
        <4>2. QED
          BY <4>1, SideFacts
      <3>2. /\ edge1 \in Places
            /\ ZipsOn(j, z.link, k, D, H, C, "right", edge1, z.edge, z.right, left1)
        BY <2>4, <2>8, <3>0, <3>1, ZipOn, SideFacts
      <3>3. ZipRound[z] = [z EXCEPT !.link = j, !.edge = edge1, !.left = left1]
        BY <2>1, <2>8 DEF ZipRound
      <3>4. /\ H \subseteq C /\ D \cup H # D \cup C
            /\ Zippable(j, k, D, H, "right", edge1, z.right, left1)
        BY <3>2 DEF ZipsOn
      <3>5. /\ H \cup D \in SUBSET (C \cup D) /\ H \cup D # C \cup D /\ H \in SUBSET M
            /\ H \cup D = D \cup H /\ H \in SUBSET Elems
        BY <2>4, <2>2, <3>4
      <3>6. Zippable(j, k, H, D, "left", edge1, left1, z.right)
        <4>1. Keyed(k, D \cup H)
          BY <2>4, <3>5 DEF Keyed
        <4> HIDE DEF H, j, left1, edge1
        <4>2. Zippable(j, k, H, D, OtherSide("right"), edge1, left1, z.right)
          BY <2>4, <3>4, <3>5, <4>1, ZipSwapped, SideFacts
        <4>3. QED
          BY <4>2, SideFacts
      <3>7. CASE Cardinality(C \cup D) + n <= Entries
        <4>1. Cardinality(H \cup D) + (n + 1) <= Entries
          BY <2>0, <2>4, <3>5, <3>7, FewerLeft
        <4>2. /\ ZipRound[z].link = j /\ ZipRound[z].edge = edge1 /\ ZipRound[z].left = left1
              /\ ZipRound[z].right = z.right /\ ZipRound[z] \in Merges
          <5>1. j \in Pointers
            BY <3>4 DEF Zippable
          <5>2. left1 \in Elems \cup {Null}
            BY <2>5, <3>2, PointsToElem
          <5> HIDE DEF j, left1, edge1
          <5>3. QED
            BY <2>5, <3>2, <3>3, <5>1, <5>2 DEF Merges
        <4> HIDE DEF H, j, left1, edge1
        <4>3. \A m : Zipped(m, j, k, H \cup D, edge1) => Zipped(m, z.link, k, C \cup D, z.edge)
          BY <2>4, <3>2, <3>5 DEF ZipsOn
        <4>4. Left(ZipRound[z], H, D)
          BY <2>2, <3>6, <4>2, <4>3
        <4>5. Fewer(ZipRound[z], H, D, n + 1)
          BY <4>1
        <4>6. H \cup D \in SUBSET M
          BY <2>2, <3>5
        <4> HIDE DEF Left, Fewer, M
        <4>7. QED
          BY <2>2, <3>5, <4>2, <4>4, <4>5, <4>6
      <3>8. QED
        BY <2>2, <2>8, <3>7
    <2>9. QED
      BY <2>6, <2>7, <2>8
  <1> HIDE DEF I
  <1> DEFINE z == Loop(ZipRound, start)
  <1>4. z \in I[Entries]
    BY <1>2, <1>3, LoopInvariant
  <1> HIDE DEF z, Left, Fewer, M
  <1>5. PICK C \in SUBSET M, D \in SUBSET M :
          C \cup D \in SUBSET M /\ Left(z, C, D) /\ Fewer(z, C, D, Entries)
    BY <1>1, <1>4 DEF I
  <1> USE DEF Left, Fewer, M
  <1>6. Null \in {z.left, z.right}
    <2>1. CASE Cardinality(C \cup D) + Entries <= Entries
      <3>1. C \cup D = {}
        BY <1>1, <1>5, <2>1, NoneLeft
      <3>2. Treap(z.link, k, C, z.left) /\ C = {}
        BY <1>5, <3>1 DEF Zippable
      <3>3. QED
        BY <3>2, EmptyTreap
    <2>2. QED
      BY <1>5, <2>1
  <1>7. C \in SUBSET Elems /\ D \in SUBSET Elems
    BY <1>1, <1>5
  <1>8. Zipped([z.link EXCEPT ![z.edge] = IF z.left # Null THEN z.left ELSE z.right],
               z.link, k, C \cup D, z.edge)
    BY <1>5, <1>6, <1>7, ZipEnds
  <1>9. QED
    BY <1>5, <1>8 DEF Zip, z

-----------------------------------------------------------------------------
(* Going down a tree.                                                      *)

\* The subtree of M at edge may be exchanged for one of other elements out of M
\* and X, whatever else the pointers m change.
Fits(l, k, T, M, edge, X) ==
  \A m \in Pointers : \A N \in SUBSET (M \cup X) :
    /\ \A e \in {Tree} \cup EdgesOf(T \ M) : e # edge => m[e] = l[e]
    /\ Treap(m, k, N, m[edge])
    => Treap(m, k, (T \ M) \cup N, m[Tree])

\* The search in the tree of T is at edge, which points to the subtree of M.
At(l, k, T, M, edge, X) ==
  /\ l \in Pointers /\ M \in SUBSET T
  /\ edge \in {Tree} \cup EdgesOf(T \ M)
  /\ Treap(l, k, M, l[edge])
  /\ Fits(l, k, T, M, edge, X)

\* All ways down a tree start at its root.
LEMMA AtRoot ==
  ASSUME NEW l \in Pointers, NEW k, NEW T \in SUBSET Elems, NEW X, Treap(l, k, T, l[Tree])
  PROVE  At(l, k, T, T, Tree, X)
  <1>1. ASSUME NEW m \in Pointers, NEW N \in SUBSET (T \cup X), Treap(m, k, N, m[Tree])
        PROVE  Treap(m, k, (T \ T) \cup N, m[Tree])
    <2>1. (T \ T) \cup N = N
      OBVIOUS
    <2>2. QED
      BY <1>1, <2>1
  <1>2. QED
    BY <1>1 DEF At, Fits

\* The way down is at a pointer that is not one of the elements below it.
LEMMA AtPlace ==
  ASSUME NEW l, NEW k, NEW T \in SUBSET Elems, NEW M, NEW edge, NEW X, At(l, k, T, M, edge, X)
  PROVE  edge \in Places /\ edge \notin EdgesOf(M) /\ M \in SUBSET Elems
  <1>1. CASE edge = Tree
    BY <1>1, PlaceFacts, EdgesOfIs DEF At
  <1>2. CASE edge \in EdgesOf(T \ M)
    BY <1>2, PlaceFacts, EdgesOfIs DEF At
  <1>3. QED
    BY <1>1, <1>2 DEF At

\* The search goes down to the half where the elements X belong.
LEMMA AtHalf ==
  ASSUME RankInv, NEW l, NEW k, NEW T \in SUBSET Elems, NEW M, NEW edge, NEW X \in SUBSET Elems,
         Keyed(k, T), Keyed(k, X), At(l, k, T, M, edge, X), l[edge] # Null, NEW side \in Sides,
         \A x \in X : OnSide(k, x, l[edge], side) /\ Below(x, l[edge])
  PROVE  /\ l[edge] \in M
         /\ Half(k, M, l[edge], side) # M
         /\ At(l, k, T, Half(k, M, l[edge], side), <<l[edge], side>>, X)
  <1> DEFINE c == l[edge]
             other == OtherSide(side)
             H == Half(k, M, c, side)
             K == Half(k, M, c, other)
  <1>1. /\ l \in Pointers /\ M \subseteq T /\ M \in SUBSET Elems /\ Keyed(k, M) /\ Keyed(k, T \cup X)
        /\ edge \in {Tree} \cup EdgesOf(T \ M)
        /\ Treap(l, k, M, c) /\ edge \in Places /\ edge \notin EdgesOf(M)
        /\ T \cup X \in SUBSET Elems /\ c # Null
    BY AtPlace DEF At, Keyed
  <1>2. M # {}
    BY <1>1, EmptyTreap
  <1>3. /\ c \in M /\ c \in Elems /\ IsTop(c, M)
        /\ Treap(l, k, H, l[<<c, side>>]) /\ Treap(l, k, K, l[<<c, other>>])
    BY <1>1, <1>2, Unfold, SideFacts
  <1>4. SidesOrder(k, T \cup X) /\ other \in Sides /\ other # side
    BY <1>1, KeysAreOrdered, SideFacts
  <1>5. H \subseteq M /\ K \subseteq M /\ c \notin H /\ c \notin K /\ H \cap K = {}
    BY <1>1, <1>3, <1>4 DEF Half, SidesOrder
  <1>6. \A x \in X : x # c /\ OnSide(k, x, c, side) /\ ~OnSide(k, x, c, other) /\ Below(x, c)
    BY <1>1, <1>3, <1>4 DEF SidesOrder
  <1>7. \A x \in M : x = c \/ x \in H \/ x \in K
    BY <1>1, <1>3, <1>4 DEF Half, SidesOrder
  <1>8. \A x \in H : OnSide(k, x, c, side) /\ ~OnSide(k, x, c, other)
    BY <1>1, <1>3, <1>4 DEF Half, SidesOrder
  <1>9. \A x \in K : OnSide(k, x, c, other) /\ ~OnSide(k, x, c, side)
    BY <1>1, <1>3, <1>4 DEF Half, SidesOrder
  <1>10. ~OnSide(k, c, c, side) /\ ~OnSide(k, c, c, other)
    BY <1>1, <1>3, <1>4 DEF SidesOrder
  <1> HIDE DEF c, H, K, other
  <1>11. ASSUME NEW m \in Pointers, NEW N \in SUBSET (H \cup X),
                \A e \in {Tree} \cup EdgesOf(T \ H) : e # <<c, side>> => m[e] = l[e],
                Treap(m, k, N, m[<<c, side>>])
         PROVE  Treap(m, k, (T \ H) \cup N, m[Tree])
    <2> DEFINE P == {c} \cup N \cup K
    <2>1. m[edge] = c
      <3>1. edge \in {Tree} \cup EdgesOf(T \ H)
        BY <1>1, <1>5, EdgesOfIs
      <3>2. edge # <<c, side>>
        BY <1>1, <1>3, EdgesOfIs
      <3>3. QED
        BY <1>11, <3>1, <3>2 DEF c
    <2>2. \A x \in K \cup {c}, s \in Sides : x # c \/ s = other => m[<<x, s>>] = l[<<x, s>>]
      <3> SUFFICES ASSUME NEW x \in K \cup {c}, NEW s \in Sides, x # c \/ s = other
                   PROVE  m[<<x, s>>] = l[<<x, s>>]
        OBVIOUS
      <3>1. x \in T \ H
        BY <1>1, <1>3, <1>5
      <3>2. <<x, s>> \in EdgesOf(T \ H) /\ <<x, s>> # <<c, side>>
        BY <1>4, <3>1, EdgesOfIs
      <3>3. QED
        BY <1>11, <3>2
    <2>3. Treap(m, k, K, m[<<c, other>>])
      <3>1. Treap(m, k, K, l[<<c, other>>])
        BY <1>3, <1>5, <2>2, SameTreap
      <3>2. QED
        BY <1>4, <2>2, <3>1
    <2>4. P \in SUBSET (M \cup X) /\ P \in SUBSET Elems /\ c \in P
      BY <1>1, <1>3, <1>5
    <2>5. Half(k, P, c, side) = N
      <3>1. \A x \in N : OnSide(k, x, c, side)
        BY <1>6, <1>8
      <3>2. QED
        BY <1>9, <1>10, <3>1 DEF Half
    <2>6. Half(k, P, c, other) = K
      <3>1. \A x \in N : ~OnSide(k, x, c, other)
        BY <1>6, <1>8
      <3>2. QED
        BY <1>9, <1>10, <3>1 DEF Half
    <2>7. IsTop(c, P)
      <3>1. \A y \in P : y # c => y \in M \/ y \in X
        BY <2>4
      <3>2. QED
        BY <1>2, <1>3, <1>6, <2>4, <3>1 DEF IsTop
    <2>8. Keyed(k, P)
      BY <1>1, <2>4 DEF Keyed
    <2> HIDE DEF P
    <2>9. Treap(m, k, P, c)
      <3>1. \A s \in Sides : Treap(m, k, Half(k, P, c, s), m[<<c, s>>])
        BY <1>11, <2>3, <2>5, <2>6, SideFacts DEF other
      <3>2. QED
        BY <2>4, <2>7, <2>8, <3>1, Fold
    <2>10. \A e \in {Tree} \cup EdgesOf(T \ M) : e # edge => m[e] = l[e]
      <3> SUFFICES ASSUME NEW e \in {Tree} \cup EdgesOf(T \ M) PROVE m[e] = l[e]
        OBVIOUS
      <3>1. e # <<c, side>>
        BY <1>3, PlaceFacts, EdgesOfIs
      <3>2. e \in {Tree} \cup EdgesOf(T \ H)
        BY <1>5, EdgesOfIs
      <3>3. QED
        BY <1>11, <3>1, <3>2
    <2>11. Treap(m, k, (T \ M) \cup P, m[Tree])
      BY <2>1, <2>4, <2>9, <2>10 DEF At, Fits
    <2>12. (T \ M) \cup P = (T \ H) \cup N
      BY <1>1, <1>3, <1>5, <1>7 DEF P
    <2>13. QED
      BY <2>11, <2>12
  <1>12. <<c, side>> \in EdgesOf(T \ H)
    BY <1>1, <1>3, <1>5, EdgesOfIs
  <1>13. At(l, k, T, H, <<c, side>>, X)
    <2>1. Fits(l, k, T, H, <<c, side>>, X)
      BY <1>11 DEF Fits
    <2>2. H \in SUBSET T
      BY <1>1, <1>5
    <2>3. QED
      BY <1>1, <1>3, <1>12, <2>1, <2>2 DEF At
  <1>14. QED
    BY <1>3, <1>5, <1>13 DEF c, H

-----------------------------------------------------------------------------
(* The search of an entry.                                                 *)

\* The search ends at the edge to x if x is in the tree, and at an edge to no
\* entry otherwise.
LEMMA SearchEnds ==
  ASSUME RankInv, NEW l \in Pointers, NEW k, NEW T \in SUBSET Elems, NEW x \in Elems,
         Keyed(k, T \cup {x}), Treap(l, k, T, l[Tree])
  PROVE  \E M \in SUBSET T :
           /\ At(l, k, T, M, Search(l, k, x), {})
           /\ IF x \in T THEN x \in M /\ l[Search(l, k, x)] = x ELSE l[Search(l, k, x)] = Null
  <1> DEFINE round == SearchRound(l, k, x)
             Near(e, M) == At(l, k, T, M, e, {}) /\ (x \in T => x \in M)
             I == [n \in 0..Entries |->
                    {e \in Places : \E M \in SUBSET T :
                       Near(e, M) /\ (Cardinality(M) + n <= Entries \/ l[e] = x)}]
  <1>1. Entries \in Nat /\ Keyed(k, T) /\ Keyed(k, {}) /\ SidesOrder(k, T \cup {x})
    <2>1. T \cup {x} \in SUBSET Elems
      OBVIOUS
    <2>2. QED
      BY <2>1, EntriesAreNat, KeysAreOrdered DEF Keyed
  <1>2. Tree \in I[0]
    <2>1. Near(Tree, T)
      BY AtRoot
    <2>2. Cardinality(T) + 0 <= Entries
      BY AtMostAll
    <2> HIDE DEF Near
    <2>3. QED
      BY <1>1, <2>1, <2>2, PlaceFacts
  <1>3. ASSUME NEW n \in 0..(Entries - 1), NEW e \in I[n] PROVE round[e] \in I[n + 1]
    <2>0. n \in 0..Entries /\ n + 1 \in 0..Entries /\ n \in Nat
      BY <1>1
    <2>1. PICK M \in SUBSET T : Near(e, M) /\ (Cardinality(M) + n <= Entries \/ l[e] = x)
      BY <2>0
    <2>2. e \in Places /\ M \in SUBSET Elems
      BY <2>0
    <2>3. SUFFICES \E N \in SUBSET T :
            /\ Near(round[e], N) /\ (Cardinality(N) + (n + 1) <= Entries \/ l[round[e]] = x)
            /\ round[e] \in Places
      BY <2>0
    <2>4. CASE l[e] = x
      <3>1. round[e] = e
        BY <2>2, <2>4 DEF SearchRound
      <3>2. QED
        BY <2>1, <2>2, <2>4, <3>1
    <2>5. CASE l[e] # x /\ l[e] = Null
      <3>1. round[e] = e
        BY <2>2, <2>5 DEF SearchRound
      <3>2. M = {}
        BY <2>1, <2>2, <2>5, EmptyTreap DEF At
      <3>3. Cardinality(M) + (n + 1) <= Entries
        BY <1>1, <3>2, FS_EmptySet
      <3>4. QED
        BY <2>1, <2>2, <3>1, <3>3
    <2>6. CASE l[e] # x /\ l[e] # Null
      <3> DEFINE side == IF Before(k, x, l[e]) THEN "left" ELSE "right"
                 N == Half(k, M, l[e], side)
      <3>1. round[e] = <<l[e], side>>
        BY <2>2, <2>6 DEF SearchRound
      <3>2. side \in Sides
        BY SideFacts
      <3> HIDE DEF side
      <3>3. l[e] \in M /\ N # M /\ At(l, k, T, N, <<l[e], side>>, {})
        BY <1>1, <2>1, <2>6, <3>2, AtHalf
      <3>4. x \in M => x \in N
        <4>1. SUFFICES ASSUME x \in M PROVE OnSide(k, x, l[e], side)
          BY DEF Half
        <4>2. l[e] \in T \cup {x}
          BY <3>3
        <4>3. QED
          BY <1>1, <2>6, <4>1, <4>2, SideFacts DEF side, SidesOrder, OnSide
      <3>5. N \in SUBSET M
        BY DEF Half
      <3>6. Cardinality(N) + (n + 1) <= Entries
        BY <2>0, <2>1, <2>2, <2>6, <3>3, <3>5, FewerLeft
      <3>7. <<l[e], side>> \in Places
        BY <2>2, <3>2, <3>3, PlaceFacts
      <3>8. Near(<<l[e], side>>, N)
        BY <2>1, <3>3, <3>4
      <3> HIDE DEF N, Near, round
      <3>9. QED
        BY <2>1, <3>1, <3>5, <3>6, <3>7, <3>8
    <2>7. QED
      BY <2>4, <2>5, <2>6
  <1> HIDE DEF I
  <1> DEFINE e == Loop(round, Tree)
  <1>4. e \in I[Entries]
    BY <1>2, <1>3, LoopInvariant
  <1> HIDE DEF e
  <1>5. PICK M \in SUBSET T : Near(e, M) /\ (Cardinality(M) + Entries <= Entries \/ l[e] = x)
    BY <1>1, <1>4 DEF I
  <1>6. Treap(l, k, M, l[e]) /\ M \in SUBSET Elems
    BY <1>5 DEF At
  <1>7. CASE l[e] = x
    <2>1. x \in M
      BY <1>6, <1>7, PlaceFacts DEF Treap, IsTop
    <2>2. QED
      BY <1>5, <1>7, <2>1 DEF e, Search
  <1>8. CASE l[e] # x
    <2>1. M = {}
      BY <1>5, <1>6, <1>8, NoneLeft
    <2>2. l[e] = Null /\ x \notin T
      BY <1>5, <1>6, <2>1, EmptyTreap
    <2>3. QED
      BY <1>5, <2>2 DEF e, Search
  <1>9. QED
    BY <1>7, <1>8

\* The element x is taken out of the tree, and the pointers of other entries are
\* left alone.
Removed(m, l, k, T, x) ==
  /\ m \in Pointers /\ Treap(m, k, T \ {x}, m[Tree])
  /\ \A d \in Places : d \notin {Tree} \cup EdgesOf(T) => m[d] = l[d]

\* __ZIP_REMOVE of an element of the tree
LEMMA RemoveTakes ==
  ASSUME RankInv, NEW l \in Pointers, NEW k, NEW T \in SUBSET Elems, NEW x \in T,
         Keyed(k, T), Treap(l, k, T, l[Tree])
  PROVE  Removed(Zip(l, Search(l, k, x), l[<<x, "left">>], l[<<x, "right">>]), l, k, T, x)
  <1> DEFINE e == Search(l, k, x)
             m == Zip(l, e, l[<<x, "left">>], l[<<x, "right">>])
  <1>1. Keyed(k, T \cup {x})
    BY DEF Keyed
  <1>2. PICK M \in SUBSET T : At(l, k, T, M, e, {}) /\ x \in M /\ l[e] = x
    BY <1>1, SearchEnds
  <1>3. /\ e \in Places /\ e \notin EdgesOf(M) /\ M \in SUBSET Elems /\ Keyed(k, M)
        /\ e \in {Tree} \cup EdgesOf(T \ M)
        /\ Treap(l, k, M, x)
    BY <1>2, AtPlace DEF At, Keyed
  <1> HIDE DEF e
  <1> DEFINE A == Half(k, M, x, "left")
             B == Half(k, M, x, "right")
  <1>4. Treap(l, k, A, l[<<x, "left">>]) /\ Treap(l, k, B, l[<<x, "right">>])
    BY <1>2, <1>3, Unfold, SideFacts
  <1>5. SidesOrder(k, M)
    BY <1>3, KeysAreOrdered
  <1>6. /\ A \cup B = M \ {x} /\ A \in SUBSET Elems /\ B \in SUBSET Elems
        /\ Keyed(k, A \cup B)
    BY <1>2, <1>3, <1>5, SideFacts DEF Half, SidesOrder, Keyed
  <1>7. \A y \in A, z \in B : OnSide(k, y, z, "left")
    <2> SUFFICES ASSUME NEW y \in A, NEW z \in B PROVE OnSide(k, y, z, "left")
      OBVIOUS
    <2>1. y \in M /\ z \in M /\ OnSide(k, y, x, "left") /\ OnSide(k, z, x, OtherSide("left"))
      BY SideFacts DEF Half
    <2>2. OnSide(k, x, z, "left")
      BY <1>2, <1>5, <2>1, SideFacts DEF SidesOrder
    <2>3. QED
      BY <1>2, <1>5, <2>1, <2>2, SideFacts DEF SidesOrder
  <1>8. e \notin EdgesOf(A \cup B)
    BY <1>3, <1>6, EdgesOfIs
  <1>9. Zippable(l, k, A, B, "left", e, l[<<x, "left">>], l[<<x, "right">>])
    BY <1>3, <1>4, <1>7, <1>8 DEF Zippable
  <1>10. Zipped(m, l, k, A \cup B, e)
    BY <1>6, <1>9, ZipMerges
  <1> HIDE DEF A, B, m
  <1>11. /\ m \in Pointers /\ Treap(m, k, M \ {x}, m[e])
         /\ \A d \in Places : d \notin EdgesOf(M \ {x}) \cup {e} => m[d] = l[d]
    BY <1>6, <1>10 DEF Zipped
  <1>12. Treap(m, k, T \ {x}, m[Tree])
    <2>1. \A d \in {Tree} \cup EdgesOf(T \ M) : d # e => m[d] = l[d]
      <3> SUFFICES ASSUME NEW d \in {Tree} \cup EdgesOf(T \ M), d # e PROVE m[d] = l[d]
        OBVIOUS
      <3>1. d \in Places /\ d \notin EdgesOf(M \ {x})
        BY PlaceFacts, EdgesOfIs
      <3>2. QED
        BY <1>11, <3>1
    <2>2. M \ {x} \in SUBSET (M \cup {})
      OBVIOUS
    <2>3. Treap(m, k, (T \ M) \cup (M \ {x}), m[Tree])
      BY <1>2, <1>11, <2>1, <2>2 DEF At, Fits
    <2>4. (T \ M) \cup (M \ {x}) = T \ {x}
      BY <1>2
    <2>5. QED
      BY <2>3, <2>4
  <1>13. \A d \in Places : d \notin {Tree} \cup EdgesOf(T) => m[d] = l[d]
    BY <1>3, <1>11, EdgesOfIs
  <1>14. QED
    BY <1>11, <1>12, <1>13 DEF Removed, m, e

-----------------------------------------------------------------------------
(* Insertion.                                                              *)

\* The way down for a new entry ends above entries of lower ranks only.
LEMMA PlaceEnds ==
  ASSUME RankInv, NEW l \in Pointers, NEW k, NEW T \in SUBSET Elems, NEW x \in Elems \ T,
         Keyed(k, T \cup {x}), Treap(l, k, T, l[Tree])
  PROVE  \E M \in SUBSET T :
           At(l, k, T, M, Place(l, k, x), {x}) /\ \A y \in M : Below(y, x)
  <1> DEFINE round == PlaceRound(l, k, x)
             Over(e, M) == M # {} /\ Below(l[e], x)
             I == [n \in 0..Entries |->
                    {e \in Places : \E M \in SUBSET T :
                       /\ At(l, k, T, M, e, {x})
                       /\ Cardinality(M) + n <= Entries \/ Over(e, M)}]
  <1>1. Entries \in Nat /\ Keyed(k, T) /\ Keyed(k, {x}) /\ SidesOrder(k, T \cup {x})
    <2>1. T \cup {x} \in SUBSET Elems
      OBVIOUS
    <2>2. QED
      BY <2>1, EntriesAreNat, KeysAreOrdered DEF Keyed
  <1>2. Tree \in I[0]
    <2>1. At(l, k, T, T, Tree, {x})
      BY AtRoot
    <2>2. Cardinality(T) + 0 <= Entries
      BY AtMostAll
    <2>3. QED
      BY <1>1, <2>1, <2>2, PlaceFacts
  <1>3. ASSUME NEW n \in 0..(Entries - 1), NEW e \in I[n] PROVE round[e] \in I[n + 1]
    <2>0. n \in 0..Entries /\ n + 1 \in 0..Entries /\ n \in Nat
      BY <1>1
    <2>1. PICK M \in SUBSET T : /\ At(l, k, T, M, e, {x})
                                /\ Cardinality(M) + n <= Entries \/ Over(e, M)
      BY <2>0
    <2>2. e \in Places /\ M \in SUBSET Elems /\ Treap(l, k, M, l[e])
      BY <2>0, <2>1 DEF At
    <2>3. SUFFICES \E N \in SUBSET T :
            /\ At(l, k, T, N, round[e], {x})
            /\ Cardinality(N) + (n + 1) <= Entries \/ Over(round[e], N)
            /\ round[e] \in Places
      BY <2>0
    <2>4. CASE l[e] = Null
      <3>1. round[e] = e
        BY <2>2, <2>4 DEF PlaceRound
      <3>2. M = {}
        BY <2>2, <2>4, EmptyTreap
      <3>3. Cardinality(M) + (n + 1) <= Entries
        BY <1>1, <3>2, FS_EmptySet
      <3>4. QED
        BY <2>1, <2>2, <3>1, <3>3
    <2>5. CASE l[e] # Null /\ Below(l[e], x)
      <3>1. round[e] = e
        BY <2>2, <2>5 DEF PlaceRound
      <3>2. M # {}
        BY <2>2, <2>5, EmptyTreap
      <3>3. QED
        BY <2>1, <2>2, <2>5, <3>1, <3>2
    <2>6. CASE l[e] # Null /\ ~Below(l[e], x)
      <3> DEFINE side == IF Before(k, l[e], x) THEN "right" ELSE "left"
                 N == Half(k, M, l[e], side)
      <3>1. round[e] = <<l[e], side>>
        BY <2>2, <2>6 DEF PlaceRound
      <3>2. side \in Sides
        BY SideFacts
      <3>3. l[e] \in T
        BY <2>1, <2>2, <2>6, Unfold, EmptyTreap DEF Treap, IsTop
      <3>4. OnSide(k, x, l[e], side)
        BY <1>1, <3>3, SideFacts DEF SidesOrder, OnSide
      <3>5. Below(x, l[e])
        BY <2>6, <3>3, RanksAreOrdered
      <3> HIDE DEF side
      <3>6. l[e] \in M /\ N # M /\ At(l, k, T, N, <<l[e], side>>, {x})
        <4> DEFINE X == {x}
        <4>1. /\ X \in SUBSET Elems /\ \A y \in X : OnSide(k, y, l[e], side) /\ Below(y, l[e])
              /\ Keyed(k, X) /\ At(l, k, T, M, e, X)
          BY <1>1, <2>1, <3>4, <3>5
        <4> HIDE DEF X
        <4>2. l[e] \in M /\ N # M /\ At(l, k, T, N, <<l[e], side>>, X)
          BY <1>1, <2>6, <3>2, <4>1, AtHalf
        <4>3. QED
          BY <4>2 DEF X
      <3>7. N \in SUBSET M
        BY DEF Half
      <3>8. Cardinality(N) + (n + 1) <= Entries
        BY <2>0, <2>1, <2>2, <2>6, <3>6, <3>7, FewerLeft
      <3>9. <<l[e], side>> \in Places
        BY <2>2, <3>2, <3>6, PlaceFacts
      <3> HIDE DEF N, round
      <3>10. QED
        BY <2>1, <3>1, <3>6, <3>7, <3>8, <3>9
    <2>7. QED
      BY <2>4, <2>5, <2>6
  <1> HIDE DEF I
  <1> DEFINE e == Loop(round, Tree)
  <1>4. e \in I[Entries]
    BY <1>2, <1>3, LoopInvariant
  <1> HIDE DEF e
  <1>5. PICK M \in SUBSET T : /\ At(l, k, T, M, e, {x})
                              /\ Cardinality(M) + Entries <= Entries \/ Over(e, M)
    BY <1>1, <1>4 DEF I
  <1>6. Treap(l, k, M, l[e]) /\ M \in SUBSET Elems
    BY <1>5 DEF At
  <1>7. ASSUME NEW y \in M PROVE Below(y, x)
    <2>1. M # {} /\ Below(l[e], x)
      BY <1>5, <1>6, <1>7, NoneLeft
    <2>2. l[e] \in Elems /\ y \in Elems /\ x \in Elems /\ (y = l[e] \/ Below(y, l[e]))
      BY <1>6, <2>1 DEF Treap, IsTop
    <2>3. QED
      BY <2>1, <2>2, RanksAreOrdered
  <1>8. QED
    BY <1>5, <1>7 DEF e, Place

\* The pointers once the new entry x is above cur, and before elements move over
Above(l, edge, x, side) ==
  [l EXCEPT ![<<x, side>>] = Null, ![<<x, OtherSide(side)>>] = l[edge], ![edge] = x]

\* The pointers m are what Insert is to make of l, where the tree of M is at edge.
Inserted(m, l, k, M, x, edge) ==
  /\ m \in Pointers
  /\ Treap(m, k, M \cup {x}, m[edge])
  /\ \A e \in Places : e \notin EdgesOf(M \cup {x}) \cup {edge} => m[e] = l[e]

\* x is on that side of the top of the tree that comes below it.
LEMMA InsertAbove ==
  ASSUME RankInv, NEW l \in Pointers, NEW k, NEW M \in SUBSET Elems, NEW x \in Elems \ M,
         Keyed(k, M \cup {x}), NEW edge \in Places \ EdgesOf(M \cup {x}), NEW side \in Sides,
         Treap(l, k, M, l[edge]), l[edge] # Null, OnSide(k, x, l[edge], side),
         \A y \in M : Below(y, x)
  PROVE  Inserted(MoveOver(Above(l, edge, x, side), side, {y \in Elems : OnSide(k, x, y, side)},
                           <<x, side>>, l[edge]),
                  l, k, M, x, edge)
  <1> DEFINE c == l[edge]
             other == OtherSide(side)
             H == Half(k, M, c, side)
             K == Half(k, M, c, other)
             stay == {y \in Elems : OnSide(k, x, y, side)}
             j == Above(l, edge, x, side)
             m == MoveOver(j, side, stay, <<x, side>>, c)
             P == M \cup {x}
  <1>1. M # {} /\ Keyed(k, M) /\ P \in SUBSET Elems /\ Keyed(k, P)
    BY EmptyTreap DEF Keyed
  <1>2. /\ c \in M /\ c \in Elems /\ IsTop(c, M) /\ c # x
        /\ Treap(l, k, H, l[<<c, side>>]) /\ Treap(l, k, K, l[<<c, other>>])
    BY <1>1, Unfold, SideFacts
  <1>3. SidesOrder(k, P) /\ other \in Sides /\ other # side
    BY <1>1, KeysAreOrdered, SideFacts
  <1>4. H \subseteq M /\ K \subseteq M /\ c \notin H /\ c \notin K /\ H \cap K = {}
    BY <1>2, <1>3 DEF Half, SidesOrder
  <1>5. \A y \in M : y = c \/ y \in H \/ y \in K
    BY <1>2, <1>3 DEF Half, SidesOrder
  <1>6. \A y \in M : y \in stay <=> OnSide(k, y, x, other)
    BY <1>3 DEF SidesOrder
  <1>7. OnSide(k, c, x, other) /\ ~OnSide(k, c, x, side)
    BY <1>2, <1>3 DEF SidesOrder
  <1>8. c \in stay /\ K \subseteq stay
    <2>1. c \in stay
      BY <1>2, <1>6, <1>7
    <2>2. ASSUME NEW y \in K PROVE y \in stay
      <3>1. y \in M /\ OnSide(k, y, c, other)
        BY DEF Half
      <3>2. OnSide(k, y, x, other)
        BY <1>2, <1>3, <1>7, <3>1 DEF SidesOrder
      <3>3. QED
        BY <1>6, <3>1, <3>2
    <2>3. QED
      BY <2>1, <2>2
  <1>9. Cut(k, H, side, stay)
    <2> SUFFICES ASSUME NEW y \in H \cap stay, NEW z \in H \ stay PROVE OnSide(k, z, y, side)
      BY DEF Cut
    <2>1. y \in P /\ z \in P /\ z # x /\ y \in M /\ z \in M
      BY <1>4
    <2>2. OnSide(k, x, y, side) /\ ~OnSide(k, x, z, side)
      BY <1>4, <1>1
    <2>3. OnSide(k, z, x, side)
      BY <1>3, <2>1, <2>2 DEF SidesOrder
    <2>4. QED
      BY <1>3, <2>1, <2>2, <2>3 DEF SidesOrder
  <1>10. /\ <<x, side>> \in Places /\ <<x, other>> \in Places /\ <<x, side>> # <<x, other>>
         /\ edge # <<x, side>> /\ edge # <<x, other>> /\ <<c, side>> # <<x, side>>
         /\ <<x, side>> \notin EdgesOf(M) /\ <<x, other>> \notin EdgesOf(M)
         /\ <<x, side>> \notin EdgesOf(H)
    BY <1>2, <1>3, <1>4, PlaceFacts, EdgesOfIs
  <1> HIDE DEF c, other, H, K, stay, P
  <1>11. /\ j \in Pointers /\ j[<<x, side>>] = Null /\ j[<<x, other>>] = c /\ j[edge] = x
         /\ \A e \in Places : e \notin {<<x, side>>, <<x, other>>, edge} => j[e] = l[e]
    BY <1>2, <1>10 DEF Above, Pointers, other, c
  <1> HIDE DEF j, m
  <1>12. \A y \in M, s \in Sides : j[<<y, s>>] = l[<<y, s>>] /\ <<y, s>> \in Places
    <2> SUFFICES ASSUME NEW y \in M, NEW s \in Sides
                 PROVE  j[<<y, s>>] = l[<<y, s>>] /\ <<y, s>> \in Places
      OBVIOUS
    <2>1. /\ <<y, s>> \in Places /\ <<y, s>> # edge
          /\ <<y, s>> # <<x, side>> /\ <<y, s>> # <<x, other>>
      BY PlaceFacts, EdgesOfIs
    <2>2. QED
      BY <1>11, <2>1
  <1>13. Moved(m, j, k, H, side, stay, <<x, side>>, c)
    <2>1. Treap(j, k, H, j[<<c, side>>])
      <3>1. Treap(j, k, H, l[<<c, side>>])
        BY <1>2, <1>4, <1>12, SameTreap
      <3>2. QED
        BY <1>2, <1>12, <3>1
    <2>2. Movable(j, k, H, side, <<x, side>>, c)
      BY <1>2, <1>4, <1>10, <1>11, <2>1 DEF Movable
    <2>3. H \in SUBSET Elems /\ Keyed(k, H)
      BY <1>1, <1>4 DEF Keyed
    <2>4. QED
      BY <1>9, <2>2, <2>3, MoveOverCuts DEF m
  <1>14. /\ m \in Pointers
         /\ Treap(m, k, H \cap stay, m[<<c, side>>]) /\ Treap(m, k, H \ stay, m[<<x, side>>])
         /\ \A e \in Places : e \notin EdgesOf(H) \cup {<<c, side>>, <<x, side>>} => m[e] = j[e]
    BY <1>13 DEF Moved
  <1>15. \A e \in Places : e \notin EdgesOf(P) \cup {edge} => m[e] = l[e]
    BY <1>2, <1>4, <1>11, <1>14, EdgesOfIs, SideFacts, <1>3 DEF P
  <1>16. m[edge] = x /\ m[<<x, other>>] = c
    <2>1. edge \notin EdgesOf(H) /\ edge # <<c, side>>
      BY <1>2, <1>4, EdgesOfIs
    <2>2. <<x, other>> \notin EdgesOf(H) /\ <<x, other>> # <<c, side>>
      BY <1>2, <1>4, <1>10, EdgesOfIs
    <2>3. QED
      BY <1>10, <1>11, <1>14, <2>1, <2>2
  <1>17. Treap(m, k, K, m[<<c, other>>])
    <2>1. \A y \in K \cup {c}, s \in Sides : y # c \/ s = other => m[<<y, s>>] = l[<<y, s>>]
      <3> SUFFICES ASSUME NEW y \in K \cup {c}, NEW s \in Sides, y # c \/ s = other
                   PROVE  m[<<y, s>>] = l[<<y, s>>]
        OBVIOUS
      <3>1. y \in M /\ y \notin H
        BY <1>2, <1>4
      <3>2. <<y, s>> \notin EdgesOf(H) \cup {<<c, side>>, <<x, side>>}
        BY <1>3, <3>1, EdgesOfIs
      <3>3. QED
        BY <1>12, <1>14, <3>1, <3>2
    <2>2. Treap(m, k, K, l[<<c, other>>])
      BY <1>2, <1>4, <2>1, SameTreap
    <2>3. QED
      BY <1>3, <2>1, <2>2
  <1>18. Treap(m, k, M \cap stay, c)
    <2>1. Half(k, M \cap stay, c, side) = H \cap stay
      BY DEF Half, H
    <2>2. Half(k, M \cap stay, c, other) = K
      BY <1>8 DEF Half, K
    <2>3. ASSUME NEW s \in Sides PROVE Treap(m, k, Half(k, M \cap stay, c, s), m[<<c, s>>])
      <3>1. CASE s = side
        BY <1>14, <2>1, <3>1
      <3>2. CASE s = other
        BY <1>17, <2>2, <3>2
      <3>3. QED
        BY <3>1, <3>2, SideFacts DEF other
    <2>4. c \in M \cap stay /\ IsTop(c, M \cap stay) /\ Keyed(k, M \cap stay)
      BY <1>1, <1>2, <1>8 DEF IsTop, Keyed
    <2>5. QED
      BY <2>3, <2>4, Fold
  <1>19. Treap(m, k, P, x)
    <2>1. Half(k, P, x, other) = M \cap stay
      <3>1. ~OnSide(k, x, x, other)
        BY <1>3 DEF SidesOrder, P
      <3>2. QED
        BY <1>6, <3>1 DEF Half, P
    <2>2. Half(k, P, x, side) = H \ stay
      <3>1. ~OnSide(k, x, x, side)
        BY <1>3 DEF SidesOrder, P
      <3>2. ASSUME NEW y \in M PROVE OnSide(k, y, x, side) <=> y \notin stay
        <4>1. y \in P /\ x \in P /\ y # x
          BY DEF P
        <4>2. QED
          BY <1>3, <1>6, <4>1 DEF SidesOrder, other
      <3>3. \A y \in M : y \notin stay => y \in H
        BY <1>5, <1>8
      <3>4. QED
        BY <1>4, <3>1, <3>2, <3>3 DEF Half, P
    <2>3. IsTop(x, P)
      BY DEF IsTop, P
    <2>4. ASSUME NEW s \in Sides PROVE Treap(m, k, Half(k, P, x, s), m[<<x, s>>])
      <3>1. CASE s = side
        BY <1>14, <2>2, <3>1
      <3>2. CASE s = other
        BY <1>16, <1>18, <2>1, <3>2
      <3>3. QED
        BY <3>1, <3>2, SideFacts DEF other
    <2>5. QED
      BY <1>1, <2>3, <2>4, Fold DEF P
  <1>20. QED
    BY <1>14, <1>15, <1>16, <1>19 DEF Inserted, m, j, c, stay, P

\* __ZIP_INSERT puts x into the tree, and leaves the pointers of other entries
\* alone.
LEMMA InsertPuts ==
  ASSUME RankInv, NEW l \in Pointers, NEW k, NEW T \in SUBSET Elems, NEW x \in Elems \ T,
         Keyed(k, T \cup {x}), Treap(l, k, T, l[Tree])
  PROVE  Inserted(Insert(l, k, x), l, k, T, x, Tree)
  <1> DEFINE edge == Place(l, k, x)
             m == Insert(l, k, x)
             fresh == [l EXCEPT ![<<x, "left">>] = Null, ![<<x, "right">>] = Null, ![edge] = x]
  <1>1. PICK M \in SUBSET T : At(l, k, T, M, edge, {x}) /\ \A y \in M : Below(y, x)
    BY PlaceEnds
  <1>2. /\ edge \in Places /\ edge \notin EdgesOf(M) /\ M \in SUBSET Elems
        /\ edge \in {Tree} \cup EdgesOf(T \ M) /\ Treap(l, k, M, l[edge])
    BY <1>1, AtPlace DEF At
  <1>3. x \notin M /\ edge \notin EdgesOf(M \cup {x}) /\ Keyed(k, M \cup {x})
    BY <1>1, <1>2, PlaceFacts, EdgesOfIs DEF Keyed
  <1> HIDE DEF edge
  <1>4. Inserted(m, l, k, M, x, edge)
    <2>1. <<x, "left">> \in Places /\ <<x, "right">> \in Places /\ <<x, "left">> # <<x, "right">>
      BY PlaceFacts, SideFacts
    <2>2. /\ edge # <<x, "left">> /\ edge # <<x, "right">>
      BY <1>3, EdgesOfIs, SideFacts
    <2>3. fresh \in Pointers
      BY DEF Pointers
    <2>4. CASE l[edge] = Null
      <3>1. m = fresh
        BY <2>4 DEF Insert, edge
      <3>2. /\ fresh[edge] = x /\ fresh[<<x, "left">>] = Null /\ fresh[<<x, "right">>] = Null
            /\ \A e \in Places : e \notin {<<x, "left">>, <<x, "right">>, edge} => fresh[e] = l[e]
        BY <1>2, <2>1, <2>2 DEF Pointers
      <3>3. M = {}
        BY <1>2, <2>4, EmptyTreap
      <3> HIDE DEF fresh
      <3>4. Treap(fresh, k, {x}, x)
        <4>1. SidesOrder(k, {x}) /\ Keyed(k, {x})
          BY <1>3, KeysAreOrdered DEF Keyed
        <4>2. \A s \in Sides : Half(k, {x}, x, s) = {}
          BY <4>1 DEF Half, SidesOrder
        <4>3. \A s \in Sides : fresh[<<x, s>>] = Null
          BY <3>2, SideFacts
        <4>4. \A s \in Sides : Treap(fresh, k, Half(k, {x}, x, s), fresh[<<x, s>>])
          BY <4>2, <4>3, NoTreap
        <4>5. IsTop(x, {x})
          BY DEF IsTop
        <4>6. QED
          BY <4>1, <4>4, <4>5, Fold
      <3>5. \A e \in Places : e \notin EdgesOf({x}) \cup {edge} => fresh[e] = l[e]
        BY <3>2, EdgesOfIs, SideFacts
      <3>6. {x} = M \cup {x}
        BY <3>3
      <3>7. QED
        BY <2>3, <3>1, <3>2, <3>4, <3>5, <3>6 DEF Inserted
    <2>5. CASE l[edge] # Null /\ Before(k, l[edge], x)
      <3>1. OnSide(k, x, l[edge], "right") /\ "right" \in Sides /\ OtherSide("right") = "left"
        BY <2>5, SideFacts DEF OnSide
      <3>2. {y \in Elems : OnSide(k, x, y, "right")} = {y \in Elems : Before(k, y, x)}
        BY DEF OnSide
      <3>3. Above(l, edge, x, "right") = [fresh EXCEPT ![<<x, "left">>] = l[edge]]
        BY <1>2, <2>1, <2>2, <3>1 DEF Above, Pointers
      <3>4. m = MoveOver([fresh EXCEPT ![<<x, "left">>] = l[edge]], "right",
                         {y \in Elems : Before(k, y, x)}, <<x, "right">>, l[edge])
        BY <2>5 DEF Insert, edge
      <3> HIDE DEF fresh, m
      <3>5. m = MoveOver(Above(l, edge, x, "right"), "right",
                         {y \in Elems : OnSide(k, x, y, "right")}, <<x, "right">>, l[edge])
        BY <3>2, <3>3, <3>4
      <3>6. x \in Elems \ M /\ edge \in Places \ EdgesOf(M \cup {x})
        BY <1>2, <1>3
      <3>7. Inserted(MoveOver(Above(l, edge, x, "right"), "right",
                              {y \in Elems : OnSide(k, x, y, "right")}, <<x, "right">>, l[edge]),
                     l, k, M, x, edge)
        BY <1>1, <1>2, <1>3, <2>5, <3>1, <3>6, InsertAbove
      <3>8. QED
        BY <3>5, <3>7
    <2>6. CASE l[edge] # Null /\ ~Before(k, l[edge], x)
      <3>0. l[edge] \in M /\ l[edge] # x
        BY <1>2, <1>3, <2>6 DEF Treap, IsTop
      <3>1. OnSide(k, x, l[edge], "left") /\ "left" \in Sides /\ OtherSide("left") = "right"
        <4>1. SidesOrder(k, M \cup {x})
          <5>1. M \cup {x} \in SUBSET Elems
            BY <1>2
          <5>2. QED
            BY <1>3, <5>1, KeysAreOrdered
        <4>2. QED
          BY <2>6, <3>0, <4>1, SideFacts DEF OnSide, SidesOrder
      <3>2. {y \in Elems : OnSide(k, x, y, "left")} = {y \in Elems : Before(k, x, y)}
        BY DEF OnSide
      <3>3. Above(l, edge, x, "left") = [fresh EXCEPT ![<<x, "right">>] = l[edge]]
        BY <1>2, <2>1, <2>2, <3>1 DEF Above, Pointers
      <3>4. m = MoveOver([fresh EXCEPT ![<<x, "right">>] = l[edge]], "left",
                         {y \in Elems : Before(k, x, y)}, <<x, "left">>, l[edge])
        BY <2>6 DEF Insert, edge
      <3> HIDE DEF fresh, m
      <3>5. m = MoveOver(Above(l, edge, x, "left"), "left",
                         {y \in Elems : OnSide(k, x, y, "left")}, <<x, "left">>, l[edge])
        BY <3>2, <3>3, <3>4
      <3>6. x \in Elems \ M /\ edge \in Places \ EdgesOf(M \cup {x})
        BY <1>2, <1>3
      <3>7. Inserted(MoveOver(Above(l, edge, x, "left"), "left",
                              {y \in Elems : OnSide(k, x, y, "left")}, <<x, "left">>, l[edge]),
                     l, k, M, x, edge)
        BY <1>1, <1>2, <1>3, <2>6, <3>1, <3>6, InsertAbove
      <3>8. QED
        BY <3>5, <3>7
    <2>7. QED
      BY <2>4, <2>5, <2>6
  <1> HIDE DEF m
  <1>5. /\ m \in Pointers /\ Treap(m, k, M \cup {x}, m[edge])
        /\ \A e \in Places : e \notin EdgesOf(M \cup {x}) \cup {edge} => m[e] = l[e]
    BY <1>4 DEF Inserted
  <1>6. Treap(m, k, T \cup {x}, m[Tree])
    <2>1. \A d \in {Tree} \cup EdgesOf(T \ M) : d # edge => m[d] = l[d]
      <3> SUFFICES ASSUME NEW d \in {Tree} \cup EdgesOf(T \ M), d # edge PROVE m[d] = l[d]
        OBVIOUS
      <3>1. d \in Places /\ d \notin EdgesOf(M \cup {x})
        BY PlaceFacts, EdgesOfIs
      <3>2. QED
        BY <1>5, <3>1
    <2>2. Treap(m, k, (T \ M) \cup (M \cup {x}), m[Tree])
      BY <1>1, <1>5, <2>1 DEF At, Fits
    <2>3. (T \ M) \cup (M \cup {x}) = T \cup {x}
      BY <1>1
    <2>4. QED
      BY <2>2, <2>3
  <1>7. \A e \in Places : e \notin EdgesOf(T \cup {x}) \cup {Tree} => m[e] = l[e]
    BY <1>2, <1>5, EdgesOfIs
  <1>8. QED
    BY <1>5, <1>6, <1>7 DEF Inserted, m

-----------------------------------------------------------------------------
(* The spines of a tree, and its split.                                    *)

\* x is on a spine, below which the subtree of M comes: x is the last one of the
\* other elements, and all of these are in S.
OnSpine(l, k, T, M, side, S, x) ==
  /\ At(l, k, T, M, <<x, side>>, {})
  /\ x \in T \ M /\ T \ M \subseteq S
  /\ \A y \in T \ M : y = x \/ OnSide(k, x, y, side)
  /\ \A z \in M : OnSide(k, z, x, side)

\* The spine goes on to the next of its elements that is in S.
LEMMA SpineHalf ==
  ASSUME RankInv, NEW l, NEW k, NEW T \in SUBSET Elems, Keyed(k, T), NEW M, NEW edge,
         At(l, k, T, M, edge, {}), l[edge] # Null, NEW side \in Sides,
         NEW S, Cut(k, T, side, S), l[edge] \in S, T \ M \subseteq S,
         \A y \in T \ M, z \in M : OnSide(k, z, y, side)
  PROVE  /\ Half(k, M, l[edge], side) \in SUBSET M /\ Half(k, M, l[edge], side) # M
         /\ OnSpine(l, k, T, Half(k, M, l[edge], side), side, S, l[edge])
  <1> DEFINE c == l[edge]
             N == Half(k, M, c, side)
  <1>1. c \in M /\ N # M /\ At(l, k, T, N, <<c, side>>, {})
    <2>1. Keyed(k, {})
      BY DEF Keyed
    <2>2. QED
      BY <2>1, AtHalf
  <1>2. M \in SUBSET T /\ SidesOrder(k, T)
    BY KeysAreOrdered DEF At
  <1>3. N \in SUBSET M /\ \A z \in N : OnSide(k, z, c, side)
    BY DEF Half
  <1>4. c \in T /\ c \notin N
    BY <1>1, <1>2, <1>3 DEF SidesOrder
  <1>5. \A z \in M : z \notin N => z = c \/ OnSide(k, c, z, side)
    BY <1>1, <1>2, SideFacts DEF SidesOrder, Half
  <1> HIDE DEF c, N
  <1>6. ASSUME NEW y \in T \ N PROVE (y = c \/ OnSide(k, c, y, side)) /\ y \in S
    <2>1. CASE y \in M
      <3>1. y = c \/ OnSide(k, c, y, side)
        BY <1>5, <2>1
      <3>2. y \notin S => OnSide(k, y, c, side)
        BY <1>4 DEF Cut, c
      <3>3. QED
        BY <1>2, <1>4, <3>1, <3>2 DEF SidesOrder, c
    <2>2. CASE y \notin M
      BY <1>1, <2>2
    <2>3. QED
      BY <2>1, <2>2
  <1>7. QED
    BY <1>1, <1>3, <1>4, <1>6 DEF OnSpine, c, N

\* EndOfSpine goes down to the last element of the spine that is in S.
LEMMA SpineEnds ==
  ASSUME RankInv, NEW l \in Pointers, NEW k, NEW T \in SUBSET Elems, Keyed(k, T),
         Treap(l, k, T, l[Tree]), NEW side \in Sides,
         NEW S \in SUBSET Elems, Cut(k, T, side, S), l[Tree] \in S
  PROVE  \E M \in SUBSET T :
           /\ OnSpine(l, k, T, M, side, S, EndOfSpine(l, side, S, l[Tree]))
           /\ l[<<EndOfSpine(l, side, S, l[Tree]), side>>] \notin S
  <1> DEFINE round == SpineRound(l, side, S)
             Ends(x) == l[<<x, side>>] \notin S
             I == [n \in 0..Entries |->
                    {x \in Elems : \E M \in SUBSET T :
                       /\ OnSpine(l, k, T, M, side, S, x)
                       /\ Cardinality(M) + n <= Entries \/ Ends(x)}]
  <1>1. Entries \in Nat /\ l[Tree] \in Elems /\ l[Tree] # Null
    BY EntriesAreNat, PlaceFacts
  <1>2. l[Tree] \in I[0]
    <2>1. At(l, k, T, T, Tree, {})
      BY AtRoot
    <2>2. T \ T = {}
      OBVIOUS
    <2>3. /\ Half(k, T, l[Tree], side) \in SUBSET T
          /\ OnSpine(l, k, T, Half(k, T, l[Tree], side), side, S, l[Tree])
      BY <1>1, <2>1, <2>2, SpineHalf
    <2>4. Cardinality(Half(k, T, l[Tree], side)) + 0 <= Entries
      BY <2>3, AtMostAll
    <2> HIDE DEF Ends
    <2>5. QED
      BY <1>1, <2>3, <2>4
  <1>3. ASSUME NEW n \in 0..(Entries - 1), NEW x \in I[n] PROVE round[x] \in I[n + 1]
    <2>0. n \in 0..Entries /\ n + 1 \in 0..Entries /\ n \in Nat
      BY <1>1
    <2>1. PICK M \in SUBSET T : /\ OnSpine(l, k, T, M, side, S, x)
                                /\ Cardinality(M) + n <= Entries \/ Ends(x)
      BY <2>0
    <2>2. x \in Elems /\ M \in SUBSET Elems
      BY <2>0
    <2>3. SUFFICES \E N \in SUBSET T :
            /\ OnSpine(l, k, T, N, side, S, round[x])
            /\ Cardinality(N) + (n + 1) <= Entries \/ Ends(round[x])
            /\ round[x] \in Elems
      BY <2>0
    <2>4. CASE Ends(x)
      <3>1. round[x] = x
        BY <2>2, <2>4 DEF SpineRound
      <3>2. QED
        BY <2>1, <2>2, <2>4, <3>1
    <2>5. CASE ~Ends(x)
      <3> DEFINE c == l[<<x, side>>]
                 N == Half(k, M, c, side)
      <3>1. round[x] = c /\ c \in S /\ c \in Elems /\ c # Null
        BY <2>2, <2>5, PlaceFacts DEF SpineRound
      <3>2. N \in SUBSET M /\ N # M /\ OnSpine(l, k, T, N, side, S, c)
        <4>1. ASSUME NEW y \in T \ M, NEW z \in M PROVE OnSide(k, z, y, side)
          <5>1. /\ OnSide(k, z, x, side) /\ (y = x \/ OnSide(k, x, y, side))
                /\ x \in T /\ y \in T /\ z \in T
            BY <2>1 DEF OnSpine
          <5>2. QED
            BY <5>1, KeysAreOrdered DEF SidesOrder
        <4>2. At(l, k, T, M, <<x, side>>, {}) /\ T \ M \subseteq S
          BY <2>1 DEF OnSpine
        <4>3. QED
          BY <3>1, <4>1, <4>2, SpineHalf
      <3>3. Cardinality(N) + (n + 1) <= Entries
        BY <2>0, <2>1, <2>2, <2>5, <3>2, FewerLeft
      <3> HIDE DEF c, N, round, Ends
      <3>4. QED
        BY <2>1, <3>1, <3>2, <3>3
    <2>6. QED
      BY <2>4, <2>5
  <1> HIDE DEF I
  <1> DEFINE p == Loop(round, l[Tree])
  <1>4. p \in I[Entries]
    BY <1>2, <1>3, LoopInvariant
  <1> HIDE DEF p
  <1>5. PICK M \in SUBSET T : /\ OnSpine(l, k, T, M, side, S, p)
                              /\ Cardinality(M) + Entries <= Entries \/ Ends(p)
    BY <1>1, <1>4 DEF I
  <1>6. Ends(p)
    <2>1. SUFFICES ASSUME Cardinality(M) + Entries <= Entries PROVE Ends(p)
      BY <1>5
    <2>2. M = {}
      BY <2>1, NoneLeft
    <2>3. l[<<p, side>>] = Null
      BY <1>5, <2>2, EmptyTreap DEF OnSpine, At
    <2>4. QED
      BY <2>3, PlaceFacts
  <1>7. QED
    BY <1>5, <1>6 DEF p, EndOfSpine

\* What __ZIP_UNZIP does, where the root is to come to the tree at near and those
\* that are not in same to the one at far.
SplitAt(l, side, same, near, far) ==
  LET root == l[Tree]
      prev == EndOfSpine(l, side, same, root)
      cur == l[<<prev, side>>]
      split == [l EXCEPT ![near] = root, ![far] = cur]
  IN IF cur = Null THEN split
     ELSE MoveOver([split EXCEPT ![<<prev, side>>] = Null], OtherSide(side),
                   Elems \ same, <<prev, side>>, cur)

Splits(m, k, E, L, near, far) ==
  /\ m \in Pointers
  /\ Treap(m, k, E, m[near]) /\ Treap(m, k, L, m[far])

\* Both parts of a split are the trees of the early and of the late entries.
LEMMA SplitDivides ==
  ASSUME RankInv, NEW l \in Pointers, NEW k, NEW T \in SUBSET Elems, Keyed(k, T),
         Treap(l, k, T, l[Tree]), NEW side \in Sides,
         NEW same \in SUBSET Elems, Cut(k, T, side, same), l[Tree] \in same,
         NEW near, NEW far, {near, far} = {Tree, ProcessTree}
  PROVE  Splits(SplitAt(l, side, same, near, far), k, T \cap same, T \ same, near, far)
  <1> DEFINE root == l[Tree]
             p == EndOfSpine(l, side, same, root)
             c == l[<<p, side>>]
             j == [l EXCEPT ![near] = root, ![far] = c]
             other == OtherSide(side)
  <1>1. PICK M \in SUBSET T : OnSpine(l, k, T, M, side, same, p) /\ c \notin same
    BY SpineEnds
  <1>2. /\ near \in Places /\ far \in Places /\ near # far
        /\ \A x, s : x \in Elems /\ s \in Sides => <<x, s>> # near /\ <<x, s>> # far
    BY PlaceFacts
  <1>3. /\ p \in T \ M /\ p \in Elems /\ <<p, side>> \in Places /\ T \ M \subseteq same
        /\ At(l, k, T, M, <<p, side>>, {}) /\ Treap(l, k, M, c)
        /\ M \in SUBSET Elems /\ Keyed(k, M) /\ root \in Elems /\ c \in Elems \cup {Null}
        /\ root # Null
    BY <1>1, PlaceFacts, PointsToElem DEF OnSpine, At, Keyed
  <1>4. SidesOrder(k, T) /\ other \in Sides /\ other # side /\ OtherSide(other) = side
    BY KeysAreOrdered, SideFacts
  <1> HIDE DEF p
  <1>5. /\ j \in Pointers /\ j[near] = root /\ j[far] = c
        /\ \A e \in Places : e # near /\ e # far => j[e] = l[e]
    BY <1>2, <1>3 DEF Pointers
  <1>6. CASE c = Null
    <2>1. M = {} /\ T \ same = {} /\ T \cap same = T
      BY <1>1, <1>3, <1>6, EmptyTreap
    <2>2. Treap(j, k, T, root)
      <3>1. \A x \in T, s \in Sides : j[<<x, s>>] = l[<<x, s>>]
        <4> SUFFICES ASSUME NEW x \in T, NEW s \in Sides PROVE j[<<x, s>>] = l[<<x, s>>]
          OBVIOUS
        <4>1. <<x, s>> \in Places /\ <<x, s>> # near /\ <<x, s>> # far
          BY <1>2, PlaceFacts
        <4> HIDE DEF j
        <4>2. QED
          BY <1>5, <4>1
      <3>2. QED
        BY <3>1, SameTreap
    <2>3. Treap(j, k, {}, Null)
      BY NoTreap
    <2>4. SplitAt(l, side, same, near, far) = j
      BY <1>6 DEF SplitAt, p
    <2> HIDE DEF j
    <2>5. QED
      BY <1>5, <1>6, <2>1, <2>2, <2>3, <2>4 DEF Splits
  <1>7. CASE c # Null
    <2> DEFINE i == [j EXCEPT ![<<p, side>>] = Null]
               m == MoveOver(i, other, Elems \ same, <<p, side>>, c)
               H == Half(k, M, c, other)
               K == Half(k, M, c, side)
    <2>1. M # {}
      BY <1>3, <1>7, EmptyTreap
    <2>2. /\ c \in M /\ c \in Elems /\ IsTop(c, M)
          /\ Treap(l, k, H, l[<<c, other>>]) /\ Treap(l, k, K, l[<<c, side>>])
      BY <1>3, <1>4, <2>1, Unfold
    <2>3. H \subseteq M /\ K \subseteq M /\ c \notin H /\ c \notin K /\ H \cap K = {}
      BY <1>4, <2>2 DEF Half, SidesOrder
    <2>4. \A y \in M : y = c \/ y \in H \/ y \in K
      BY <1>4, <2>2, SideFacts DEF Half, SidesOrder
    <2>5. K \cap same = {}
      <3> SUFFICES ASSUME NEW y \in K, y \in same PROVE FALSE
        OBVIOUS
      <3>1. OnSide(k, c, y, side) /\ OnSide(k, y, c, side) /\ y \in T /\ c \in T
        BY <1>1, <2>2, <2>3 DEF Cut, Half
      <3>2. QED
        BY <1>4, <3>1 DEF SidesOrder
    <2>6. Cut(k, H, other, Elems \ same)
      <3> SUFFICES ASSUME NEW y \in H \cap (Elems \ same), NEW z \in H \ (Elems \ same)
                   PROVE  OnSide(k, z, y, other)
        BY DEF Cut
      <3>1. y \in T /\ y \notin same /\ z \in T /\ z \in same
        BY <2>3
      <3>2. OnSide(k, y, z, side)
        BY <3>1 DEF Cut
      <3>3. QED
        BY <1>4, <3>1, <3>2 DEF SidesOrder
    <2>7. /\ <<p, side>> \notin EdgesOf(M) /\ <<p, side>> # near /\ <<p, side>> # far
          /\ <<p, side>> # <<c, other>>
      BY <1>2, <1>3, <2>2, EdgesOfIs
    <2> HIDE DEF H, K, c, j, other
    <2>8. /\ i \in Pointers /\ i[<<p, side>>] = Null /\ i[near] = root /\ i[far] = c
          /\ \A e \in Places : e \notin {near, far, <<p, side>>} => i[e] = l[e]
      BY <1>2, <1>3, <1>5, <2>7 DEF Pointers
    <2> HIDE DEF i
    <2>9. Movable(i, k, H, other, <<p, side>>, c)
      <3>1. \A x \in M, s \in Sides : i[<<x, s>>] = l[<<x, s>>]
        <4> SUFFICES ASSUME NEW x \in M, NEW s \in Sides PROVE i[<<x, s>>] = l[<<x, s>>]
          OBVIOUS
        <4>1. <<x, s>> \in Places /\ <<x, s>> \notin {near, far, <<p, side>>}
          BY <1>2, <1>3, <2>7, PlaceFacts, EdgesOfIs
        <4>2. QED
          BY <2>8, <4>1
      <3>2. Treap(i, k, H, i[<<c, other>>])
        <4>1. Treap(i, k, H, l[<<c, other>>])
          BY <2>2, <2>3, <3>1, SameTreap
        <4>2. QED
          BY <1>4, <2>2, <3>1, <4>1
      <3>3. <<p, side>> \notin EdgesOf(H)
        BY <2>3, <2>7, EdgesOfIs
      <3>4. QED
        BY <1>3, <2>2, <2>3, <2>7, <2>8, <3>2, <3>3 DEF Movable
    <2>10. Moved(m, i, k, H, other, Elems \ same, <<p, side>>, c)
      <3>1. H \in SUBSET Elems /\ Keyed(k, H)
        BY <1>3, <2>3 DEF Keyed
      <3>2. QED
        BY <1>4, <2>6, <2>9, <3>1, MoveOverCuts
    <2> HIDE DEF m
    <2>11. /\ m \in Pointers
           /\ Treap(m, k, H \ same, m[<<c, other>>]) /\ Treap(m, k, H \cap same, m[<<p, side>>])
           /\ \A e \in Places : e \notin EdgesOf(H) \cup {<<c, other>>, <<p, side>>} => m[e] = i[e]
      <3>1. H \cap (Elems \ same) = H \ same /\ H \ (Elems \ same) = H \cap same
        BY <1>3, <2>3
      <3>2. QED
        BY <2>10, <3>1 DEF Moved
    <2>12. \A e \in Places : e \notin EdgesOf(H) \cup {<<c, other>>, <<p, side>>, near, far}
                               => m[e] = l[e]
      BY <2>8, <2>11
    <2>13. m[near] = root /\ m[far] = c
      <3>1. /\ near \notin EdgesOf(H) /\ near # <<c, other>> /\ near # <<p, side>>
            /\ far \notin EdgesOf(H) /\ far # <<c, other>> /\ far # <<p, side>>
        BY <1>2, <1>4, <2>2, <2>3, <2>7, <1>3, EdgesOfIs
      <3>2. QED
        BY <1>2, <2>8, <2>11, <3>1
    <2>14. Treap(m, k, T \ same, c)
      <3>1. Treap(m, k, K, m[<<c, side>>])
        <4>1. \A x \in K \cup {c}, s \in Sides : x # c \/ s = side => m[<<x, s>>] = l[<<x, s>>]
          <5> SUFFICES ASSUME NEW x \in K \cup {c}, NEW s \in Sides, x # c \/ s = side
                       PROVE  m[<<x, s>>] = l[<<x, s>>]
            OBVIOUS
          <5>1. x \in M /\ x \notin H /\ x \in Elems
            BY <1>3, <2>2, <2>3
          <5>2. <<x, s>> \in Places /\ <<x, s>> # near /\ <<x, s>> # far
            BY <1>2, <5>1, PlaceFacts
          <5>3. <<x, s>> \notin EdgesOf(H) \cup {<<c, other>>, <<p, side>>}
            BY <1>3, <1>4, <5>1, EdgesOfIs
          <5>4. QED
            BY <2>12, <5>2, <5>3
        <4>2. Treap(m, k, K, l[<<c, side>>])
          BY <2>2, <2>3, <4>1, SameTreap
        <4>3. QED
          BY <4>1, <4>2
      <3> DEFINE L == T \ same
      <3>2. \A x \in L : x \in M
        BY <1>3
      <3>3. c \in L
        BY <1>1, <2>2 DEF c
      <3>4. Half(k, L, c, side) = K
        BY <2>3, <2>5, <3>2 DEF Half, K
      <3>5. Half(k, L, c, other) = H \ same
        BY <3>2 DEF Half, H
      <3>6. IsTop(c, L) /\ Keyed(k, L) /\ L \in SUBSET Elems
        BY <2>1, <2>2, <3>2, <3>3 DEF IsTop, Keyed
      <3> HIDE DEF L
      <3>7. ASSUME NEW s \in Sides PROVE Treap(m, k, Half(k, L, c, s), m[<<c, s>>])
        <4>1. CASE s = side
          BY <3>1, <3>4, <4>1
        <4>2. CASE s = other
          BY <2>11, <3>5, <4>2
        <4>3. QED
          BY <4>1, <4>2, SideFacts DEF other
      <3>8. Treap(m, k, L, c)
        BY <3>3, <3>6, <3>7, Fold
      <3>9. QED
        BY <3>8 DEF L
    <2>15. Treap(m, k, T \cap same, root)
      <3> DEFINE q == [m EXCEPT ![Tree] = root]
                 N == H \cap same
      <3>1. q \in Pointers /\ q[Tree] = root /\ \A e \in Places : e # Tree => q[e] = m[e]
        BY <1>3, <2>11, PlaceFacts DEF Pointers
      <3> HIDE DEF q, root
      <3>2. \A x \in Elems, s \in Sides : q[<<x, s>>] = m[<<x, s>>]
        BY <3>1, PlaceFacts
      <3>3. Treap(q, k, N, q[<<p, side>>])
        <4>1. Treap(q, k, N, m[<<p, side>>])
          BY <1>3, <2>3, <2>11, <3>2, SameTreap
        <4>2. QED
          BY <1>3, <3>2, <4>1
      <3>4. \A e \in {Tree} \cup EdgesOf(T \ M) : e # <<p, side>> => q[e] = l[e]
        <4>1. q[Tree] = l[Tree]
          BY <3>1 DEF root
        <4>2. ASSUME NEW e \in EdgesOf(T \ M), e # <<p, side>> PROVE q[e] = l[e]
          <5>1. PICK x \in T \ M, s \in Sides : e = <<x, s>>
            BY EdgesOfIs
          <5>2. x \in Elems /\ x # c /\ x \notin H
            BY <2>2, <2>3
          <5>3. e \in Places /\ e # Tree /\ e # near /\ e # far
            BY <1>2, <5>1, <5>2, PlaceFacts
          <5>4. e \notin EdgesOf(H) \cup {<<c, other>>, <<p, side>>}
            BY <4>2, <5>1, <5>2, EdgesOfIs
          <5>5. QED
            BY <2>12, <3>1, <5>3, <5>4
        <4>3. QED
          BY <4>1, <4>2
      <3>5. N \in SUBSET (M \cup {})
        BY <2>3
      <3>6. Treap(q, k, (T \ M) \cup N, q[Tree])
        BY <1>3, <3>1, <3>3, <3>4, <3>5 DEF At, Fits
      <3>7. (T \ M) \cup N = T \cap same
        BY <1>1, <1>3, <2>3, <2>4, <2>5 DEF c
      <3>8. Treap(m, k, T \cap same, root)
        BY <3>1, <3>2, <3>6, <3>7, SameTreap
      <3>9. QED
        BY <3>8
    <2>16. SplitAt(l, side, same, near, far) = m
      BY <1>7 DEF SplitAt, m, i, j, c, p, other
    <2>17. QED
      BY <2>11, <2>13, <2>14, <2>15, <2>16 DEF Splits
  <1>8. QED
    BY <1>6, <1>7

\* __ZIP_UNZIP leaves the entries that are due in processTree and the others in
\* the tree.
LEMMA UnzipSplits ==
  ASSUME RankInv, NEW l \in Pointers, NEW T \in SUBSET Elems, Keyed(key, T),
         Treap(l, key, T, l[Tree]), NEW now \in Int
  PROVE  Splits(Unzip(l, now), key, {x \in T : key[x] <= now}, {x \in T : ~(key[x] <= now)},
                ProcessTree, Tree)
  <1> DEFINE early == {x \in Elems : key[x] <= now}
             root == l[Tree]
             m == Unzip(l, now)
  <1>1. /\ {x \in T : key[x] <= now} = T \cap early
        /\ {x \in T : ~(key[x] <= now)} = T \ early
    OBVIOUS
  <1>2. \A x \in T : key[x] \in Int
    BY DEF Keyed
  <1>3. CASE root = Null
    <2>1. T = {}
      BY <1>3, EmptyTreap
    <2>2. m = [l EXCEPT ![ProcessTree] = Null]
      BY <1>3 DEF Unzip
    <2>3. m \in Pointers /\ m[ProcessTree] = Null /\ m[Tree] = Null
      BY <1>3, <2>2, PlaceFacts DEF Pointers
    <2> HIDE DEF m
    <2>4. QED
      BY <1>1, <2>1, <2>3, NoTreap DEF Splits, m
  <1>4. CASE root # Null /\ root \in early
    <2>1. Cut(key, T, "right", early)
      BY <1>2 DEF Cut, OnSide, Before
    <2>2. m = SplitAt(l, "right", early, ProcessTree, Tree)
      BY <1>4 DEF Unzip, SplitAt
    <2> HIDE DEF m
    <2>3. Splits(SplitAt(l, "right", early, ProcessTree, Tree), key, T \cap early, T \ early,
                 ProcessTree, Tree)
      BY <1>4, <2>1, SideFacts, SplitDivides
    <2>4. QED
      BY <1>1, <2>2, <2>3 DEF m
  <1>5. CASE root # Null /\ root \notin early
    <2> DEFINE late == Elems \ early
    <2>1. Cut(key, T, "left", late)
      BY <1>2 DEF Cut, OnSide, Before
    <2>2. root \in late
      BY <1>5, PointsToElem, PlaceFacts
    <2>3. Splits(SplitAt(l, "left", late, Tree, ProcessTree), key, T \cap late, T \ late,
                 Tree, ProcessTree)
      <3>1. late \in SUBSET Elems
        OBVIOUS
      <3> HIDE DEF late
      <3>2. QED
        BY <2>1, <2>2, <3>1, SideFacts, SplitDivides
    <2>4. m = SplitAt(l, "left", late, Tree, ProcessTree)
      <3>1. \A u, v : [l EXCEPT ![ProcessTree] = u, ![Tree] = v]
                        = [l EXCEPT ![Tree] = v, ![ProcessTree] = u]
        BY PlaceFacts DEF Pointers
      <3>2. QED
        BY <1>5, <3>1 DEF Unzip, SplitAt
    <2>5. T \cap late = T \ early /\ T \ late = T \cap early
      OBVIOUS
    <2> HIDE DEF m, late
    <2>6. QED
      BY <1>1, <2>3, <2>4, <2>5 DEF Splits, m
  <1>6. QED
    BY <1>3, <1>4, <1>5

-----------------------------------------------------------------------------
(* The frames of a traversal.                                              *)

\* The elements below the right child of a frame are those between its element
\* and the one of the next frame.
Rest(k, P, fs, i) ==
  {y \in P : /\ Before(k, fs[i].elem, y)
             /\ i < Len(fs) => Before(k, y, fs[i + 1].elem)}

\* The frames are those of a traversal that is still to visit P.
Pending(l, k, P, fs) ==
  /\ fs \in Seq(Frames)
  /\ \A i \in 1..Len(fs) : fs[i].elem \in P /\ Treap(l, k, Rest(k, P, fs, i), fs[i].right)
  /\ \A i, j \in 1..Len(fs) : i < j => Before(k, fs[i].elem, fs[j].elem)
  /\ \A y \in P : Len(fs) > 0 /\ (y = fs[1].elem \/ Before(k, fs[1].elem, y))

\* __ZIP_UNIQUE_CMP is a strict total order, since addresses differ.
LEMMA BeforeIsOrder ==
  ASSUME NEW k, NEW M \in SUBSET Elems, Keyed(k, M)
  PROVE  /\ \A x, y, z \in M : Before(k, x, y) /\ Before(k, y, z) => Before(k, x, z)
         /\ \A x, y \in M : x # y => (Before(k, x, y) <=> ~Before(k, y, x))
         /\ \A x, y \in M : Before(k, x, y) => x # y /\ ~Before(k, y, x)
  <1>1. \A x \in M : k[x] \in Int /\ x \in Nat
    BY ZipTreeAssumption DEF Keyed
  <1>2. QED
    BY <1>1 DEF Before

\* Nothing is to be visited without frames.
LEMMA NothingPending ==
  ASSUME NEW l, NEW k PROVE Pending(l, k, {}, <<>>)
  BY DEF Pending

\* A traversal depends on the pointers of the entries still to be visited alone.
LEMMA PendingSame ==
  ASSUME NEW l, NEW m, NEW k, NEW P, NEW fs, Pending(l, k, P, fs),
         \A x \in P : \A side \in Sides : m[<<x, side>>] = l[<<x, side>>]
  PROVE  Pending(m, k, P, fs)
  <1>1. ASSUME NEW i \in 1..Len(fs) PROVE Treap(m, k, Rest(k, P, fs, i), fs[i].right)
    <2>1. Treap(l, k, Rest(k, P, fs, i), fs[i].right) /\ Rest(k, P, fs, i) \subseteq P
      BY DEF Pending, Rest
    <2>2. QED
      BY <2>1, SameTreap
  <1>2. QED
    BY <1>1 DEF Pending

\* A frame for an element that comes before all others is put in front.
LEMMA PendingFront ==
  ASSUME NEW l, NEW k, NEW f \in Frames, NEW R \in SUBSET Elems, NEW Q \in SUBSET Elems,
         Keyed(k, {f.elem} \cup R \cup Q), NEW fs, Pending(l, k, Q, fs),
         Treap(l, k, R, f.right),
         \A y \in R \cup Q : Before(k, f.elem, y),
         \A y \in R, z \in Q : Before(k, y, z)
  PROVE  Pending(l, k, {f.elem} \cup R \cup Q, <<f>> \o fs)
  <1> DEFINE P == {f.elem} \cup R \cup Q
             gs == <<f>> \o fs
  <1>1. /\ fs \in Seq(Frames) /\ gs \in Seq(Frames) /\ Len(gs) = Len(fs) + 1 /\ Len(fs) \in Nat
        /\ gs[1] = f /\ \A i \in 1..Len(fs) : gs[i + 1] = fs[i]
    BY DEF Pending
  <1>2. f.elem \in Elems /\ P \in SUBSET Elems
    BY DEF Frames
  <1>3. /\ \A x, y, z \in P : Before(k, x, y) /\ Before(k, y, z) => Before(k, x, z)
        /\ \A x, y \in P : x # y => (Before(k, x, y) <=> ~Before(k, y, x))
        /\ \A x, y \in P : Before(k, x, y) => x # y /\ ~Before(k, y, x)
    BY <1>2, BeforeIsOrder
  <1>4. f.elem \in P /\ R \subseteq P /\ Q \subseteq P
    OBVIOUS
  <1>5. \A i \in 1..Len(fs) : fs[i].elem \in Q
    BY DEF Pending
  <1>6. \A i \in 2..Len(gs) : i - 1 \in 1..Len(fs) /\ gs[i] = fs[i - 1] /\ i = (i - 1) + 1
    BY <1>1
  <1>7. \A i \in 1..Len(gs) : i = 1 \/ i \in 2..Len(gs)
    BY <1>1
  <1>8. \A y \in P : y = f.elem \/ y \in R \/ y \in Q
    OBVIOUS
  <1> HIDE DEF gs, P
  <1>9. Rest(k, P, gs, 1) = R
    <2>1. ASSUME NEW y \in R PROVE y \in Rest(k, P, gs, 1)
      <3>1. 1 < Len(gs) => Before(k, y, gs[1 + 1].elem)
        <4> SUFFICES ASSUME 1 < Len(gs) PROVE Before(k, y, gs[1 + 1].elem)
          OBVIOUS
        <4>1. 1 \in 1..Len(fs)
          BY <1>1
        <4>2. QED
          BY <1>1, <1>5, <4>1
      <3>2. QED
        BY <1>1, <1>4, <3>1 DEF Rest
    <2>2. ASSUME NEW y \in Rest(k, P, gs, 1) PROVE y \in R
      <3>1. y \in P /\ Before(k, f.elem, y) /\ (1 < Len(gs) => Before(k, y, gs[1 + 1].elem))
        BY <1>1 DEF Rest
      <3>2. y # f.elem
        BY <1>3, <3>1
      <3>3. y \notin Q
        <4> SUFFICES ASSUME y \in Q PROVE FALSE
          OBVIOUS
        <4>1. Len(fs) > 0 /\ (y = fs[1].elem \/ Before(k, fs[1].elem, y))
          BY DEF Pending
        <4>2. 1 \in 1..Len(fs) /\ 1 < Len(gs)
          BY <1>1, <4>1
        <4>3. Before(k, y, fs[1].elem) /\ fs[1].elem \in P
          BY <1>1, <1>4, <1>5, <3>1, <4>2
        <4>4. QED
          BY <1>3, <3>1, <4>1, <4>3
      <3>4. QED
        BY <1>8, <3>1, <3>2, <3>3
    <2>3. QED
      BY <2>1, <2>2
  <1>10. ASSUME NEW i \in 1..Len(fs) PROVE Rest(k, P, gs, i + 1) = Rest(k, Q, fs, i)
    <2>1. /\ gs[i + 1] = fs[i] /\ fs[i].elem \in Q
          /\ i + 1 < Len(gs) <=> i < Len(fs)
          /\ i < Len(fs) => gs[i + 1 + 1] = fs[i + 1]
      <3>1. gs[i + 1] = fs[i] /\ fs[i].elem \in Q
        BY <1>1, <1>5
      <3>2. i + 1 < Len(gs) <=> i < Len(fs)
        BY <1>1
      <3>3. ASSUME i < Len(fs) PROVE gs[i + 1 + 1] = fs[i + 1]
        <4>1. i + 1 \in 1..Len(fs)
          BY <1>1, <3>3
        <4>2. QED
          BY <1>1, <4>1
      <3>4. QED
        BY <3>1, <3>2, <3>3
    <2>2. \A y \in P : Before(k, fs[i].elem, y) => y \in Q
      <3> SUFFICES ASSUME NEW y \in P, Before(k, fs[i].elem, y), y \notin Q PROVE FALSE
        OBVIOUS
      <3>1. Before(k, y, fs[i].elem)
        BY <1>8, <2>1
      <3>2. QED
        BY <1>3, <1>4, <2>1, <3>1
    <2>3. QED
      BY <1>4, <2>1, <2>2 DEF Rest
  <1>11. ASSUME NEW i \in 1..Len(gs)
         PROVE  gs[i].elem \in P /\ Treap(l, k, Rest(k, P, gs, i), gs[i].right)
    <2>1. CASE i = 1
      BY <1>1, <1>4, <1>9, <2>1
    <2>2. CASE i \in 2..Len(gs)
      <3>1. i - 1 \in 1..Len(fs) /\ gs[i] = fs[i - 1] /\ i = (i - 1) + 1
        BY <1>6, <2>2
      <3>2. Rest(k, P, gs, i) = Rest(k, Q, fs, i - 1)
        BY <1>10, <3>1
      <3>3. Treap(l, k, Rest(k, Q, fs, i - 1), fs[i - 1].right)
        BY <3>1 DEF Pending
      <3>4. QED
        BY <1>4, <1>5, <3>1, <3>2, <3>3
    <2>3. QED
      BY <1>7, <2>1, <2>2
  <1>12. ASSUME NEW i \in 1..Len(gs), NEW j \in 1..Len(gs), i < j
         PROVE  Before(k, gs[i].elem, gs[j].elem)
    <2>1. j \in 2..Len(gs)
      BY <1>12
    <2>2. j - 1 \in 1..Len(fs) /\ gs[j] = fs[j - 1]
      BY <1>6, <2>1
    <2>3. CASE i = 1
      BY <1>1, <1>5, <2>2, <2>3
    <2>4. CASE i \in 2..Len(gs)
      <3>1. i - 1 \in 1..Len(fs) /\ gs[i] = fs[i - 1] /\ i - 1 < j - 1
        BY <1>6, <1>12, <2>4
      <3>2. QED
        BY <2>2, <3>1 DEF Pending
    <2>5. QED
      BY <1>7, <2>3, <2>4
  <1>13. \A y \in P : Len(gs) > 0 /\ (y = gs[1].elem \/ Before(k, gs[1].elem, y))
    BY <1>1, <1>8
  <1>14. Pending(l, k, P, gs)
    BY <1>1, <1>11, <1>12, <1>13 DEF Pending
  <1>15. QED
    BY <1>14 DEF P, gs

\* What comes after the first frame and the elements below it
After(k, P, fs) ==
  {y \in P : Len(fs) > 1 /\ (y = fs[2].elem \/ Before(k, fs[2].elem, y))}

\* A traversal goes on after the first of its elements.
GoesOn(l, k, P, Q, fs) ==
  LET x == Head(fs).elem
  IN /\ x \in P /\ Q \subseteq P /\ x \notin Q
     /\ Pending(l, k, Q, Tail(fs))
     /\ Treap(l, k, P \ (Q \cup {x}), Head(fs).right)
     /\ \A y \in P : y = x \/ Before(k, x, y)
     /\ \A y \in P \ (Q \cup {x}), z \in Q : Before(k, y, z)

\* The frame on top has the next entry to visit, and those below its right child
\* come before all entries of the other frames.
LEMMA PendingAfter ==
  ASSUME NEW l, NEW k, NEW P \in SUBSET Elems, Keyed(k, P), NEW fs, Pending(l, k, P, fs),
         fs # <<>>
  PROVE  GoesOn(l, k, P, After(k, P, fs), fs)
  <1> DEFINE Q == After(k, P, fs)
             x == fs[1].elem
             gs == Tail(fs)
  <1>1. /\ fs \in Seq(Frames) /\ Len(fs) \in Nat \ {0} /\ Head(fs) = fs[1] /\ 1 \in 1..Len(fs)
        /\ gs \in Seq(Frames) /\ Len(gs) = Len(fs) - 1
        /\ \A i \in 1..Len(gs) : gs[i] = fs[i + 1] /\ i + 1 \in 1..Len(fs)
    BY DEF Pending
  <1>2. /\ \A u, v, w \in P : Before(k, u, v) /\ Before(k, v, w) => Before(k, u, w)
        /\ \A u, v \in P : u # v => (Before(k, u, v) <=> ~Before(k, v, u))
        /\ \A u, v \in P : Before(k, u, v) => u # v /\ ~Before(k, v, u)
    BY BeforeIsOrder
  <1>3. /\ \A i \in 1..Len(fs) : fs[i].elem \in P /\ Treap(l, k, Rest(k, P, fs, i), fs[i].right)
        /\ \A i, j \in 1..Len(fs) : i < j => Before(k, fs[i].elem, fs[j].elem)
        /\ \A y \in P : y = x \/ Before(k, x, y)
    BY DEF Pending
  <1>4. x \in P /\ Q \subseteq P
    BY <1>1, <1>3 DEF After
  <1>5. \A y \in Q : Len(fs) > 1 /\ 2 \in 1..Len(fs) /\ (y = fs[2].elem \/ Before(k, fs[2].elem, y))
    BY <1>1 DEF After
  <1>6. x \notin Q
    <2> SUFFICES ASSUME x \in Q PROVE FALSE
      OBVIOUS
    <2>1. /\ 2 \in 1..Len(fs) /\ (x = fs[2].elem \/ Before(k, fs[2].elem, x))
          /\ Before(k, x, fs[2].elem) /\ fs[2].elem \in P
      BY <1>1, <1>3, <1>5
    <2>2. QED
      BY <1>2, <1>4, <2>1
  <1>7. P \ (Q \cup {x}) = Rest(k, P, fs, 1)
    <2>1. ASSUME NEW y \in P, y \notin Q, y # x PROVE y \in Rest(k, P, fs, 1)
      <3>1. Before(k, x, y)
        BY <1>3, <2>1
      <3>2. 1 < Len(fs) => Before(k, y, fs[1 + 1].elem)
        <4> SUFFICES ASSUME 1 < Len(fs) PROVE Before(k, y, fs[2].elem)
          OBVIOUS
        <4>1. 2 \in 1..Len(fs) /\ fs[2].elem \in P
          BY <1>1, <1>3
        <4>2. ~(y = fs[2].elem \/ Before(k, fs[2].elem, y))
          BY <1>1, <2>1 DEF After
        <4>3. QED
          BY <1>2, <4>1, <4>2
      <3>3. QED
        BY <3>1, <3>2 DEF Rest
    <2>2. ASSUME NEW y \in Rest(k, P, fs, 1) PROVE y \in P /\ y \notin Q /\ y # x
      <3>1. y \in P /\ Before(k, x, y) /\ (1 < Len(fs) => Before(k, y, fs[2].elem))
        BY DEF Rest
      <3>2. ASSUME y \in Q PROVE FALSE
        <4>1. 2 \in 1..Len(fs) /\ (y = fs[2].elem \/ Before(k, fs[2].elem, y)) /\ 1 < Len(fs)
          BY <1>1, <1>5, <3>2
        <4>2. fs[2].elem \in P
          BY <1>3, <4>1
        <4>3. QED
          BY <1>2, <3>1, <4>1, <4>2
      <3>3. QED
        BY <1>2, <1>4, <3>1, <3>2
    <2>3. QED
      BY <2>1, <2>2
  <1>8. ASSUME NEW y \in P \ (Q \cup {x}), NEW z \in Q PROVE Before(k, y, z)
    <2>1. 2 \in 1..Len(fs) /\ (z = fs[2].elem \/ Before(k, fs[2].elem, z)) /\ 1 < Len(fs)
      BY <1>1, <1>5
    <2>2. Before(k, y, fs[2].elem) /\ fs[2].elem \in P /\ y \in P /\ z \in P
      <3>1. y \in Rest(k, P, fs, 1) /\ 1 + 1 = 2
        BY <1>7
      <3>2. QED
        BY <1>3, <1>4, <2>1, <3>1 DEF Rest
    <2>3. QED
      BY <1>2, <2>1, <2>2
  <1> HIDE DEF Q, gs
  <1>9. ASSUME NEW i \in 1..Len(gs) PROVE gs[i].elem \in Q
    <2>1. gs[i] = fs[i + 1] /\ i + 1 \in 1..Len(fs) /\ i \in Nat
      BY <1>1
    <2>2. 1 < Len(fs) /\ 2 \in 1..Len(fs) /\ (i + 1 = 2 \/ 2 < i + 1)
      BY <1>1, <2>1
    <2>3. fs[i + 1].elem = fs[2].elem \/ Before(k, fs[2].elem, fs[i + 1].elem)
      BY <1>3, <2>1, <2>2
    <2>4. QED
      BY <1>3, <2>1, <2>2, <2>3 DEF After, Q
  <1>10. ASSUME NEW i \in 1..Len(gs) PROVE Rest(k, Q, gs, i) = Rest(k, P, fs, i + 1)
    <2>1. /\ gs[i] = fs[i + 1] /\ gs[i].elem \in Q /\ i \in Nat
          /\ i < Len(gs) <=> i + 1 < Len(fs)
          /\ i < Len(gs) => gs[i + 1] = fs[i + 1 + 1]
      BY <1>1, <1>9
    <2>2. \A y \in P : Before(k, gs[i].elem, y) => y \in Q
      <3> SUFFICES ASSUME NEW y \in P, Before(k, gs[i].elem, y) PROVE y \in Q
        OBVIOUS
      <3>1. /\ Len(fs) > 1 /\ 2 \in 1..Len(fs) /\ gs[i].elem \in P
            /\ (gs[i].elem = fs[2].elem \/ Before(k, fs[2].elem, gs[i].elem))
        BY <1>4, <1>5, <2>1
      <3>2. Before(k, fs[2].elem, y)
        BY <1>2, <1>3, <3>1
      <3>3. QED
        BY <3>1, <3>2 DEF After, Q
    <2>3. QED
      BY <1>4, <2>1, <2>2 DEF Rest
  <1>11. Pending(l, k, Q, gs)
    <2>1. ASSUME NEW i \in 1..Len(gs) PROVE Treap(l, k, Rest(k, Q, gs, i), gs[i].right)
      BY <1>1, <1>3, <1>10
    <2>2. ASSUME NEW i \in 1..Len(gs), NEW j \in 1..Len(gs), i < j
          PROVE  Before(k, gs[i].elem, gs[j].elem)
      <3>1. i + 1 \in 1..Len(fs) /\ j + 1 \in 1..Len(fs) /\ i + 1 < j + 1
        BY <1>1, <2>2
      <3>2. QED
        BY <1>1, <1>3, <3>1
    <2>3. ASSUME NEW y \in Q PROVE Len(gs) > 0 /\ (y = gs[1].elem \/ Before(k, gs[1].elem, y))
      <3>1. Len(fs) > 1 /\ (y = fs[2].elem \/ Before(k, fs[2].elem, y))
        BY <1>5
      <3>2. Len(gs) > 0 /\ 1 \in 1..Len(gs)
        BY <1>1, <3>1
      <3>3. gs[1] = fs[2]
        BY <1>1, <3>2
      <3>4. QED
        BY <3>1, <3>2, <3>3
    <2>4. QED
      BY <1>1, <1>9, <2>1, <2>2, <2>3 DEF Pending
  <1>12. Treap(l, k, P \ (Q \cup {x}), fs[1].right)
    BY <1>1, <1>3, <1>7
  <1>13. QED
    BY <1>1, <1>3, <1>4, <1>6, <1>8, <1>11, <1>12 DEF GoesOn, Q, gs

\* __ZIP_ITER calls itself down to the first element.
LEMMA DescendAdds ==
  ASSUME RankInv, NEW l \in Pointers, NEW k, NEW R \in SUBSET Elems, NEW Q \in SUBSET Elems,
         Keyed(k, R \cup Q), NEW v, Treap(l, k, R, v), NEW fs, Pending(l, k, Q, fs),
         \A y \in R, z \in Q : Before(k, y, z)
  PROVE  Pending(l, k, R \cup Q, Descend(l, v, fs))
  <1> DEFINE round == DescendRound(l)
             start == [at |-> v, frames |-> fs]
             Left(d, N) ==
               /\ Treap(l, k, N, d.at)
               /\ Pending(l, k, (R \ N) \cup Q, d.frames)
               /\ \A y \in N, z \in (R \ N) \cup Q : Before(k, y, z)
             I == [n \in 0..Entries |->
                    {d \in Descents : \E N \in SUBSET R : Cardinality(N) + n <= Entries /\ Left(d, N)}]
  <1>1. Entries \in Nat
    BY EntriesAreNat
  <1>2. start \in I[0]
    <2>1. start \in Descents
      BY DEF Descents, Treap, IsTop, Pending
    <2>2. Left(start, R)
      <3>1. (R \ R) \cup Q = Q
        OBVIOUS
      <3>2. QED
        BY <3>1
    <2>3. Cardinality(R) + 0 <= Entries
      BY AtMostAll
    <2> HIDE DEF Left, start
    <2>4. QED
      BY <1>1, <2>1, <2>2, <2>3
  <1>3. ASSUME NEW n \in 0..(Entries - 1), NEW d \in I[n] PROVE round[d] \in I[n + 1]
    <2>0. n \in 0..Entries /\ n + 1 \in 0..Entries /\ n \in Nat
      BY <1>1
    <2>1. d \in Descents
      BY <2>0
    <2>2. PICK N \in SUBSET R : Cardinality(N) + n <= Entries /\ Left(d, N)
      BY <2>0
    <2>3. SUFFICES \E M \in SUBSET R : Cardinality(M) + (n + 1) <= Entries /\ Left(round[d], M)
                                       /\ round[d] \in Descents
      BY <2>0
    <2>4. /\ N \in SUBSET Elems /\ Keyed(k, N)
          /\ d.at \in Elems \cup {Null} /\ d.frames \in Seq(Frames)
          /\ (R \ N) \cup Q \in SUBSET Elems
      BY <2>1, <2>2 DEF Keyed, Descents
    <2>5. CASE d.at = Null
      <3>1. round[d] = d
        BY <2>1, <2>5 DEF DescendRound
      <3>2. N = {}
        BY <2>2, <2>4, <2>5, EmptyTreap
      <3>3. Cardinality(N) + (n + 1) <= Entries
        BY <1>1, <3>2, FS_EmptySet
      <3> HIDE DEF Left, round
      <3>4. QED
        BY <2>1, <2>2, <3>1, <3>3
    <2>6. CASE d.at # Null
      <3> DEFINE x == d.at
                 M == Half(k, N, x, "left")
                 K == Half(k, N, x, "right")
                 f == [elem |-> x, right |-> l[<<x, "right">>]]
                 gs == <<f>> \o d.frames
      <3>1. N # {}
        BY <2>2, <2>4, <2>6, EmptyTreap
      <3>2. /\ x \in N /\ x \in Elems
            /\ Treap(l, k, M, l[<<x, "left">>]) /\ Treap(l, k, K, l[<<x, "right">>])
        BY <2>2, <2>4, <3>1, Unfold, SideFacts
      <3>3. /\ M \subseteq N /\ K \subseteq N
            /\ (\A y \in M : Before(k, y, x)) /\ (\A y \in K : Before(k, x, y))
        BY SideFacts DEF Half, OnSide
      <3>4. /\ \A y, z, w \in N : Before(k, y, z) /\ Before(k, z, w) => Before(k, y, w)
            /\ \A y, z \in N : y # z => (Before(k, y, z) <=> ~Before(k, z, y))
            /\ \A y, z \in N : Before(k, y, z) => y # z /\ ~Before(k, z, y)
        BY <2>4, BeforeIsOrder
      <3>5. \A y \in N : y = x \/ y \in M \/ y \in K
        BY <3>2, <3>4, SideFacts DEF Half, OnSide
      <3>6. x \notin M /\ x \notin K /\ M \cap K = {}
        BY <3>2, <3>3, <3>4
      <3>7. f \in Frames /\ f.elem = x /\ f.right = l[<<x, "right">>]
        <4>1. l[<<x, "right">>] \in Elems \cup {Null}
          BY <3>2, PlaceFacts, SideFacts, PointsToElem
        <4>2. QED
          BY <3>2, <4>1 DEF Frames
      <3>8. round[d] = [at |-> l[<<x, "left">>], frames |-> gs]
        BY <2>1, <2>6 DEF DescendRound
      <3> HIDE DEF x, M, K, f, round
      <3>9. {x} \cup K \cup ((R \ N) \cup Q) = (R \ M) \cup Q
        BY <3>2, <3>3, <3>5, <3>6
      <3>10. Pending(l, k, {x} \cup K \cup ((R \ N) \cup Q), gs)
        <4>1. Keyed(k, {f.elem} \cup K \cup ((R \ N) \cup Q))
          BY <3>2, <3>3, <3>7 DEF Keyed
        <4>2. \A y \in K \cup ((R \ N) \cup Q) : Before(k, f.elem, y)
          BY <2>2, <3>2, <3>3, <3>7
        <4>3. \A y \in K, z \in (R \ N) \cup Q : Before(k, y, z)
          BY <2>2, <3>3
        <4>4. K \in SUBSET Elems /\ Treap(l, k, K, f.right)
          BY <2>4, <3>2, <3>3, <3>7
        <4>5. Pending(l, k, {f.elem} \cup K \cup ((R \ N) \cup Q), gs)
          BY <2>2, <2>4, <3>7, <4>1, <4>2, <4>3, <4>4, PendingFront
        <4>6. QED
          BY <3>7, <4>5
      <3>11. \A y \in M, z \in {x} \cup K \cup ((R \ N) \cup Q) : Before(k, y, z)
        <4> SUFFICES ASSUME NEW y \in M, NEW z \in {x} \cup K \cup ((R \ N) \cup Q)
                     PROVE  Before(k, y, z)
          OBVIOUS
        <4>1. CASE z \in {x} \cup K
          BY <3>2, <3>3, <3>4, <4>1
        <4>2. CASE z \in (R \ N) \cup Q
          BY <2>2, <3>3, <4>2
        <4>3. QED
          BY <4>1, <4>2
      <3>12. M \in SUBSET N /\ M # N
        BY <3>2, <3>3, <3>6
      <3>13. Cardinality(M) + (n + 1) <= Entries
        BY <2>0, <2>2, <2>4, <3>12, FewerLeft
      <3>14. /\ round[d].at = l[<<x, "left">>] /\ round[d].frames = gs /\ round[d] \in Descents
        <4>1. l[<<x, "left">>] \in Elems \cup {Null}
          BY <3>2, PlaceFacts, SideFacts, PointsToElem
        <4>2. gs \in Seq(Frames)
          BY <2>4, <3>7
        <4> HIDE DEF gs
        <4>3. QED
          BY <3>8, <4>1, <4>2 DEF Descents
      <3> HIDE DEF gs
      <3>15. Left(round[d], M)
        BY <3>2, <3>9, <3>10, <3>11, <3>14
      <3> HIDE DEF Left
      <3>16. M \in SUBSET R
        BY <2>2, <3>12
      <3>17. QED
        BY <3>13, <3>14, <3>15, <3>16
    <2>7. QED
      BY <2>5, <2>6
  <1> HIDE DEF I
  <1> DEFINE d == Loop(round, start)
  <1>4. d \in I[Entries]
    BY <1>2, <1>3, LoopInvariant
  <1> HIDE DEF d, Left
  <1>5. PICK N \in SUBSET R : Cardinality(N) + Entries <= Entries /\ Left(d, N)
    BY <1>1, <1>4 DEF I
  <1>6. N = {}
    <2>1. N \in SUBSET Elems
      OBVIOUS
    <2>2. QED
      BY <1>5, <2>1, NoneLeft
  <1>7. Pending(l, k, (R \ N) \cup Q, d.frames) /\ (R \ N) \cup Q = R \cup Q
    BY <1>5, <1>6 DEF Left
  <1>8. QED
    BY <1>7 DEF d, Descend

-----------------------------------------------------------------------------
(* The order of a traversal.                                               *)

\* s has the elements of P in the order of their keys.
Enumerates(s, k, P) ==
  /\ s \in Seq(P)
  /\ \A y \in P : \E i \in 1..Len(s) : s[i] = y
  /\ \A i, j \in 1..Len(s) : i < j => Before(k, s[i], s[j])

\* There is one order of a set.
LEMMA OneOrder ==
  ASSUME NEW k, NEW P \in SUBSET Elems, Keyed(k, P), NEW s, NEW t,
         Enumerates(s, k, P), Enumerates(t, k, P)
  PROVE  s = t
  <1>0. /\ \A x, y, z \in P : Before(k, x, y) /\ Before(k, y, z) => Before(k, x, z)
        /\ \A x, y \in P : x # y => (Before(k, x, y) <=> ~Before(k, y, x))
        /\ \A x, y \in P : Before(k, x, y) => x # y /\ ~Before(k, y, x)
    BY BeforeIsOrder
  <1>1. ASSUME NEW a, NEW b, Enumerates(a, k, P), Enumerates(b, k, P), NEW i \in 1..Len(a),
               i \in 1..Len(b) => a[i] # b[i],
               \A j \in 1..(i - 1) : j \in 1..Len(a) /\ j \in 1..Len(b) => a[j] = b[j]
        PROVE  i \in 1..Len(b) /\ Before(k, b[i], a[i])
    <2>1. Len(a) \in Nat /\ Len(b) \in Nat /\ a[i] \in P
      <3>1. a \in Seq(P) /\ b \in Seq(P)
        BY <1>1 DEF Enumerates
      <3>2. QED
        BY <3>1
    <2>2. PICK j \in 1..Len(b) : b[j] = a[i]
      BY <1>1, <2>1 DEF Enumerates
    <2>3. ~(j < i)
      <3> SUFFICES ASSUME j < i PROVE FALSE
        OBVIOUS
      <3>1. j \in 1..(i - 1) /\ j \in 1..Len(a)
        BY <2>1, <2>2
      <3>2. a[j] = a[i] /\ Before(k, a[j], a[i])
        BY <1>1, <2>2, <3>1 DEF Enumerates
      <3>3. QED
        BY <1>0, <2>1, <3>2
    <2>4. i \in 1..Len(b)
      BY <2>1, <2>2, <2>3
    <2>5. i < j
      BY <1>1, <2>2, <2>3, <2>4
    <2>6. QED
      BY <1>1, <2>2, <2>4, <2>5 DEF Enumerates
  <1>2. Len(s) \in Nat /\ Len(t) \in Nat /\ s \in Seq(P) /\ t \in Seq(P)
    BY DEF Enumerates
  <1> DEFINE Differ == {i \in Nat : \/ i \in 1..Len(s) /\ (i \in 1..Len(t) => s[i] # t[i])
                                    \/ i \in 1..Len(t) /\ (i \in 1..Len(s) => t[i] # s[i])}
  <1>3. Differ = {}
    <2> SUFFICES ASSUME Differ # {} PROVE FALSE
      OBVIOUS
    <2>1. PICK i \in Differ : \A j \in Differ : i <= j
      BY SmallestIn
    <2>2. \A j \in 1..(i - 1) : j \in 1..Len(s) /\ j \in 1..Len(t) => s[j] = t[j]
      BY <2>1
    <2>3. CASE i \in 1..Len(s) /\ (i \in 1..Len(t) => s[i] # t[i])
      <3>1. i \in 1..Len(t) /\ Before(k, t[i], s[i])
        BY <1>1, <2>2, <2>3
      <3>2. Before(k, s[i], t[i])
        BY <1>1, <2>2, <2>3, <3>1
      <3>3. s[i] \in P /\ t[i] \in P
        BY <1>2, <2>3, <3>1
      <3>4. QED
        BY <1>0, <3>1, <3>2, <3>3
    <2>4. CASE i \in 1..Len(t) /\ (i \in 1..Len(s) => t[i] # s[i])
      <3>1. i \in 1..Len(s) /\ Before(k, s[i], t[i])
        BY <1>1, <2>2, <2>4
      <3>2. Before(k, t[i], s[i])
        BY <1>1, <2>2, <2>4, <3>1
      <3>3. s[i] \in P /\ t[i] \in P
        BY <1>2, <2>4, <3>1
      <3>4. QED
        BY <1>0, <3>1, <3>2, <3>3
    <2>5. QED
      BY <2>1, <2>3, <2>4
  <1>4. ASSUME NEW i \in Nat PROVE /\ i \in 1..Len(s) <=> i \in 1..Len(t)
                                   /\ i \in 1..Len(s) => s[i] = t[i]
    BY <1>3
  <1> HIDE DEF Differ
  <1>5. Len(s) = Len(t)
    <2>1. Len(s) # 0 => Len(s) \in 1..Len(t)
      BY <1>2, <1>4
    <2>2. Len(t) # 0 => Len(t) \in 1..Len(s)
      BY <1>2, <1>4
    <2>3. QED
      BY <1>2, <2>1, <2>2
  <1>6. \A i \in 1..Len(s) : s[i] = t[i]
    BY <1>2, <1>4
  <1>7. QED
    BY <1>2, <1>5, <1>6

\* The first of an enumeration, and the others
LEMMA EnumerateTail ==
  ASSUME NEW k, NEW P \in SUBSET Elems, Keyed(k, P), NEW s, Enumerates(s, k, P), NEW x \in P,
         \A y \in P : y = x \/ Before(k, x, y)
  PROVE  s # <<>> /\ Head(s) = x /\ Enumerates(Tail(s), k, P \ {x})
  <1>0. /\ \A y, z \in P : y # z => (Before(k, y, z) <=> ~Before(k, z, y))
        /\ \A y, z \in P : Before(k, y, z) => y # z /\ ~Before(k, z, y)
    BY BeforeIsOrder
  <1>1. /\ s \in Seq(P) /\ Len(s) \in Nat
        /\ \A y \in P : \E i \in 1..Len(s) : s[i] = y
        /\ \A i, j \in 1..Len(s) : i < j => Before(k, s[i], s[j])
    BY DEF Enumerates
  <1>2. PICK n \in 1..Len(s) : s[n] = x
    BY <1>1
  <1>3. 1 \in 1..Len(s) /\ s # <<>> /\ s[1] \in P /\ Head(s) = s[1]
    BY <1>1, <1>2
  <1>4. s[1] = x
    <2>1. SUFFICES ASSUME 1 < n PROVE FALSE
      BY <1>1, <1>2
    <2>2. Before(k, s[1], x)
      BY <1>1, <1>2, <1>3, <2>1
    <2>3. QED
      BY <1>0, <1>3, <2>2
  <1> DEFINE t == Tail(s)
  <1>5. /\ t \in Seq(P) /\ Len(t) = Len(s) - 1
        /\ \A i \in 1..Len(t) : t[i] = s[i + 1] /\ i + 1 \in 1..Len(s)
    BY <1>1, <1>3
  <1> HIDE DEF t
  <1>6. \A i \in 1..Len(t) : t[i] \in P \ {x}
    <2> SUFFICES ASSUME NEW i \in 1..Len(t) PROVE t[i] \in P \ {x}
      OBVIOUS
    <2>1. t[i] = s[i + 1] /\ i + 1 \in 1..Len(s) /\ 1 < i + 1
      BY <1>5
    <2>2. Before(k, x, t[i]) /\ t[i] \in P
      <3>1. s[i + 1] \in P
        BY <1>1, <2>1
      <3>2. Before(k, s[1], s[i + 1])
        BY <1>1, <1>3, <2>1
      <3>3. QED
        BY <1>4, <2>1, <3>1, <3>2
    <2>3. QED
      BY <1>0, <2>2
  <1>7. t \in Seq(P \ {x})
    BY <1>5, <1>6
  <1>8. ASSUME NEW y \in P \ {x} PROVE \E i \in 1..Len(t) : t[i] = y
    <2>1. PICK i \in 1..Len(s) : s[i] = y
      BY <1>1
    <2>2. i # 1
      BY <1>4, <2>1
    <2>3. i - 1 \in 1..Len(t) /\ (i - 1) + 1 = i
      BY <1>1, <1>5, <2>1, <2>2
    <2>4. QED
      BY <1>5, <2>1, <2>3
  <1>9. ASSUME NEW i \in 1..Len(t), NEW j \in 1..Len(t), i < j PROVE Before(k, t[i], t[j])
    <2>1. i + 1 \in 1..Len(s) /\ j + 1 \in 1..Len(s) /\ i + 1 < j + 1
      BY <1>5, <1>9
    <2>2. QED
      BY <1>1, <1>5, <2>1
  <1>10. QED
    BY <1>3, <1>4, <1>7, <1>8, <1>9 DEF Enumerates, t

\* An entry that comes after all others is appended.
LEMMA EnumerateAppend ==
  ASSUME NEW k, NEW P, NEW s, Enumerates(s, k, P), NEW x,
         \A y \in P : Before(k, y, x)
  PROVE  Enumerates(Append(s, x), k, P \cup {x})
  <1> DEFINE t == Append(s, x)
  <1>1. /\ s \in Seq(P) /\ Len(s) \in Nat
        /\ \A y \in P : \E i \in 1..Len(s) : s[i] = y
        /\ \A i, j \in 1..Len(s) : i < j => Before(k, s[i], s[j])
    BY DEF Enumerates
  <1>2. s \in Seq(P \cup {x})
    BY <1>1
  <1>3. /\ t \in Seq(P \cup {x}) /\ Len(t) = Len(s) + 1 /\ t[Len(s) + 1] = x
        /\ \A i \in 1..Len(s) : t[i] = s[i] /\ i \in 1..Len(t)
    BY <1>1, <1>2
  <1> HIDE DEF t
  <1>4. ASSUME NEW y \in P \cup {x} PROVE \E i \in 1..Len(t) : t[i] = y
    <2>1. CASE y = x
      <3>1. Len(s) + 1 \in 1..Len(t)
        BY <1>1, <1>3
      <3>2. QED
        BY <1>3, <2>1, <3>1
    <2>2. CASE y \in P
      BY <1>1, <1>3, <2>2
    <2>3. QED
      BY <2>1, <2>2
  <1>5. ASSUME NEW i \in 1..Len(t), NEW j \in 1..Len(t), i < j PROVE Before(k, t[i], t[j])
    <2>1. i \in 1..Len(s)
      BY <1>1, <1>3, <1>5
    <2>2. CASE j \in 1..Len(s)
      BY <1>1, <1>3, <1>5, <2>1, <2>2
    <2>3. CASE j = Len(s) + 1
      <3>1. s[i] \in P
        BY <1>1, <2>1
      <3>2. QED
        BY <1>3, <2>1, <2>3, <3>1
    <2>4. QED
      BY <1>1, <1>3, <2>2, <2>3
  <1>6. QED
    BY <1>3, <1>4, <1>5 DEF Enumerates, t

\* A traversal that is not disturbed visits what is pending, in order.
LEMMA ToVisitOrder ==
  ASSUME RankInv, NEW l \in Pointers, NEW k, NEW P \in SUBSET Elems, Keyed(k, P),
         NEW fs, Pending(l, k, P, fs)
  PROVE  Enumerates(ToVisit(l, fs), k, P)
  <1> DEFINE round == VisitRound(l)
             start == [frames |-> fs, visited |-> <<>>]
             Left(v, N) ==
               /\ Pending(l, k, N, v.frames)
               /\ Enumerates(v.visited, k, P \ N)
               /\ \A y \in P \ N, z \in N : Before(k, y, z)
             I == [n \in 0..Entries |->
                    {v \in Traversals : \E N \in SUBSET P : Cardinality(N) + n <= Entries /\ Left(v, N)}]
  <1>1. Entries \in Nat
    BY EntriesAreNat
  <1>2. start \in I[0]
    <2>1. start \in Traversals
      BY DEF Traversals, Pending
    <2>2. Left(start, P)
      <3>1. P \ P = {} /\ Enumerates(<<>>, k, {})
        BY DEF Enumerates
      <3>2. QED
        BY <3>1
    <2>3. Cardinality(P) + 0 <= Entries
      BY AtMostAll
    <2> HIDE DEF Left, start
    <2>4. QED
      BY <1>1, <2>1, <2>2, <2>3
  <1>3. ASSUME NEW n \in 0..(Entries - 1), NEW v \in I[n] PROVE round[v] \in I[n + 1]
    <2>0. n \in 0..Entries /\ n + 1 \in 0..Entries /\ n \in Nat
      BY <1>1
    <2>1. v \in Traversals
      BY <2>0
    <2>2. PICK N \in SUBSET P : Cardinality(N) + n <= Entries /\ Left(v, N)
      BY <2>0
    <2>3. SUFFICES \E M \in SUBSET P : Cardinality(M) + (n + 1) <= Entries /\ Left(round[v], M)
                                       /\ round[v] \in Traversals
      BY <2>0
    <2>4. N \in SUBSET Elems /\ Keyed(k, N) /\ v.frames \in Seq(Frames) /\ v.visited \in Seq(Elems)
      BY <2>1, <2>2 DEF Keyed, Traversals
    <2>5. CASE v.frames = <<>>
      <3>1. round[v] = v
        BY <2>1, <2>5 DEF VisitRound
      <3>2. N = {}
        BY <2>2, <2>5 DEF Pending
      <3>3. Cardinality(N) + (n + 1) <= Entries
        BY <1>1, <3>2, FS_EmptySet
      <3> HIDE DEF Left, round
      <3>4. QED
        BY <2>1, <2>2, <3>1, <3>3
    <2>6. CASE v.frames # <<>>
      <3> DEFINE Q == After(k, N, v.frames)
                 x == Head(v.frames).elem
                 right == Head(v.frames).right
                 R == N \ (Q \cup {x})
                 gs == Descend(l, right, Tail(v.frames))
                 M == R \cup Q
      <3>1. GoesOn(l, k, N, Q, v.frames)
        BY <2>2, <2>4, <2>6, PendingAfter
      <3>2. /\ x \in N /\ Q \subseteq N /\ x \notin Q
            /\ Pending(l, k, Q, Tail(v.frames)) /\ Treap(l, k, R, right)
            /\ \A y \in N : y = x \/ Before(k, x, y)
            /\ \A y \in R, z \in Q : Before(k, y, z)
        BY <3>1 DEF GoesOn
      <3> HIDE DEF Q, x, right
      <3>3. /\ R \in SUBSET Elems /\ Q \in SUBSET Elems /\ Keyed(k, R \cup Q)
            /\ M = N \ {x}
        BY <2>4, <3>2 DEF Keyed
      <3> HIDE DEF R
      <3>4. Pending(l, k, M, gs)
        BY <3>2, <3>3, DescendAdds
      <3>5. round[v] = [frames |-> gs, visited |-> Append(v.visited, x)]
        BY <2>1, <2>6 DEF VisitRound, x, right
      <3> HIDE DEF M, gs, round
      <3>6. Enumerates(Append(v.visited, x), k, P \ M)
        <4>1. \A y \in P \ N : Before(k, y, x)
          BY <2>2, <3>2
        <4>2. Enumerates(Append(v.visited, x), k, (P \ N) \cup {x})
          BY <2>2, <4>1, EnumerateAppend
        <4>3. (P \ N) \cup {x} = P \ M
          BY <3>2, <3>3
        <4>4. QED
          BY <4>2, <4>3
      <3>7. ASSUME NEW y \in P \ M, NEW z \in M PROVE Before(k, y, z)
        <4>1. z \in N /\ z # x
          BY <3>3
        <4>2. CASE y = x
          BY <3>2, <4>1, <4>2
        <4>3. CASE y \in P \ N
          BY <2>2, <4>1, <4>3
        <4>4. QED
          BY <3>3, <4>2, <4>3
      <3>8. /\ round[v].frames = gs /\ round[v].visited = Append(v.visited, x)
            /\ round[v] \in Traversals
        <4>1. gs \in Seq(Frames) /\ Append(v.visited, x) \in Seq(Elems)
          BY <2>4, <3>2, <3>4 DEF Pending
        <4>2. QED
          BY <3>5, <4>1 DEF Traversals
      <3>9. Left(round[v], M)
        BY <3>4, <3>6, <3>7, <3>8
      <3>10. M \in SUBSET N /\ M # N
        BY <3>2, <3>3
      <3>11. Cardinality(M) + (n + 1) <= Entries
        BY <2>0, <2>2, <2>4, <3>10, FewerLeft
      <3> HIDE DEF Left
      <3>12. QED
        BY <2>2, <3>8, <3>9, <3>10, <3>11
    <2>7. QED
      BY <2>5, <2>6
  <1> HIDE DEF I
  <1> DEFINE v == Loop(round, start)
  <1>4. v \in I[Entries]
    BY <1>2, <1>3, LoopInvariant
  <1> HIDE DEF v, Left
  <1>5. PICK N \in SUBSET P : Cardinality(N) + Entries <= Entries /\ Left(v, N)
    BY <1>1, <1>4 DEF I
  <1>6. N = {} /\ P \ N = P
    <2>1. N \in SUBSET Elems
      OBVIOUS
    <2>2. N = {}
      BY <1>5, <2>1, NoneLeft
    <2>3. QED
      BY <2>2
  <1>7. Enumerates(v.visited, k, P)
    BY <1>5, <1>6 DEF Left
  <1>8. QED
    BY <1>7 DEF v, ToVisit

-----------------------------------------------------------------------------
(* Searches.                                                               *)

\* ZIP_MIN finds the least entry.
LEMMA LeastFound ==
  ASSUME RankInv, NEW l \in Pointers, NEW k, NEW T \in SUBSET Elems, Keyed(k, T), T # {},
         Treap(l, k, T, l[Tree])
  PROVE  LET x == EndOfSpine(l, "left", Elems, l[Tree])
         IN x \in T /\ \A y \in T : y = x \/ Before(k, x, y)
  <1> DEFINE x == EndOfSpine(l, "left", Elems, l[Tree])
  <1>1. l[Tree] \in Elems
    BY Unfold
  <1>2. Cut(k, T, "left", Elems)
    BY DEF Cut
  <1>3. PICK M \in SUBSET T : OnSpine(l, k, T, M, "left", Elems, x) /\ l[<<x, "left">>] \notin Elems
    BY <1>1, <1>2, SpineEnds, SideFacts
  <1> HIDE DEF x
  <1>4. M = {}
    <2>1. Treap(l, k, M, l[<<x, "left">>]) /\ M \in SUBSET Elems
      BY <1>3 DEF OnSpine, At
    <2>2. QED
      BY <1>3, <2>1 DEF Treap, IsTop
  <1>5. x \in T /\ \A y \in T : y = x \/ Before(k, x, y)
    BY <1>3, <1>4 DEF OnSpine, OnSide
  <1>6. QED
    BY <1>5 DEF x

\* ZIP_FIND finds an entry with the time that an entry of the tree has.
LEMMA TimeFound ==
  ASSUME RankInv, link \in Pointers, NEW T \in SUBSET Elems, Keyed(key, T),
         Treap(link, key, T, link[Tree]), NEW u \in T
  PROVE  Find(key[u]) \in T /\ key[Find(key[u])] = key[u]
  <1> DEFINE t == key[u]
             round == FindRound(t)
             Found(x) == x \in T /\ key[x] = t
             I == [n \in 0..Entries |->
                    {x \in Elems \cup {Null} : \E N \in SUBSET T :
                       /\ Treap(link, key, N, x) /\ \E z \in N : key[z] = t
                       /\ Cardinality(N) + n <= Entries \/ Found(x)}]
  <1>1. Entries \in Nat /\ t \in Int /\ \A x \in T : key[x] \in Int
    BY EntriesAreNat DEF Keyed
  <1>2. link[Tree] \in I[0]
    <2>1. link[Tree] \in Elems \cup {Null}
      BY PlaceFacts, PointsToElem
    <2>2. Cardinality(T) + 0 <= Entries
      BY AtMostAll
    <2>3. \E z \in T : key[z] = t
      OBVIOUS
    <2> HIDE DEF t, Found
    <2>4. QED
      BY <1>1, <2>1, <2>2, <2>3
  <1>3. ASSUME NEW n \in 0..(Entries - 1), NEW x \in I[n] PROVE round[x] \in I[n + 1]
    <2>0. n \in 0..Entries /\ n + 1 \in 0..Entries /\ n \in Nat
      BY <1>1
    <2>1. x \in Elems \cup {Null}
      BY <2>0
    <2>2. PICK N \in SUBSET T :
            /\ Treap(link, key, N, x) /\ \E z \in N : key[z] = t
            /\ Cardinality(N) + n <= Entries \/ Found(x)
      BY <2>0
    <2>3. SUFFICES \E M \in SUBSET T :
            /\ Treap(link, key, M, round[x]) /\ \E z \in M : key[z] = t
            /\ Cardinality(M) + (n + 1) <= Entries \/ Found(round[x])
            /\ round[x] \in Elems \cup {Null}
      BY <2>0
    <2>4. N \in SUBSET Elems /\ Keyed(key, N) /\ N # {}
      BY <2>2 DEF Keyed
    <2>5. x \in N /\ x \in Elems /\ x # Null
      BY <2>2, <2>4, Unfold
    <2>6. CASE key[x] = t
      <3>1. round[x] = x
        BY <2>1, <2>6 DEF FindRound
      <3>2. Found(x)
        BY <2>5, <2>6
      <3> HIDE DEF round, Found, t
      <3>3. QED
        BY <2>1, <2>2, <3>1, <3>2
    <2>7. CASE key[x] # t
      <3> DEFINE side == IF t < key[x] THEN "left" ELSE "right"
                 M == Half(key, N, x, side)
      <3>1. round[x] = link[<<x, side>>]
        BY <2>1, <2>5, <2>7 DEF FindRound
      <3>2. side \in Sides
        BY SideFacts
      <3>3. PICK z \in N : key[z] = t
        BY <2>2
      <3>4. z \in M
        <4>1. key[z] \in Int /\ key[x] \in Int /\ z \in N
          BY <1>1, <2>5, <3>3
        <4>2. OnSide(key, z, x, side)
          BY <1>1, <2>7, <3>3, <4>1 DEF OnSide, Before
        <4>3. QED
          BY <4>2 DEF Half
      <3> HIDE DEF side
      <3>5. Treap(link, key, M, link[<<x, side>>])
        BY <2>2, <2>4, <3>2, Unfold
      <3>6. M \in SUBSET N /\ M # N
        <4>1. ~OnSide(key, x, x, side)
          BY <2>4, <2>5, <3>2, KeysAreOrdered DEF SidesOrder
        <4>2. QED
          BY <2>5, <4>1 DEF Half
      <3>7. Cardinality(M) + (n + 1) <= Entries
        <4>1. ~Found(x)
          BY <2>7
        <4>2. QED
          BY <2>0, <2>2, <2>4, <3>6, <4>1, FewerLeft
      <3>8. link[<<x, side>>] \in Elems \cup {Null}
        BY <2>5, <3>2, PlaceFacts, PointsToElem
      <3> HIDE DEF M, round, Found, t
      <3>9. QED
        BY <2>2, <3>1, <3>3, <3>4, <3>5, <3>6, <3>7, <3>8
    <2>8. QED
      BY <2>6, <2>7
  <1> HIDE DEF I
  <1> DEFINE x == Loop(round, link[Tree])
  <1>4. x \in I[Entries]
    BY <1>2, <1>3, LoopInvariant
  <1> HIDE DEF x, Found
  <1>5. PICK N \in SUBSET T :
          /\ \E z \in N : key[z] = t
          /\ Cardinality(N) + Entries <= Entries \/ Found(x)
    BY <1>1, <1>4 DEF I
  <1>6. Found(x)
    <2>1. N \in SUBSET Elems /\ N # {}
      BY <1>5
    <2>2. QED
      BY <1>5, <2>1, NoneLeft
  <1>7. QED
    BY <1>6 DEF x, Found, Find

\* The search for the entries of a window stays in the tree.
LEMMA VisitedInTree ==
  ASSUME RankInv, link \in Pointers, NEW T \in SUBSET Elems, Keyed(key, T),
         Treap(link, key, T, link[Tree]), NEW from, NEW latest
  PROVE  Visited(from, latest) \subseteq T
  <1> DEFINE round == MeetRound(from, latest)
             start == {link[Tree]} \ {Null}
             I == [n \in 0..Entries |-> SUBSET T]
  <1>1. Entries \in Nat
    BY EntriesAreNat
  <1>2. start \in I[0]
    BY <1>1 DEF Treap, IsTop
  <1>3. ASSUME NEW n \in 0..(Entries - 1), NEW S \in I[n] PROVE round[S] \in I[n + 1]
    <2>1. n \in 0..Entries /\ n + 1 \in 0..Entries
      BY <1>1
    <2>2. S \in SUBSET T /\ S \in SUBSET Elems
      BY <2>1
    <2>3. \A y \in S, side \in Sides : link[<<y, side>>] = Null \/ link[<<y, side>>] \in T
      BY <2>2 DEF Treap, IsTop, Sub, Half
    <2>4. \A y \in S : /\ link[<<y, "left">>] = Null \/ link[<<y, "left">>] \in T
                       /\ link[<<y, "right">>] = Null \/ link[<<y, "right">>] \in T
      BY <2>3, SideFacts
    <2> DEFINE lefts == {y \in S : CmpBatchWindow(from, latest, key[y]) # "more"}
               rights == {y \in S : CmpBatchWindow(from, latest, key[y]) # "less"}
               met == {link[<<y, "left">>] : y \in lefts} \cup {link[<<y, "right">>] : y \in rights}
    <2>5. round[S] = S \cup (met \ {Null})
      BY <2>2 DEF MeetRound
    <2>6. \A y \in lefts : y \in S
      OBVIOUS
    <2>7. \A y \in rights : y \in S
      OBVIOUS
    <2> HIDE DEF lefts, rights, round
    <2>8. met \ {Null} \subseteq T
      BY <2>4, <2>6, <2>7
    <2> HIDE DEF met
    <2>9. QED
      BY <2>1, <2>2, <2>5, <2>8
  <1> HIDE DEF I
  <1>4. Loop(round, start) \in I[Entries]
    BY <1>2, <1>3, LoopInvariant
  <1>5. Loop(round, start) \subseteq T
    BY <1>1, <1>4 DEF I
  <1>6. QED
    BY <1>5 DEF Visited

-----------------------------------------------------------------------------
(* The invariant.                                                          *)

\* The pointers l have left the traversal of the frames fs alone, and in it the order
\* of ranks.
InTraversal(l, k, P, fs) ==
  /\ Keyed(k, P) /\ Pending(l, k, P, fs)
  /\ \A x \in P, side \in Sides : l[<<x, side>>] = Null \/ Below(l[<<x, side>>], x)

\* The entries with a time are those of the tree, T, and those that are still to
\* be visited, P.  The latter are in the order of k, the times that they had when
\* the traversal began.
ShapeOf(T, P, k, times, l, fs) ==
  /\ T \in SUBSET Elems /\ P \in SUBSET Elems /\ T \cap P = {}
  /\ times \in [Elems -> Times \cup {Unset}]
  /\ \A x \in Elems : times[x] # Unset <=> x \in T \cup P
  /\ RankInv /\ l \in Pointers
  /\ Treap(l, times, T, l[Tree])
  /\ InTraversal(l, k, P, fs)

Shape(T, P, k) == ShapeOf(T, P, k, key, link, frames)

Inv == \E T, P, k : Shape(T, P, k)

\* Pointers are a tree before and after a step that leaves the ranks alone.
LEMMA SameRank ==
  ASSUME rank' = rank, NEW l, NEW k, NEW M, NEW v
  PROVE  Treap(l, k, M, v)' <=> Treap(l, k, M, v)
  <1>1. \A x, y : Below(x, y)' <=> Below(x, y)
    BY DEF Below
  <1>2. \A N, u : IsTop(u, N)' <=> IsTop(u, N)
    BY <1>1 DEF IsTop
  <1>3. \A x, side : Sub(k, M, x, side)' = Sub(k, M, x, side)
    BY <1>1 DEF Sub, Half, OnSide, Before
  <1>4. QED
    BY <1>2, <1>3 DEF Treap

\* The shape of the next state, from its times, pointers and frames.
LEMMA ShapeNext ==
  ASSUME rank' = rank, NEW T, NEW P, NEW k, ShapeOf(T, P, k, key', link', frames')
  PROVE  Shape(T, P, k)'
  <1>0. InTraversal(link', k, P, frames')
    BY DEF ShapeOf
  <1>1. Treap(link, key, T, link[Tree])'
    BY SameRank DEF ShapeOf
  <1>2. Pending(link, k, P, frames)'
    <2>1. ASSUME NEW i \in 1..Len(frames')
          PROVE  Treap(link, k, Rest(k, P, frames, i), frames[i].right)'
      <3>1. Treap(link', k, Rest(k, P, frames', i), frames'[i].right)
        BY <1>0 DEF InTraversal, Pending
      <3>2. Rest(k, P, frames, i)' = Rest(k, P, frames', i)
        BY DEF Rest, Before
      <3>3. QED
        BY <3>1, <3>2, SameRank
    <2>2. QED
      BY <1>0, <2>1 DEF InTraversal, Pending, Before
  <1>3. RankInv'
    BY DEF ShapeOf, RankInv
  <1>4. Pointers' = Pointers
    BY DEF Pointers
  <1>5. InTraversal(link, k, P, frames)'
    BY <1>0, <1>2 DEF InTraversal, Below, Keyed
  <1>6. QED
    BY <1>1, <1>3, <1>4, <1>5 DEF Shape, ShapeOf

\* What the shape says of the entries
LEMMA ShapeFacts ==
  ASSUME NEW T, NEW P, NEW k, Shape(T, P, k)
  PROVE  /\ T \in SUBSET Elems /\ P \in SUBSET Elems /\ T \cap P = {}
         /\ Keyed(key, T) /\ Keyed(key, P)
         /\ \A x \in Elems : key[x] # Unset => key[x] \in Times /\ key[x] \in Int
         /\ \A x \in Elems : key[x] # Unset => (InTree(x) <=> x \in T)
  <1>1. /\ T \in SUBSET Elems /\ P \in SUBSET Elems /\ T \cap P = {}
        /\ \A x \in Elems : key[x] # Unset => key[x] \in Times /\ key[x] \in Int
        /\ \A x \in Elems : key[x] # Unset <=> x \in T \cup P
    BY ZipTreeAssumption DEF Shape, ShapeOf, InTraversal
  <1>2. Keyed(key, T) /\ Keyed(key, P)
    BY <1>1 DEF Keyed
  <1>3. ASSUME NEW x \in Elems, key[x] # Unset PROVE InTree(x) <=> x \in T
    <2>1. Keyed(key, T \cup {x}) /\ RankInv /\ link \in Pointers /\ Treap(link, key, T, link[Tree])
      BY <1>1, <1>2, <1>3 DEF Keyed, Shape, ShapeOf
    <2>2. IF x \in T THEN link[Search(link, key, x)] = x ELSE link[Search(link, key, x)] = Null
      BY <1>1, <2>1, SearchEnds
    <2>3. x # Null
      BY PlaceFacts
    <2>4. QED
      BY <2>2, <2>3 DEF InTree
  <1>4. QED
    BY <1>1, <1>2, <1>3

\* Only pointers of S and of the root change.
OnlyOf(m, l, S) == \A e \in Places : e \notin {Tree} \cup EdgesOf(S) => m[e] = l[e]

\* A traversal is left alone by changes of other entries.
LEMMA TraversalKept ==
  ASSUME NEW l, NEW k, NEW P \in SUBSET Elems, NEW fs, InTraversal(l, k, P, fs),
         NEW m, NEW S, S \cap P = {}, OnlyOf(m, l, S)
  PROVE  InTraversal(m, k, P, fs)
  <1>1. ASSUME NEW x \in P, NEW side \in Sides PROVE m[<<x, side>>] = l[<<x, side>>]
    <2>1. x \in Elems /\ x \notin S
      OBVIOUS
    <2>2. <<x, side>> \in Places /\ <<x, side>> \notin {Tree} \cup EdgesOf(S)
      BY <2>1, PlaceFacts, EdgesOfIs
    <2>3. QED
      BY <2>2 DEF OnlyOf
  <1>2. Pending(m, k, P, fs)
    BY <1>1, PendingSame DEF InTraversal
  <1>3. QED
    BY <1>1, <1>2 DEF InTraversal

\* UA_Timer_add puts an entry into the tree, whatever traversal is going on.
LEMMA AddShape ==
  ASSUME NEW T, NEW P, NEW k, Shape(T, P, k), NEW x \in Elems, NEW t \in Times, Add(x, t)
  PROVE  x \notin T \cup P /\ Shape(T \cup {x}, P, k)'
  <1>1. /\ key[x] = Unset /\ key' = [key EXCEPT ![x] = t] /\ link' = Insert(link, key', x)
        /\ rank' = rank /\ frames' = frames
    BY DEF Add
  <1>2. x \notin T \cup P
    BY <1>1 DEF Shape, ShapeOf, InTraversal
  <1>3. /\ T \in SUBSET Elems /\ P \in SUBSET Elems /\ T \cap P = {} /\ t \in Int
        /\ Keyed(key, T) /\ link \in Pointers /\ RankInv /\ Treap(link, key, T, link[Tree])
        /\ key \in [Elems -> Times \cup {Unset}] /\ InTraversal(link, k, P, frames)
        /\ \A y \in Elems : key[y] # Unset <=> y \in T \cup P
    BY ShapeFacts, ZipTreeAssumption DEF Shape, ShapeOf, InTraversal
  <1>4. key' \in [Elems -> Times \cup {Unset}] /\ \A y \in Elems : key'[y] = IF y = x THEN t ELSE key[y]
    BY <1>1, <1>3
  <1>5. Keyed(key', T \cup {x}) /\ Treap(link, key', T, link[Tree])
    <2>1. \A y \in T : key'[y] = key[y]
      BY <1>2, <1>3, <1>4
    <2>2. Keyed(key', T \cup {x})
      BY <1>3, <1>4, <2>1 DEF Keyed
    <2>3. QED
      BY <1>3, <2>1, <2>2, SameKeys
  <1>6. /\ link' \in Pointers /\ Treap(link', key', T \cup {x}, link'[Tree])
        /\ \A e \in Places : e \notin {Tree} \cup EdgesOf(T \cup {x}) => link'[e] = link[e]
    <2>1. x \in Elems \ T
      BY <1>2
    <2>2. Inserted(Insert(link, key', x), link, key', T, x, Tree)
      BY <1>3, <1>5, <2>1, InsertPuts
    <2>3. QED
      BY <1>1, <2>2 DEF Inserted
  <1>7. (T \cup {x}) \cap P = {} /\ T \cup {x} \in SUBSET Elems
    BY <1>2, <1>3
  <1>8. InTraversal(link', k, P, frames')
    <2>1. OnlyOf(link', link, T \cup {x})
      BY <1>6 DEF OnlyOf
    <2>2. QED
      BY <1>1, <1>3, <1>7, <2>1, TraversalKept
  <1>9. \A y \in Elems : key'[y] # Unset <=> y \in (T \cup {x}) \cup P
    BY <1>3, <1>4, ZipTreeAssumption
  <1>10. QED
    BY <1>1, <1>3, <1>4, <1>6, <1>7, <1>8, <1>9, ShapeNext DEF ShapeOf

\* UA_Timer_remove of an entry of the tree, and the memory is freed
LEMMA FreedSame ==
  ASSUME NEW l \in Pointers, NEW x \in Elems
  PROVE  /\ Freed(l, x) \in Pointers
         /\ \A e \in Places : e \notin EdgesOf({x}) => Freed(l, x)[e] = l[e]
  BY PlaceFacts, EdgesOfIs, SideFacts DEF Freed, Pointers

\* UA_Timer_remove takes an entry out of the tree, and frees it.
LEMMA DeleteShape ==
  ASSUME NEW T, NEW P, NEW k, Shape(T, P, k), NEW x \in Elems, Delete(x)
  PROVE  x \in T /\ Shape(T \ {x}, P, k)'
  <1>1. /\ key[x] # Unset /\ InTree(x) /\ key' = [key EXCEPT ![x] = Unset]
        /\ link' = Freed(Remove(x), x) /\ rank' = rank /\ frames' = frames
    BY DEF Delete
  <1>2. x \in T
    BY <1>1, ShapeFacts
  <1>3. /\ T \in SUBSET Elems /\ P \in SUBSET Elems /\ T \cap P = {}
        /\ Keyed(key, T) /\ link \in Pointers /\ RankInv /\ Treap(link, key, T, link[Tree])
        /\ key \in [Elems -> Times \cup {Unset}] /\ InTraversal(link, k, P, frames)
        /\ \A y \in Elems : key[y] # Unset <=> y \in T \cup P
    BY ShapeFacts DEF Shape, ShapeOf, InTraversal
  <1>4. key' \in [Elems -> Times \cup {Unset}] /\ \A y \in Elems : key'[y] = IF y = x THEN Unset ELSE key[y]
    BY <1>1, <1>3
  <1> DEFINE m == Remove(x)
  <1>5. /\ m \in Pointers /\ Treap(m, key, T \ {x}, m[Tree])
        /\ \A e \in Places : e \notin {Tree} \cup EdgesOf(T) => m[e] = link[e]
    <2>1. Removed(m, link, key, T, x)
      BY <1>2, <1>3, RemoveTakes DEF Remove
    <2>2. QED
      BY <2>1 DEF Removed
  <1> HIDE DEF m
  <1>6. link' \in Pointers /\ \A e \in Places : e \notin EdgesOf({x}) => link'[e] = m[e]
    BY <1>1, <1>5, FreedSame DEF m
  <1>7. Treap(link', key', T \ {x}, link'[Tree])
    <2>1. \A y \in T \ {x}, side \in Sides : link'[<<y, side>>] = m[<<y, side>>]
      <3> SUFFICES ASSUME NEW y \in T \ {x}, NEW side \in Sides PROVE link'[<<y, side>>] = m[<<y, side>>]
        OBVIOUS
      <3>1. <<y, side>> \in Places /\ <<y, side>> \notin EdgesOf({x})
        BY <1>3, PlaceFacts, EdgesOfIs
      <3>2. QED
        BY <1>6, <3>1
    <2>2. link'[Tree] = m[Tree]
      BY <1>6, PlaceFacts, EdgesOfIs
    <2>3. Treap(link', key, T \ {x}, m[Tree])
      BY <1>5, <2>1, SameTreap
    <2>4. \A y \in T \ {x} : key'[y] = key[y]
      BY <1>3, <1>4
    <2>5. QED
      BY <2>2, <2>3, <2>4, SameKeys
  <1>8. \A e \in Places : e \notin {Tree} \cup EdgesOf(T) => link'[e] = link[e]
    BY <1>2, <1>5, <1>6, EdgesOfIs
  <1>9. InTraversal(link', k, P, frames')
    <2>1. OnlyOf(link', link, T)
      BY <1>8 DEF OnlyOf
    <2>2. QED
      BY <1>1, <1>3, <2>1, TraversalKept
  <1>10. \A y \in Elems : key'[y] # Unset <=> y \in (T \ {x}) \cup P
    BY <1>2, <1>3, <1>4
  <1>11. T \ {x} \in SUBSET Elems /\ (T \ {x}) \cap P = {}
    BY <1>3
  <1>12. QED
    BY <1>1, <1>2, <1>3, <1>4, <1>6, <1>7, <1>9, <1>10, <1>11, ShapeNext DEF ShapeOf

\* UA_Timer_modify moves an entry of the tree to its new time; the time of one that
\* is still to be visited changes in place.
LEMMA ChangeShape ==
  ASSUME NEW T, NEW P, NEW k, Shape(T, P, k), NEW x \in Elems, NEW t \in Times, Change(x, t)
  PROVE  Shape(T, P, k)'
  <1>1. /\ key[x] # Unset /\ key' = [key EXCEPT ![x] = t]
        /\ link' = IF InTree(x) THEN Insert(Remove(x), key', x) ELSE link
        /\ rank' = rank /\ frames' = frames
    BY DEF Change
  <1>2. /\ T \in SUBSET Elems /\ P \in SUBSET Elems /\ T \cap P = {} /\ t \in Int /\ t # Unset
        /\ Keyed(key, T) /\ link \in Pointers /\ RankInv /\ Treap(link, key, T, link[Tree])
        /\ key \in [Elems -> Times \cup {Unset}] /\ InTraversal(link, k, P, frames)
        /\ \A y \in Elems : key[y] # Unset <=> y \in T \cup P
        /\ InTree(x) <=> x \in T
    BY <1>1, ShapeFacts, ZipTreeAssumption DEF Shape, ShapeOf, InTraversal
  <1>3. key' \in [Elems -> Times \cup {Unset}] /\ \A y \in Elems : key'[y] = IF y = x THEN t ELSE key[y]
    BY <1>1, <1>2
  <1>4. \A y \in Elems : key'[y] # Unset <=> y \in T \cup P
    BY <1>1, <1>2, <1>3
  <1>5. CASE x \in T
    <2> DEFINE m == Remove(x)
               U == T \ {x}
    <2>1. /\ m \in Pointers /\ Treap(m, key, U, m[Tree])
          /\ \A e \in Places : e \notin {Tree} \cup EdgesOf(T) => m[e] = link[e]
      <3>1. Removed(m, link, key, T, x)
        BY <1>2, <1>5, RemoveTakes DEF Remove
      <3>2. QED
        BY <3>1 DEF Removed
    <2>2. U \in SUBSET Elems /\ x \in Elems \ U /\ U \cup {x} = T
      BY <1>2, <1>5
    <2>3. link' = Insert(m, key', x)
      BY <1>1, <1>2, <1>5
    <2> HIDE DEF m
    <2>4. Keyed(key', U \cup {x}) /\ Treap(m, key', U, m[Tree])
      <3>1. \A y \in U : key'[y] = key[y]
        BY <1>2, <1>3
      <3>2. Keyed(key', T)
        BY <1>2, <1>3 DEF Keyed
      <3>3. QED
        BY <2>1, <2>2, <3>1, <3>2, SameKeys
    <2> HIDE DEF U
    <2>5. /\ link' \in Pointers /\ Treap(link', key', U \cup {x}, link'[Tree])
          /\ \A e \in Places : e \notin {Tree} \cup EdgesOf(U \cup {x}) => link'[e] = m[e]
      <3>1. Inserted(Insert(m, key', x), m, key', U, x, Tree)
        BY <1>2, <2>1, <2>2, <2>4, InsertPuts
      <3>2. QED
        BY <2>3, <3>1 DEF Inserted
    <2>6. /\ Treap(link', key', T, link'[Tree])
          /\ \A e \in Places : e \notin {Tree} \cup EdgesOf(T) => link'[e] = link[e]
      BY <2>1, <2>2, <2>5
    <2>7. InTraversal(link', k, P, frames')
      <3>1. OnlyOf(link', link, T)
        BY <2>6 DEF OnlyOf
      <3>2. QED
        BY <1>1, <1>2, <3>1, TraversalKept
    <2>8. QED
      BY <1>1, <1>2, <1>3, <1>4, <2>5, <2>6, <2>7, ShapeNext DEF ShapeOf
  <1>6. CASE x \notin T
    <2>1. link' = link
      BY <1>1, <1>2, <1>6
    <2>2. \A y \in T : key'[y] = key[y]
      BY <1>2, <1>3, <1>6
    <2>3. Treap(link', key', T, link'[Tree])
      BY <1>2, <2>1, <2>2, SameKeys
    <2>4. QED
      BY <1>1, <1>2, <1>3, <1>4, <2>1, <2>3, ShapeNext DEF ShapeOf
  <1>7. QED
    BY <1>5, <1>6

\* The parent of an entry has the higher rank.
LEMMA TreapFalls ==
  ASSUME NEW l, NEW k, NEW M, NEW v, Treap(l, k, M, v), NEW x \in M, NEW side \in Sides
  PROVE  \/ l[<<x, side>>] = Null
         \/ l[<<x, side>>] \in M /\ Below(l[<<x, side>>], x)
  BY DEF Treap, IsTop, Sub, Half

\* UA_Timer_process splits off the entries that are due, and begins to visit them.
LEMMA ProcessShape ==
  ASSUME NEW T, NEW P, NEW k, Shape(T, P, k), NEW now \in Times, Process(now),
         NEW j, j = key, NEW E, E = {x \in T : key[x] <= now}, NEW L, L = T \ E
  PROVE  P = {} /\ Shape(L, E, j)'
  <1> DEFINE m == Unzip(link, now)
  <1>1. /\ frames = <<>> /\ frames' = Descend(m, m[ProcessTree], <<>>)
        /\ link' = [m EXCEPT ![ProcessTree] = Null] /\ rank' = rank /\ key' = key
    BY DEF Process
  <1>2. /\ T \in SUBSET Elems /\ now \in Int
        /\ Keyed(key, T) /\ link \in Pointers /\ RankInv /\ Treap(link, key, T, link[Tree])
        /\ key \in [Elems -> Times \cup {Unset}] /\ Pending(link, k, P, frames)
        /\ \A y \in Elems : key[y] # Unset <=> y \in T \cup P
    BY ShapeFacts, ZipTreeAssumption DEF Shape, ShapeOf, InTraversal
  <1>3. P = {}
    BY <1>1, <1>2 DEF Pending
  <1>4. Splits(m, key, E, L, ProcessTree, Tree)
    BY <1>2, UnzipSplits
  <1> HIDE DEF m
  <1>5. m \in Pointers /\ Treap(m, key, E, m[ProcessTree]) /\ Treap(m, key, L, m[Tree])
    BY <1>4 DEF Splits
  <1>6. /\ E \in SUBSET Elems /\ L \in SUBSET Elems /\ L \cap E = {} /\ L \cup E = T
        /\ Keyed(key, E)
    BY <1>2 DEF Keyed
  <1>7. /\ link' \in Pointers /\ link'[Tree] = m[Tree]
        /\ \A x \in Elems, side \in Sides : link'[<<x, side>>] = m[<<x, side>>]
    <2>1. link' \in Pointers /\ \A e \in Places : e # ProcessTree => link'[e] = m[e]
      BY <1>1, <1>5 DEF Pointers
    <2>2. QED
      BY <2>1, PlaceFacts
  <1>8. Treap(link', key, L, link'[Tree]) /\ Treap(link', key, E, m[ProcessTree])
    BY <1>5, <1>6, <1>7, SameTreap
  <1>9. Pending(link', key, E, frames')
    <2>1. Pending(m, key, {}, <<>>)
      BY NothingPending
    <2>2. E \cup {} = E
      OBVIOUS
    <2>3. Pending(m, key, E \cup {}, Descend(m, m[ProcessTree], <<>>))
      BY <1>2, <1>5, <1>6, <2>1, <2>2, DescendAdds
    <2>4. Pending(m, key, E, frames')
      BY <1>1, <2>2, <2>3
    <2>5. QED
      BY <1>6, <1>7, <2>4, PendingSame
  <1>10. \A y \in E, side \in Sides : link'[<<y, side>>] = Null \/ Below(link'[<<y, side>>], y)
    BY <1>8, TreapFalls
  <1>11. \A y \in Elems : key'[y] # Unset <=> y \in L \cup E
    BY <1>1, <1>2, <1>3, <1>6
  <1>12. Shape(L, E, j)'
    <2>1. key' \in [Elems -> Times \cup {Unset}] /\ Treap(link', key', L, link'[Tree])
      BY <1>1, <1>2, <1>8
    <2>2. InTraversal(link', j, E, frames')
      BY <1>6, <1>9, <1>10 DEF InTraversal
    <2>3. ShapeOf(L, E, j, key', link', frames')
      BY <1>2, <1>6, <1>7, <1>11, <2>1, <2>2 DEF ShapeOf
    <2>4. QED
      BY <1>1, <2>3, ShapeNext
  <1>13. QED
    BY <1>3, <1>12

\* An entry is visited: it is the first one of those that are still to be visited.
LEMMA VisitShape ==
  ASSUME NEW T, NEW P, NEW k, Shape(T, P, k), NEW t \in Times \cup {Unset}, Visit(t),
         NEW x, x = Head(frames).elem, NEW U, U = IF t = Unset THEN T ELSE T \cup {x},
         NEW N, N = P \ {x}
  PROVE  /\ x \in P /\ \A y \in P : y = x \/ Before(k, x, y)
         /\ Shape(U, N, k)'
  <1> DEFINE right == Head(frames).right
             Q == After(k, P, frames)
             R == P \ (Q \cup {x})
  <1>1. /\ frames # <<>> /\ key' = [key EXCEPT ![x] = t]
        /\ link' = IF t = Unset THEN Freed(link, x) ELSE Insert(link, key', x)
        /\ frames' = Descend(link', right, Tail(frames)) /\ rank' = rank
    BY DEF Visit, RightOf
  <1>2. /\ T \in SUBSET Elems /\ P \in SUBSET Elems /\ T \cap P = {}
        /\ Keyed(key, T) /\ link \in Pointers /\ RankInv /\ Treap(link, key, T, link[Tree])
        /\ key \in [Elems -> Times \cup {Unset}] /\ Keyed(k, P) /\ Pending(link, k, P, frames)
        /\ \A y \in Elems : key[y] # Unset <=> y \in T \cup P
        /\ \A y \in P, side \in Sides : link[<<y, side>>] = Null \/ Below(link[<<y, side>>], y)
    BY ShapeFacts DEF Shape, ShapeOf, InTraversal
  <1>3. GoesOn(link, k, P, Q, frames)
    BY <1>1, <1>2, PendingAfter
  <1>4. /\ x \in P /\ Q \subseteq P /\ x \notin Q /\ Pending(link, k, Q, Tail(frames))
        /\ Treap(link, k, R, right)
        /\ \A y \in P : y = x \/ Before(k, x, y)
        /\ \A y \in R, z \in Q : Before(k, y, z)
    BY <1>3 DEF GoesOn
  <1> HIDE DEF right, Q
  <1>5. x \in Elems /\ x \notin T
    BY <1>2, <1>4
  <1>6. key' \in [Elems -> Times \cup {Unset}] /\ \A y \in Elems : key'[y] = IF y = x THEN t ELSE key[y]
    BY <1>1, <1>2
  <1>7. Treap(link, key', T, link[Tree])
    <2>1. \A y \in T : key'[y] = key[y]
      BY <1>2, <1>5, <1>6
    <2>2. QED
      BY <1>2, <2>1, SameKeys
  <1>8. /\ link' \in Pointers /\ Treap(link', key', U, link'[Tree])
        /\ \A e \in Places : e \notin {Tree} \cup EdgesOf(T \cup {x}) => link'[e] = link[e]
    <2>1. CASE t = Unset
      <3>1. link' \in Pointers /\ \A e \in Places : e \notin EdgesOf({x}) => link'[e] = link[e]
        BY <1>1, <1>2, <1>5, <2>1, FreedSame
      <3>2. \A y \in T, side \in Sides : link'[<<y, side>>] = link[<<y, side>>]
        <4> SUFFICES ASSUME NEW y \in T, NEW side \in Sides PROVE link'[<<y, side>>] = link[<<y, side>>]
          OBVIOUS
        <4>1. <<y, side>> \in Places /\ <<y, side>> \notin EdgesOf({x})
          BY <1>2, <1>5, PlaceFacts, EdgesOfIs
        <4>2. QED
          BY <3>1, <4>1
      <3>3. link'[Tree] = link[Tree]
        <4>1. Tree \in Places /\ Tree \notin EdgesOf({x})
          BY <1>5, PlaceFacts, EdgesOfIs
        <4>2. QED
          BY <3>1, <4>1
      <3>4. Treap(link', key', T, link'[Tree])
        BY <1>7, <3>2, <3>3, SameTreap
      <3>5. QED
        BY <2>1, <3>1, <3>4, EdgesOfIs
    <2>2. CASE t # Unset
      <3>1. Keyed(key', T \cup {x})
        BY <1>2, <1>5, <1>6, <2>2, ZipTreeAssumption DEF Keyed
      <3>2. link' = Insert(link, key', x) /\ U = T \cup {x}
        BY <1>1, <2>2
      <3>3. /\ link' \in Pointers /\ Treap(link', key', T \cup {x}, link'[Tree])
            /\ \A e \in Places : e \notin {Tree} \cup EdgesOf(T \cup {x}) => link'[e] = link[e]
        <4>1. x \in Elems \ T
          BY <1>5
        <4>2. Inserted(Insert(link, key', x), link, key', T, x, Tree)
          BY <1>2, <1>7, <3>1, <4>1, InsertPuts
        <4>3. QED
          BY <3>2, <4>2 DEF Inserted
      <3>4. QED
        BY <3>2, <3>3
    <2>3. QED
      BY <2>1, <2>2
  <1>9. /\ R \cup Q = N /\ R \in SUBSET Elems /\ Q \in SUBSET Elems /\ N \in SUBSET Elems
        /\ Keyed(k, R \cup Q) /\ Keyed(k, N) /\ R \subseteq N /\ Q \subseteq N
    BY <1>2, <1>4 DEF Keyed
  <1>10. \A y \in N, side \in Sides : link'[<<y, side>>] = link[<<y, side>>]
    <2> SUFFICES ASSUME NEW y \in N, NEW side \in Sides PROVE link'[<<y, side>>] = link[<<y, side>>]
      OBVIOUS
    <2>1. <<y, side>> \in Places /\ <<y, side>> \notin {Tree} \cup EdgesOf(T \cup {x})
      BY <1>2, PlaceFacts, EdgesOfIs
    <2>2. QED
      BY <1>8, <2>1
  <1>11. /\ U \in SUBSET Elems /\ U \cap N = {}
         /\ \A y \in Elems : key'[y] # Unset <=> y \in U \cup N
    BY <1>2, <1>4, <1>5, <1>6
  <1> HIDE DEF R
  <1>12. Pending(link', k, N, frames')
    <2>1. Treap(link', k, R, right) /\ Pending(link', k, Q, Tail(frames))
      BY <1>4, <1>9, <1>10, SameTreap, PendingSame
    <2>2. Pending(link', k, R \cup Q, frames')
      BY <1>1, <1>2, <1>4, <1>8, <1>9, <2>1, DescendAdds
    <2>3. QED
      BY <1>9, <2>2
  <1>13. \A y \in N, side \in Sides : link'[<<y, side>>] = Null \/ Below(link'[<<y, side>>], y)
    BY <1>2, <1>10
  <1>14. Shape(U, N, k)'
    <2>1. rank' = rank /\ RankInv /\ N \in SUBSET Elems /\ Keyed(k, N)
      BY <1>1, <1>2, <1>9
    <2>2. key' \in [Elems -> Times \cup {Unset}]
      BY <1>6
    <2>3. link' \in Pointers /\ Treap(link', key', U, link'[Tree])
      BY <1>8
    <2>4. InTraversal(link', k, N, frames')
      BY <1>9, <1>12, <1>13 DEF InTraversal
    <2>5. ShapeOf(U, N, k, key', link', frames')
      BY <1>11, <2>1, <2>2, <2>3, <2>4 DEF ShapeOf
    <2>6. QED
      BY <2>1, <2>5, ShapeNext
  <1>15. QED
    BY <1>4, <1>14

-----------------------------------------------------------------------------
(* The invariant holds.                                                    *)

\* UA_Timer_init leaves an empty tree.
LEMMA InitShape ==
  ASSUME Init, NEW k PROVE Shape({}, {}, k)
  <1>1. RankInv
    BY DEF Init, RankInv
  <1>2. link \in Pointers /\ link[Tree] = Null
    BY PlaceFacts DEF Init, Pointers
  <1>3. Treap(link, key, {}, link[Tree])
    BY <1>2 DEF Treap, IsTop
  <1>4. InTraversal(link, k, {}, frames)
    <2>1. Pending(link, k, {}, <<>>)
      BY NothingPending
    <2>2. QED
      BY <2>1 DEF InTraversal, Keyed, Init
  <1>5. key \in [Elems -> Times \cup {Unset}] /\ \A x \in Elems : key[x] = Unset
    BY DEF Init
  <1>6. QED
    BY <1>1, <1>2, <1>3, <1>4, <1>5 DEF Shape, ShapeOf

\* A step that changes nothing keeps the shape.
LEMMA StillShape ==
  ASSUME NEW T, NEW P, NEW k, Shape(T, P, k), UNCHANGED vars
  PROVE  Shape(T, P, k)'
  BY ShapeNext DEF Shape, vars

\* Every step keeps the shape.
LEMMA NextShape ==
  ASSUME Inv, [Next]_vars
  PROVE  Inv'
  <1>1. PICK T, P, k : Shape(T, P, k)
    BY DEF Inv
  <1>2. ASSUME NEW x \in Elems, NEW t \in Times, Add(x, t) PROVE Inv'
    BY <1>1, <1>2, AddShape DEF Inv
  <1>3. ASSUME NEW x \in Elems, NEW t \in Times, Change(x, t) PROVE Inv'
    BY <1>1, <1>3, ChangeShape DEF Inv
  <1>4. ASSUME NEW x \in Elems, Delete(x) PROVE Inv'
    BY <1>1, <1>4, DeleteShape DEF Inv
  <1>5. ASSUME NEW now \in Times, Process(now) PROVE Inv'
    <2>1. PICK j : j = key
      OBVIOUS
    <2>2. PICK E : E = {x \in T : key[x] <= now}
      OBVIOUS
    <2>3. PICK L : L = T \ E
      OBVIOUS
    <2>4. Shape(L, E, j)'
      BY <1>1, <1>5, <2>1, <2>2, <2>3, ProcessShape
    <2>5. QED
      BY <2>4 DEF Inv
  <1>6. ASSUME NEW t \in Times \cup {Unset}, Visit(t) PROVE Inv'
    <2>1. PICK x : x = Head(frames).elem
      OBVIOUS
    <2>2. PICK U : U = IF t = Unset THEN T ELSE T \cup {x}
      OBVIOUS
    <2>3. PICK N : N = P \ {x}
      OBVIOUS
    <2>4. Shape(U, N, k)'
      BY <1>1, <1>6, <2>1, <2>2, <2>3, VisitShape
    <2>5. QED
      BY <2>4 DEF Inv
  <1>7. CASE UNCHANGED vars
    BY <1>1, <1>7, StillShape DEF Inv
  <1>8. QED
    BY <1>2, <1>3, <1>4, <1>5, <1>6, <1>7 DEF Next

\* Whatever is added, modified, removed and processed, also by the callbacks of a
\* traversal, the pointers are one zip tree of the entries with a time that are not
\* still to be visited, and the frames of __ZIP_ITER are those of a traversal of the
\* others, in the order of the times that they had when it began.
THEOREM TreesKeepShape == Spec => []Inv
  <1>1. Init => Inv
    BY InitShape DEF Inv
  <1>2. Inv /\ [Next]_vars => Inv'
    BY NextShape
  <1>3. QED
    BY <1>1, <1>2, PTL DEF Spec

\* In a state of this shape parents have higher ranks, and searches end well.
LEMMA ShapeIsSound ==
  ASSUME NEW T, NEW P, NEW k, Shape(T, P, k)
  PROVE  SoundTrees
  <1>1. /\ T \in SUBSET Elems /\ P \in SUBSET Elems
        /\ Keyed(key, T)
        /\ \A x \in Elems : key[x] # Unset => (InTree(x) <=> x \in T)
    BY ShapeFacts
  <1>2. /\ RankInv /\ link \in Pointers /\ Treap(link, key, T, link[Tree])
        /\ \A x \in Elems : key[x] # Unset <=> x \in T \cup P
        /\ \A x \in P, side \in Sides : link[<<x, side>>] = Null \/ Below(link[<<x, side>>], x)
    BY DEF Shape, ShapeOf, InTraversal
  <1>3. RanksFall
    <2> SUFFICES ASSUME NEW x \in Elems, NEW y \in Elems, key[x] # Unset, Parent(x, y)
                 PROVE  rank[y] < rank[x]
      BY DEF RanksFall
    <2>1. PICK side \in Sides : y = link[<<x, side>>]
      BY SideFacts DEF Parent
    <2>2. y # Null
      BY PlaceFacts
    <2>3. CASE x \in T
      BY <1>2, <2>1, <2>2, <2>3, TreapFalls DEF Below
    <2>4. CASE x \in P
      BY <1>2, <2>1, <2>2, <2>4 DEF Below
    <2>5. QED
      BY <1>2, <2>3, <2>4
  <1>4. TimesAreFound
    <2> SUFFICES ASSUME NEW u \in Elems, key[u] # Unset, InTree(u)
                 PROVE  LET x == Find(key[u])
                        IN  x # Null /\ InTree(x) /\ key[x] = key[u]
      BY DEF TimesAreFound
    <2>1. u \in T
      BY <1>1
    <2>2. Find(key[u]) \in T /\ key[Find(key[u])] = key[u]
      BY <1>1, <1>2, <2>1, TimeFound
    <2>3. QED
      BY <1>1, <1>2, <2>2, PlaceFacts
  <1>5. WindowIsKept
    <2> SUFFICES ASSUME NEW from \in Times, NEW latest \in Times, NEW x \in Visited(from, latest)
                 PROVE  key[x] \in from..latest
      BY DEF WindowIsKept
    <2>1. x \in T
      BY <1>1, <1>2, VisitedInTree
    <2>2. key[x] \in Int /\ from \in Int /\ latest \in Int
      BY <1>1, <2>1, ZipTreeAssumption DEF Keyed
    <2>3. CmpBatchWindow(from, latest, key[x]) = "equal"
      BY DEF Visited
    <2>4. QED
      BY <2>2, <2>3 DEF CmpBatchWindow
  <1>6. QED
    BY <1>3, <1>4, <1>5 DEF SoundTrees

\* The order of ranks that __ZIP_VALIDATE asserts holds in the tree and in what is left
\* of processTree, ZIP_FIND finds an entry with any time that there is in the tree, and
\* ZIP_ITER_KEY with cmpBatchWindow visits no entry outside of its window.
THEOREM TreesAreSound == Spec => []SoundTrees
  <1>1. Inv => SoundTrees
    BY ShapeIsSound DEF Inv
  <1>2. QED
    BY <1>1, TreesKeepShape, PTL

-----------------------------------------------------------------------------
(* The trees implement the queue.                                          *)

InTreeNow == {x \in Elems : key[x] # Unset /\ InTree(x)}
Due == ToVisit(link, frames)

\* What a state of this shape is for the queue
MapsTo(T, P, k) ==
  /\ T \in SUBSET Elems /\ P \in SUBSET Elems /\ T \cap P = {} /\ Keyed(key, T) /\ Keyed(k, P)
  /\ InTreeNow = T
  /\ Enumerates(Due, k, P)
  /\ First = Queue!Earliest(T, key)

\* UA_Timer_next returns the least time of the tree.
LEMMA FirstIsEarliest ==
  ASSUME RankInv, link \in Pointers, NEW T \in SUBSET Elems, Keyed(key, T),
         Treap(link, key, T, link[Tree])
  PROVE  First = Queue!Earliest(T, key)
  <1>1. CASE T = {}
    <2>1. link[Tree] = Null
      BY <1>1, EmptyTreap
    <2>2. QED
      BY <1>1, <2>1 DEF First, Queue!Earliest
  <1>2. CASE T # {}
    <2>1. link[Tree] # Null
      BY <1>2, EmptyTreap
    <2>2. Leftmost \in T /\ \A y \in T : y = Leftmost \/ Before(key, Leftmost, y)
      BY <1>2, LeastFound DEF Leftmost
    <2> DEFINE S == {key[x] : x \in T}
               least == key[Leftmost]
    <2>3. least \in S /\ \A t \in S : t \in Int /\ least <= t
      BY <2>2 DEF Keyed, Before
    <2> HIDE DEF S, least
    <2>4. \A t \in S : (\A u \in S : t <= u) => t = least
      BY <2>3
    <2>5. Queue!Min(S) = least
      BY <2>3, <2>4 DEF Queue!Min
    <2>6. QED
      BY <1>2, <2>1, <2>5 DEF S, least, First, Queue!Earliest
  <1>3. QED
    BY <1>1, <1>2

EveryShapeMaps == \A T, P, k : Shape(T, P, k) => MapsTo(T, P, k)

\* A state of this shape is one of the queue.
LEMMA ShapeMaps == EveryShapeMaps
  <1> SUFFICES ASSUME NEW T, NEW P, NEW k, Shape(T, P, k) PROVE MapsTo(T, P, k)
    BY DEF EveryShapeMaps
  <1>1. /\ T \in SUBSET Elems /\ P \in SUBSET Elems /\ T \cap P = {} /\ Keyed(key, T)
        /\ \A x \in Elems : key[x] # Unset => (InTree(x) <=> x \in T)
    BY ShapeFacts
  <1>2. /\ RankInv /\ link \in Pointers /\ Treap(link, key, T, link[Tree])
        /\ \A x \in Elems : key[x] # Unset <=> x \in T \cup P
        /\ Keyed(k, P) /\ Pending(link, k, P, frames)
    BY DEF Shape, ShapeOf, InTraversal
  <1>3. InTreeNow = T
    BY <1>1, <1>2 DEF InTreeNow
  <1>4. Enumerates(Due, k, P)
    BY <1>1, <1>2, ToVisitOrder DEF Due
  <1>5. First = Queue!Earliest(T, key)
    BY <1>1, <1>2, FirstIsEarliest
  <1>6. QED
    BY <1>1, <1>2, <1>3, <1>4, <1>5 DEF MapsTo

\* There is one way to put a set in order, and InOrder is it.
LEMMA EnumerateCounts ==
  ASSUME NEW k, NEW P \in SUBSET Elems, Keyed(k, P), NEW s, Enumerates(s, k, P)
  PROVE  Len(s) \in Nat /\ Len(s) = Cardinality(P) /\ s \in [1..Cardinality(P) -> P]
  <1>1. /\ s \in Seq(P) /\ Len(s) \in Nat /\ s \in [1..Len(s) -> P]
        /\ \A y \in P : \E i \in 1..Len(s) : s[i] = y
        /\ \A i, j \in 1..Len(s) : i < j => Before(k, s[i], s[j])
    BY DEF Enumerates
  <1>2. \A x, y \in P : Before(k, x, y) => x # y
    BY BeforeIsOrder
  <1>3. \A i, j \in 1..Len(s) : s[i] = s[j] => i = j
    <2> SUFFICES ASSUME NEW i \in 1..Len(s), NEW j \in 1..Len(s), s[i] = s[j], i # j PROVE FALSE
      OBVIOUS
    <2>1. i < j \/ j < i
      BY <1>1
    <2>2. s[i] \in P /\ s[j] \in P
      BY <1>1
    <2>3. QED
      BY <1>1, <1>2, <2>1, <2>2
  <1>4. ExistsBijection(1..Len(s), P)
    BY <1>1, <1>3 DEF ExistsBijection, Bijection, Injection, Surjection, IsInjective
  <1>5. Cardinality(P) = Len(s)
    BY <1>1, <1>4, FS_CountingElements
  <1>6. QED
    BY <1>1, <1>5

\* The order that the queue takes entries out in is the order of the traversal.
LEMMA InOrderIs ==
  ASSUME NEW P \in SUBSET Elems, Keyed(key, P), NEW s, Enumerates(s, key, P)
  PROVE  s = Queue!InOrder(P)
  <1> DEFINE n == Cardinality(P)
             Ordered(t) == /\ Queue!Range(t) = P
                           /\ \A i, j \in 1..n : i < j => Queue!Before(t[i], t[j])
  <1>1. n \in Nat /\ Len(s) = n /\ s \in [1..n -> P]
    BY EnumerateCounts
  <1> HIDE DEF n
  <1>2. Ordered(s)
    <2>1. Queue!Range(s) = P
      BY <1>1 DEF Enumerates, Queue!Range
    <2>2. QED
      BY <1>1, <2>1 DEF Enumerates, Before, Queue!Before
  <1>3. ASSUME NEW t \in [1..n -> P], Ordered(t) PROVE t = s
    <2>1. t \in Seq(P) /\ Len(t) = n
      BY <1>1
    <2>2. \A y \in P : \E i \in 1..Len(t) : t[i] = y
      BY <1>3, <2>1 DEF Queue!Range
    <2>3. \A i, j \in 1..Len(t) : i < j => Before(key, t[i], t[j])
      BY <1>3, <2>1 DEF Before, Queue!Before
    <2>4. Enumerates(t, key, P)
      BY <2>1, <2>2, <2>3 DEF Enumerates
    <2>5. QED
      BY <2>4, OneOrder
  <1> HIDE DEF Ordered
  <1>4. (CHOOSE t \in [1..n -> P] : Ordered(t)) = s
    BY <1>1, <1>2, <1>3
  <1>5. Queue!InOrder(P) = (CHOOSE t \in [1..n -> P] : Ordered(t))
    <2>1. Queue!Cardinality(P) = Cardinality(P)
      BY DEF Cardinality, IsFiniteSet, Queue!Cardinality, Queue!IsFiniteSet
    <2>2. QED
      BY <2>1 DEF Queue!InOrder, n, Ordered
  <1>6. QED
    BY <1>4, <1>5

\* What the next state is for the queue.
LEMMA MapsNext ==
  ASSUME NEW T, NEW P, NEW k, MapsTo(T, P, k)'
  PROVE  /\ InTreeNow' = T /\ First' = Queue!Earliest(InTreeNow', key')
         /\ P \in SUBSET Elems /\ Keyed(k, P) /\ Enumerates(Due', k, P)
  <1>1. InTreeNow' = T /\ First' = Queue!Earliest(InTreeNow', key')
    BY DEF MapsTo, Queue!Earliest, Queue!Min
  <1>2. P \in SUBSET Elems /\ Keyed(k, P)
    BY DEF MapsTo, Keyed
  <1>3. Enumerates(Due', k, P)
    BY DEF MapsTo, Enumerates, Before
  <1>4. QED
    BY <1>1, <1>2, <1>3

\* The entries to visit stay in their order if they are the same ones.
LEMMA SameDue ==
  ASSUME NEW T, NEW U, NEW P, NEW k, MapsTo(T, P, k), MapsTo(U, P, k)'
  PROVE  Due' = Due
  BY MapsNext, OneOrder DEF MapsTo

\* Nothing of the queue changes.
LEMMA StillMaps ==
  ASSUME NEW T, NEW P, NEW k, MapsTo(T, P, k), MapsTo(T, P, k)', key' = key
  PROVE  UNCHANGED <<InTreeNow, key, Due, First>>
  <1>1. InTreeNow' = InTreeNow
    BY MapsNext DEF MapsTo
  <1>2. Due' = Due
    BY SameDue
  <1>3. First' = First
    BY <1>1, MapsNext DEF MapsTo
  <1>4. QED
    BY <1>1, <1>2, <1>3

\* Each step of the trees is one of the queue, if it keeps the shape.
LEMMA AddMaps ==
  ASSUME NEW T, NEW P, NEW k, MapsTo(T, P, k), NEW x \in Elems, NEW t \in Times, Add(x, t),
         NEW U, U = T \cup {x}, MapsTo(U, P, k)'
  PROVE  Queue!Add(x, t)
  <1>1. key[x] = Unset /\ key' = [key EXCEPT ![x] = t]
    BY DEF Add
  <1>2. InTreeNow' = InTreeNow \cup {x}
    BY MapsNext DEF MapsTo
  <1>3. Due' = Due
    BY SameDue
  <1>4. QED
    BY <1>1, <1>2, <1>3 DEF Queue!Add, InTreeNow, Due

\* UA_Timer_remove takes an entry out of the queue.
LEMMA DeleteMaps ==
  ASSUME NEW T, NEW P, NEW k, MapsTo(T, P, k), NEW x \in T, Delete(x),
         NEW U, U = T \ {x}, MapsTo(U, P, k)'
  PROVE  Queue!Delete(x)
  <1>1. key' = [key EXCEPT ![x] = Unset]
    BY DEF Delete
  <1>2. x \in InTreeNow /\ InTreeNow' = InTreeNow \ {x}
    BY MapsNext DEF MapsTo
  <1>3. Due' = Due
    BY SameDue
  <1>4. QED
    BY <1>1, <1>2, <1>3 DEF Queue!Delete, InTreeNow, Due

\* UA_Timer_modify changes a time, and not what is to be visited.
LEMMA ChangeMaps ==
  ASSUME NEW T, NEW P, NEW k, MapsTo(T, P, k), NEW x \in Elems, NEW t \in Times, Change(x, t),
         MapsTo(T, P, k)'
  PROVE  Queue!Change(x, t)
  <1>1. key[x] # Unset /\ key' = [key EXCEPT ![x] = t]
    BY DEF Change
  <1>2. InTreeNow' = InTreeNow
    BY MapsNext DEF MapsTo
  <1>3. Due' = Due
    BY SameDue
  <1>4. QED
    BY <1>1, <1>2, <1>3 DEF Queue!Change, InTreeNow, Due

\* The entries that are due are taken out in the order of their times.
LEMMA ProcessMaps ==
  ASSUME NEW T, NEW k, MapsTo(T, {}, k), NEW now \in Times, Process(now),
         NEW j, j = key, NEW E, E = {x \in T : key[x] <= now}, NEW L, L = T \ E, MapsTo(L, E, j)'
  PROVE  Queue!Take(now)
  <1>1. key' = key
    BY DEF Process
  <1>2. Due = <<>>
    BY DEF MapsTo, Enumerates
  <1>3. InTreeNow = T /\ InTreeNow' = L /\ E \in SUBSET Elems /\ Keyed(key, E)
    BY MapsNext DEF MapsTo
  <1>4. Due' = Queue!InOrder(E)
    <2>1. Enumerates(Due', key, E)
      BY MapsNext
    <2>2. QED
      BY <1>3, <2>1, InOrderIs
  <1>5. E = {x \in InTreeNow : key[x] <= now} /\ InTreeNow' = InTreeNow \ E
    BY <1>3
  <1>6. QED
    BY <1>1, <1>2, <1>4, <1>5 DEF Queue!Take, InTreeNow, Due

\* The next entry is visited, and put back or freed.
LEMMA VisitMaps ==
  ASSUME NEW T, NEW P, NEW k, MapsTo(T, P, k), NEW t \in Times \cup {Unset}, Visit(t),
         NEW x, x = Head(frames).elem, x \in P, \A y \in P : y = x \/ Before(k, x, y),
         NEW U, U = IF t = Unset THEN T ELSE T \cup {x}, NEW N, N = P \ {x}, MapsTo(U, N, k)'
  PROVE  Queue!Visit(t)
  <1>1. key' = [key EXCEPT ![x] = t]
    BY DEF Visit
  <1>2. Due # <<>> /\ Head(Due) = x /\ Enumerates(Tail(Due), k, N)
    BY EnumerateTail DEF MapsTo
  <1>3. Due' = Tail(Due)
    BY <1>2, MapsNext, OneOrder
  <1>4. InTreeNow' = IF t = Unset THEN InTreeNow ELSE InTreeNow \cup {Head(Due)}
    BY <1>2, MapsNext DEF MapsTo
  <1>5. key' = [key EXCEPT ![Head(Due)] = t]
    BY <1>1, <1>2
  <1>6. QED
    BY <1>2, <1>3, <1>4, <1>5 DEF Queue!Visit, InTreeNow, Due

\* An empty tree is an empty queue.
LEMMA InitQueue == Init => Queue!Init
  <1> SUFFICES ASSUME Init PROVE Queue!Init
    OBVIOUS
  <1>1. MapsTo({}, {}, key)
    BY InitShape, ShapeMaps DEF EveryShapeMaps
  <1>2. InTreeNow = {} /\ Due = <<>> /\ First = Unset
    BY <1>1 DEF MapsTo, Enumerates, Queue!Earliest
  <1>3. key = [x \in Elems |-> Unset]
    BY DEF Init
  <1>4. QED
    BY <1>2, <1>3 DEF Queue!Init, InTreeNow, Due

\* A step of the trees is a step of the queue, or a stutter.
LEMMA NextQueue == Inv /\ [Next]_vars => [Queue!Next]_<<InTreeNow, key, Due, First>>
  <1> SUFFICES ASSUME Inv, [Next]_vars
               PROVE  [Queue!Next]_<<InTreeNow, key, Due, First>>
    OBVIOUS
  <1>1. PICK T, P, k : Shape(T, P, k)
    BY DEF Inv
  <1>2. MapsTo(T, P, k)
    BY <1>1, ShapeMaps DEF EveryShapeMaps
  <1>3. ASSUME NEW U, NEW N, NEW j, Shape(U, N, j)'
        PROVE  MapsTo(U, N, j)' /\ First' = Queue!Earliest(InTreeNow', key')
    <2>1. EveryShapeMaps'
      BY ShapeMaps, PTL
    <2>2. MapsTo(U, N, j)'
      BY <1>3, <2>1 DEF EveryShapeMaps
    <2>3. QED
      BY <2>2, MapsNext
  <1>4. ASSUME NEW x \in Elems, NEW t \in Times, Add(x, t)
        PROVE  Queue!Add(x, t) /\ First' = Queue!Earliest(InTreeNow', key')
    <2>1. PICK U : U = T \cup {x}
      OBVIOUS
    <2>2. Shape(U, P, k)'
      BY <1>1, <1>4, <2>1, AddShape
    <2>3. QED
      BY <1>2, <1>3, <1>4, <2>1, <2>2, AddMaps
  <1>5. ASSUME NEW x \in Elems, NEW t \in Times, Change(x, t)
        PROVE  Queue!Change(x, t) /\ First' = Queue!Earliest(InTreeNow', key')
    <2>1. Shape(T, P, k)'
      BY <1>1, <1>5, ChangeShape
    <2>2. QED
      BY <1>2, <1>3, <1>5, <2>1, ChangeMaps
  <1>6. ASSUME NEW x \in Elems, Delete(x)
        PROVE  Queue!Delete(x) /\ First' = Queue!Earliest(InTreeNow', key')
    <2>1. PICK U : U = T \ {x}
      OBVIOUS
    <2>2. x \in T /\ Shape(U, P, k)'
      BY <1>1, <1>6, <2>1, DeleteShape
    <2>3. QED
      BY <1>2, <1>3, <1>6, <2>1, <2>2, DeleteMaps
  <1>7. ASSUME NEW now \in Times, Process(now)
        PROVE  Queue!Take(now) /\ First' = Queue!Earliest(InTreeNow', key')
    <2>1. PICK j : j = key
      OBVIOUS
    <2>2. PICK E : E = {x \in T : key[x] <= now}
      OBVIOUS
    <2>3. PICK L : L = T \ E
      OBVIOUS
    <2>4. P = {} /\ Shape(L, E, j)'
      BY <1>1, <1>7, <2>1, <2>2, <2>3, ProcessShape
    <2>5. MapsTo(T, {}, k)
      BY <1>2, <2>4
    <2>6. QED
      BY <1>3, <1>7, <2>1, <2>2, <2>3, <2>4, <2>5, ProcessMaps
  <1>8. ASSUME NEW t \in Times \cup {Unset}, Visit(t)
        PROVE  Queue!Visit(t) /\ First' = Queue!Earliest(InTreeNow', key')
    <2>1. PICK x : x = Head(frames).elem
      OBVIOUS
    <2>2. PICK U : U = IF t = Unset THEN T ELSE T \cup {x}
      OBVIOUS
    <2>3. PICK N : N = P \ {x}
      OBVIOUS
    <2>4. /\ x \in P /\ \A y \in P : y = x \/ Before(k, x, y)
          /\ Shape(U, N, k)'
      BY <1>1, <1>8, <2>1, <2>2, <2>3, VisitShape
    <2>5. QED
      BY <1>2, <1>3, <1>8, <2>1, <2>2, <2>3, <2>4, VisitMaps
  <1>9. CASE UNCHANGED vars
    <2>1. Shape(T, P, k)' /\ key' = key
      BY <1>1, <1>9, StillShape DEF vars
    <2>2. QED
      BY <1>2, <1>3, <2>1, StillMaps
  <1>10. QED
    BY <1>4, <1>5, <1>6, <1>7, <1>8, <1>9 DEF Next, Queue!Next, InTreeNow

\* The zip tree and its traversal implement the queue that UA_Timer_process relies on:
\* UA_Timer_add, UA_Timer_modify and UA_Timer_remove change the set of entries as they
\* say, the entries that are due are visited once each in the order of their times, and
\* UA_Timer_next returns the least time, for any number of entries and any callbacks.
THEOREM TreesAreQueue == Spec => TimeQueueSpec
  <1>1. Init => Queue!Init
    BY InitQueue
  <1>2. Inv /\ [Next]_vars => [Queue!Next]_<<InTreeNow, key, Due, First>>
    BY NextQueue
  <1>3. QED
    BY <1>1, <1>2, TreesKeepShape, PTL DEF Spec, TimeQueueSpec, Queue!Spec, InTreeNow, Due
===============================================================================
