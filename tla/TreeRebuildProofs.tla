--------------------------- MODULE TreeRebuildProofs ---------------------------
(***************************************************************************)
(* What TreeRebuild promises of the tree it returns and of the cache it    *)
(* leaves, for every pool, history, node and corruption of the cache.      *)
(***************************************************************************)
EXTENDS TreeRebuild, FiniteSetTheorems, TLAPS

-----------------------------------------------------------------------------
(* Numbers in order.                                                       *)

\* The place of a number of a finite set is one of its places.
LEMMA RankIsAPlace ==
    ASSUME NEW S, IsFiniteSet(S), NEW i \in S, i <= i
    PROVE  Rank(S, i) \in 1..Cardinality(S)
<1> DEFINE T == {h \in S : h <= i}
<1>1. T \in SUBSET S /\ i \in T
  OBVIOUS
<1>2. IsFiniteSet(T) /\ Cardinality(T) <= Cardinality(S)
  BY <1>1, FS_Subset
<1>3. Cardinality(T) \in Nat /\ Cardinality(S) \in Nat
  BY <1>2, FS_CardinalityType
<1>4. Cardinality(T) # 0
  BY <1>1, <1>2, FS_EmptySet
<1>5. Rank(S, i) = Cardinality(T)
  BY DEF Rank
<1> HIDE DEF T
<1> QED
  BY <1>2, <1>3, <1>4, <1>5

\* A smaller number has a smaller place.
LEMMA RankGrows ==
    ASSUME NEW S \in SUBSET Nat, IsFiniteSet(S), NEW i \in S, NEW j \in S, i < j
    PROVE  Rank(S, i) # Rank(S, j)
<1> DEFINE T == {h \in S : h <= i}
           U == {h \in S : h <= j}
<1>0. i \in Nat /\ j \in Nat /\ \A h \in S : h \in Nat
  OBVIOUS
<1>1. U \in SUBSET S /\ T \in SUBSET U /\ j \in U /\ j \notin T
  <2>1. \A h \in S : h <= i => h <= j
    BY <1>0
  <2>2. j <= j /\ ~(j <= i)
    BY <1>0
  <2> QED BY <2>1, <2>2
<1>2. IsFiniteSet(U)
  BY <1>1, FS_Subset
<1>3. Cardinality(U) # Cardinality(T)
  <2> HIDE DEF T, U
  <2> QED BY <1>1, <1>2, FS_Subset
<1> QED
  BY <1>3 DEF Rank

\* Two numbers of a set have two places.
LEMMA RankDistinguishes ==
    ASSUME NEW S \in SUBSET Nat, IsFiniteSet(S), NEW i \in S, NEW j \in S,
           Rank(S, i) = Rank(S, j)
    PROVE  i = j
<1>1. i \in Nat /\ j \in Nat
  OBVIOUS
<1>2. CASE i < j
  BY <1>2, RankGrows
<1>3. CASE j < i
  BY <1>3, RankGrows
<1> QED
  BY <1>1, <1>2, <1>3

\* Every place is that of some number.
LEMMA PlacesAreTaken ==
    ASSUME NEW S \in SUBSET Nat, IsFiniteSet(S), NEW r \in 1..Cardinality(S)
    PROVE  \E i \in S : Rank(S, i) = r
<1> DEFINE P == 1..Cardinality(S)
           f == [i \in S |-> Rank(S, i)]
<1>1. Cardinality(S) \in Nat
  BY FS_CardinalityType
<1>2. IsFiniteSet(P) /\ Cardinality(P) = Cardinality(S)
  BY <1>1, FS_Interval
<1>3. \A i \in S : Rank(S, i) \in P
  <2> SUFFICES ASSUME NEW i \in S PROVE Rank(S, i) \in P
    OBVIOUS
  <2>1. i <= i
    OBVIOUS
  <2> QED BY <2>1, RankIsAPlace
<1>4. f \in [S -> P]
  <2> HIDE DEF P
  <2> QED BY <1>3
<1>5. \A i, j \in S : f[i] = f[j] => i = j
  BY RankDistinguishes
<1>6. f \in Injection(S, P)
  <2> HIDE DEF P, f
  <2> QED BY <1>4, <1>5 DEF Injection, IsInjective
<1>7. f \in Surjection(S, P)
  <2> HIDE DEF P, f
  <2> QED BY <1>2, <1>6, FS_Injection
<1>8. \E i \in S : f[i] = r
  <2>1. r \in P
    OBVIOUS
  <2> HIDE DEF P, f
  <2> QED BY <1>7, <2>1 DEF Surjection
<1> QED
  BY <1>8

\* The number at a place is the one that has the place.
LEMMA AscendingIsOrdered ==
    ASSUME NEW S \in SUBSET Nat, IsFiniteSet(S)
    PROVE  /\ Ascending(S) \in [1..Cardinality(S) -> S]
           /\ \A r \in 1..Cardinality(S) : Rank(S, Ascending(S)[r]) = r
           /\ \A i \in S : /\ Rank(S, i) \in 1..Cardinality(S)
                           /\ Ascending(S)[Rank(S, i)] = i
<1> DEFINE at(r) == CHOOSE i \in S : Rank(S, i) = r
<1>1. \A r \in 1..Cardinality(S) : at(r) \in S /\ Rank(S, at(r)) = r
  BY PlacesAreTaken
<1>2. Ascending(S) = [r \in 1..Cardinality(S) |-> at(r)]
  BY DEF Ascending
<1>3. \A i \in S : Rank(S, i) \in 1..Cardinality(S)
  <2> SUFFICES ASSUME NEW i \in S PROVE Rank(S, i) \in 1..Cardinality(S)
    OBVIOUS
  <2>1. i <= i
    OBVIOUS
  <2> QED BY <2>1, RankIsAPlace
<1> HIDE DEF at
<1>4. Ascending(S) \in [1..Cardinality(S) -> S]
  BY <1>1, <1>2
<1>5. \A r \in 1..Cardinality(S) : Rank(S, Ascending(S)[r]) = r
  BY <1>1, <1>2
<1>6. \A i \in S : Ascending(S)[Rank(S, i)] = i
  <2> SUFFICES ASSUME NEW i \in S PROVE Ascending(S)[Rank(S, i)] = i
    OBVIOUS
  <2>1. Rank(S, i) \in 1..Cardinality(S)
    BY <1>3
  <2>2. Ascending(S)[Rank(S, i)] \in S
    BY <2>1, <1>4
  <2> DEFINE k == Ascending(S)[Rank(S, i)]
  <2>3. k \in S /\ Rank(S, k) = Rank(S, i)
    BY <2>1, <2>2, <1>5
  <2>4. k = i
    <3> HIDE DEF k
    <3> QED BY <2>3, RankDistinguishes
  <2> QED BY <2>4
<1> QED
  BY <1>3, <1>4, <1>5, <1>6

\* A set of places has a smallest one.
LEMMA SmallestHole ==
    ASSUME NEW n \in Nat, NEW S \in SUBSET (1..n), S # {}
    PROVE  Min(S) \in S /\ \A y \in S : Min(S) <= y
<1>1. S \in SUBSET Nat /\ IsFiniteSet(S)
  <2>1. IsFiniteSet(1..n)
    BY FS_Interval
  <2>2. S \in SUBSET Nat
    OBVIOUS
  <2>3. IsFiniteSet(S)
    BY <2>1, FS_Subset
  <2> QED BY <2>2, <2>3
<1>2. Cardinality(S) \in Nat /\ Cardinality(S) # 0
  BY <1>1, FS_CardinalityType, FS_EmptySet
<1>3. 1 \in 1..Cardinality(S)
  BY <1>2
<1>4. PICK i \in S : Rank(S, i) = 1
  BY <1>1, <1>3, PlacesAreTaken
<1>5. \A y \in S : i <= y
  <2> SUFFICES ASSUME NEW y \in S, y < i PROVE FALSE
    BY <1>1
  <2> DEFINE T == {h \in S : h <= i}
  <2>1. T \in SUBSET S /\ i \in T /\ y \in T
    BY <1>1
  <2>2. IsFiniteSet(T) /\ Cardinality(T) = 1
    BY <1>1, <1>4, <2>1, FS_Subset DEF Rank
  <2>3. \E x : T = {x}
    <3> HIDE DEF T
    <3> QED BY <2>2, FS_Singleton
  <2>4. y = i
    <3> HIDE DEF T
    <3> QED BY <2>1, <2>3
  <2> QED BY <2>4, <1>1
<1> QED
  BY <1>5 DEF Min
-----------------------------------------------------------------------------
(* The inductive invariant.                                                *)

AllLeaves ==
    (UNION {{t.deposits[k].leaf : k \in DOMAIN t.deposits} : t \in Transactions})
    \cup (UNION {ToSet(list) : list \in TamperedLeaves})

Deposits == [leaf : AllLeaves, tx : Nat, event : BOOLEAN]

Caches == [leaves : Seq(AllLeaves), last : Nat]

Tabs == [pc : {"idle", "check", "scan", "rescan", "retry", "done", "failed"},
         n : Nat, cached : Caches, tree : Seq(AllLeaves), faithful : BOOLEAN]

TypeOK ==
    /\ tip \in Nat
    /\ landed \in Seq(Deposits)
    /\ cache \in Caches
    /\ tampered \in BOOLEAN
    /\ tab \in Tabs

\* A deposit landed with one of the transactions that landed.
Dated == \A i \in DOMAIN landed : landed[i].tx \in 1..tip

\* The account that was read was an account of this chain, and the cache is
\* checked without a scan only when its length is that of the account.
ReadBehind == tab.n <= Len(landed)
CheckedLength == tab.pc = "check" => Len(tab.cached.leaves) = tab.n

IInv ==
    /\ TypeOK
    /\ Dated
    /\ ReadBehind
    /\ CheckedLength
    /\ TreeOpensToTheChain
    /\ LeavesAreTheChains
    /\ CompleteHistoryRebuilds
    /\ CacheIsAPrefix
-----------------------------------------------------------------------------
(* Leaves and roots.                                                       *)

\* The leaves of the chain, one for each deposit.
LEMMA LeavesOfDeposits ==
    ASSUME TypeOK
    PROVE  /\ Leaves \in Seq(AllLeaves)
           /\ Len(Leaves) = Len(landed) /\ Len(landed) \in Nat
           /\ DOMAIN Leaves = 1..Len(landed) /\ DOMAIN landed = 1..Len(landed)
           /\ \A i \in 1..Len(landed) : Leaves[i] = landed[i].leaf
<1>1. landed \in Seq(Deposits)
  BY DEF TypeOK
<1>2. \A i \in 1..Len(landed) : landed[i].leaf \in AllLeaves
  <2> SUFFICES ASSUME NEW i \in 1..Len(landed) PROVE landed[i].leaf \in AllLeaves
    OBVIOUS
  <2>1. landed[i] \in Deposits
    BY <1>1
  <2> QED BY <2>1 DEF Deposits
<1>3. Leaves = [i \in 1..Len(landed) |-> landed[i].leaf]
  BY <1>1 DEF Leaves, LeavesOf
<1> QED
  BY <1>1, <1>2, <1>3

\* A sequence without an empty leaf is all of its root.
LEMMA RootOfNonZero ==
    ASSUME NEW G, NEW leaves \in Seq(G), Zero \notin ToSet(leaves)
    PROVE  RootOf(leaves) = leaves
<1> DEFINE L == Len(leaves)
           used == {0} \cup {i \in DOMAIN leaves : leaves[i] # Zero}
<1>1. L \in Nat /\ DOMAIN leaves = 1..L
  OBVIOUS
<1>2. \A i \in 1..L : leaves[i] # Zero
  BY <1>1 DEF ToSet
<1>3. used = 0..L
  BY <1>1, <1>2
<1>4. Max(0..L) = L
  <2> HIDE DEF L
  <2>1. L \in 0..L /\ \A y \in 0..L : L >= y
    BY <1>1
  <2>2. \A x \in 0..L : (\A y \in 0..L : x >= y) => x = L
    BY <1>1
  <2> QED BY <2>1, <2>2 DEF Max
<1>5. RootOf(leaves) = SubSeq(leaves, 1, L)
  BY <1>3, <1>4 DEF RootOf
<1> QED
  BY <1>5

\* No deposit, no root but that of the empty tree, which every pool has had.
LEMMA EmptyMatchesEmpty ==
    ASSUME TypeOK
    PROVE  TreeMatchesPool(<<>>, 0)
<1>1. 0 \in {j \in 0..0 : 0 - j < RingSize}
  BY BoundsAssumption
<1>2. SubSeq(LeavesOf(landed), 1, 0) = <<>>
  BY LeavesOfDeposits DEF Leaves
<1>3. RootOf(<<>>) \in RootHistory(0)
  BY <1>1, <1>2 DEF RootHistory
<1> QED
  BY <1>3 DEF TreeMatchesPool

\* The pool's own leaves always match it.
LEMMA ChainMatches ==
    ASSUME TypeOK, NEW n \in 0..Len(landed)
    PROVE  TreeMatchesPool(SubSeq(Leaves, 1, n), n)
<1>0. n \in Nat /\ n <= Len(Leaves)
  BY LeavesOfDeposits
<1>1. n \in {j \in 0..n : n - j < RingSize}
  BY <1>0, BoundsAssumption
<1>2. RootOf(SubSeq(Leaves, 1, n)) \in RootHistory(n)
  BY <1>1 DEF RootHistory, Leaves
<1>3. Len(SubSeq(Leaves, 1, n)) = n
  BY <1>0, LeavesOfDeposits
<1> QED
  BY <1>2, <1>3 DEF TreeMatchesPool

\* A tree that matches the pool has the root of one of the RingSize latest
\* prefixes of the chain.
LEMMA MatchingRoot ==
    ASSUME TypeOK, NEW n \in 0..Len(landed), NEW leaves, TreeMatchesPool(leaves, n)
    PROVE  /\ Len(leaves) = n
           /\ \E k \in 0..Len(Leaves) :
                 /\ n - k \in 0..(RingSize - 1) /\ k <= n
                 /\ RootOf(leaves) = RootOf(SubSeq(Leaves, 1, k))
<1>1. PICK k \in {j \in 0..n : n - j < RingSize} :
          RootOf(leaves) = RootOf(SubSeq(Leaves, 1, k))
  BY DEF TreeMatchesPool, RootHistory, Leaves
<1>2. k \in 0..n /\ n - k < RingSize
  OBVIOUS
<1>3. k \in 0..Len(Leaves) /\ n - k \in 0..(RingSize - 1) /\ k <= n
  BY <1>2, LeavesOfDeposits, BoundsAssumption
<1>4. Len(leaves) = n
  BY DEF TreeMatchesPool
<1> QED
  BY <1>1, <1>3, <1>4

\* Where no leaf is empty a tree that matches the pool holds its leaves.
LEMMA MatchingLeaves ==
    ASSUME TypeOK, NEW n \in 0..Len(landed), NEW leaves \in Seq(AllLeaves),
           TreeMatchesPool(leaves, n),
           Zero \notin ToSet(Leaves) \cup ToSet(leaves)
    PROVE  leaves = SubSeq(Leaves, 1, n)
<1>1. PICK k \in 0..Len(Leaves) :
         /\ k <= n
         /\ RootOf(leaves) = RootOf(SubSeq(Leaves, 1, k))
  BY MatchingRoot
<1>2. RootOf(leaves) = leaves
  BY RootOfNonZero
<1> DEFINE prefix == SubSeq(Leaves, 1, k)
<1>3. prefix \in Seq(AllLeaves) /\ Len(prefix) = k
  BY LeavesOfDeposits
<1>4. Zero \notin ToSet(prefix)
  BY <1>3, LeavesOfDeposits DEF ToSet
<1>5. RootOf(prefix) = prefix
  <2> HIDE DEF prefix
  <2> QED BY <1>3, <1>4, RootOfNonZero
<1>6. Len(leaves) = n
  BY DEF TreeMatchesPool
<1> QED
  BY <1>1, <1>2, <1>3, <1>5, <1>6
-----------------------------------------------------------------------------
(* The placement of what a scan finds.                                     *)

\* The deposits without an index: which they are, and in which order.
LEMMA UnindexedInOrder ==
    ASSUME TypeOK, NEW seen
    PROVE  /\ UnindexedAt(seen) \in SUBSET (1..Len(landed))
           /\ IsFiniteSet(UnindexedAt(seen))
           /\ Cardinality(UnindexedAt(seen)) \in Nat
           /\ Len(Unindexed(seen)) = Cardinality(UnindexedAt(seen))
           /\ \A r \in 1..Cardinality(UnindexedAt(seen)) :
                 \E i \in UnindexedAt(seen) : Unindexed(seen)[r] = landed[i].leaf
           /\ \A i \in UnindexedAt(seen) :
                 Unindexed(seen)[Rank(UnindexedAt(seen), i)] = landed[i].leaf
<1> DEFINE X == UnindexedAt(seen)
           N == Cardinality(X)
           at == Ascending(X)
<1>1. DOMAIN landed = 1..Len(landed) /\ Len(landed) \in Nat
  BY LeavesOfDeposits
<1>2. X \in SUBSET (1..Len(landed))
  BY <1>1 DEF UnindexedAt
<1>3. X \in SUBSET Nat
  <2> HIDE DEF X
  <2> QED BY <1>2
<1>4. IsFiniteSet(X) /\ N \in Nat
  <2>1. IsFiniteSet(1..Len(landed))
    BY <1>1, FS_Interval
  <2> HIDE DEF X
  <2> QED BY <2>1, <1>2, FS_Subset, FS_CardinalityType
<1>5. /\ at \in [1..N -> X]
      /\ \A i \in X : Rank(X, i) \in 1..N /\ at[Rank(X, i)] = i
  <2> HIDE DEF X
  <2> QED BY <1>3, <1>4, AscendingIsOrdered
<1>6. Unindexed(seen) = [r \in DOMAIN at |-> landed[at[r]].leaf]
  BY DEF Unindexed
<1> HIDE DEF X, N, at
<1>7. Unindexed(seen) = [r \in 1..N |-> landed[at[r]].leaf]
  BY <1>5, <1>6
<1>8. Len(Unindexed(seen)) = N
  BY <1>4, <1>7
<1>9. \A r \in 1..N : \E i \in X : Unindexed(seen)[r] = landed[i].leaf
  BY <1>5, <1>7
<1>10. \A i \in X : Unindexed(seen)[Rank(X, i)] = landed[i].leaf
  BY <1>5, <1>7
<1> QED
  BY <1>2, <1>4, <1>8, <1>9, <1>10 DEF X, N

\* A placement, for the holes it has: how long it is and what stands where.
LEMMA AssembleDef ==
    ASSUME TypeOK, NEW base, NEW seen, NEW n \in Nat
    PROVE  LET holes  == Holes(base, seen, n)
               extra  == Unindexed(seen)
               length == Len(Assemble(base, seen, n))
           IN /\ holes \in SUBSET (1..n) /\ IsFiniteSet(holes)
              /\ Cardinality(holes) \in Nat
              /\ length \in 0..n
              /\ DOMAIN Assemble(base, seen, n) = 1..length
              /\ Cardinality(holes) # Len(extra) => \A i \in 1..length : i \notin holes
              /\ Cardinality(holes) = Len(extra) \/ holes = {} => length = n
              /\ length = n => Cardinality(holes) = Len(extra) \/ holes = {}
              /\ \A i \in 1..length :
                    Assemble(base, seen, n)[i] =
                        IF Indexed(seen, i) THEN landed[i].leaf
                        ELSE IF i \in DOMAIN base THEN base[i]
                        ELSE extra[Rank(holes, i)]
<1> DEFINE holes == Holes(base, seen, n)
           extra == Unindexed(seen)
           fills == Cardinality(holes) = Len(extra)
           length == IF fills \/ holes = {} THEN n ELSE Min(holes) - 1
           At(i) == IF Indexed(seen, i) THEN landed[i].leaf
                    ELSE IF i \in DOMAIN base THEN base[i]
                    ELSE extra[Rank(holes, i)]
<1>1. Assemble(base, seen, n) = [i \in 1..length |-> At(i)]
  BY DEF Assemble
<1>2. holes \in SUBSET (1..n)
  BY DEF Holes
<1>3. IsFiniteSet(holes) /\ Cardinality(holes) \in Nat
  <2>1. IsFiniteSet(1..n)
    BY FS_Interval
  <2> HIDE DEF holes
  <2> QED BY <2>1, <1>2, FS_Subset, FS_CardinalityType
<1>4. holes # {} => /\ Min(holes) \in holes /\ Min(holes) \in 1..n
                    /\ \A y \in holes : Min(holes) <= y
  <2> HIDE DEF holes
  <2> QED BY <1>2, SmallestHole
<1> HIDE DEF holes, extra, At
<1>5. length \in 0..n
  BY <1>4
<1>6. ~fills => \A i \in 1..length : i \notin holes
  BY <1>2, <1>4
<1>7. (fills \/ holes = {}) <=> length = n
  BY <1>4
<1> HIDE DEF length
<1>8. /\ DOMAIN Assemble(base, seen, n) = 1..length
      /\ Len(Assemble(base, seen, n)) = length
  BY <1>1, <1>5
<1>9. \A i \in 1..length : Assemble(base, seen, n)[i] = At(i)
  BY <1>1
<1> QED
  BY <1>2, <1>3, <1>5, <1>6, <1>7, <1>8, <1>9 DEF holes, extra, At

\* Every leaf that is placed comes from the chain or from the base.
LEMMA AssembleTakesLeaves ==
    ASSUME TypeOK, NEW G, NEW base \in Seq(G), NEW seen, NEW n \in Nat,
           \A i \in 1..Len(landed) : landed[i].leaf \in G
    PROVE  Assemble(base, seen, n) \in Seq(G)
<1> DEFINE holes == Holes(base, seen, n)
           leaves == Assemble(base, seen, n)
<1>1. /\ holes \in SUBSET (1..n) /\ IsFiniteSet(holes)
      /\ Cardinality(holes) \in Nat
      /\ Len(leaves) \in 0..n
      /\ DOMAIN leaves = 1..Len(leaves)
      /\ Cardinality(holes) # Len(Unindexed(seen)) =>
            \A i \in 1..Len(leaves) : i \notin holes
      /\ \A i \in 1..Len(leaves) :
            leaves[i] = IF Indexed(seen, i) THEN landed[i].leaf
                        ELSE IF i \in DOMAIN base THEN base[i]
                        ELSE Unindexed(seen)[Rank(holes, i)]
  BY AssembleDef
<1>2. \A r \in 1..Len(Unindexed(seen)) : Unindexed(seen)[r] \in G
  BY UnindexedInOrder
<1>3. \A i \in 1..Len(leaves) :
         ~Indexed(seen, i) /\ i \notin DOMAIN base => i \in holes
  BY <1>1 DEF Holes
<1>4. \A i \in holes : Rank(holes, i) \in 1..Cardinality(holes)
  <2> SUFFICES ASSUME NEW i \in holes PROVE Rank(holes, i) \in 1..Cardinality(holes)
    OBVIOUS
  <2>1. i <= i
    BY <1>1
  <2> HIDE DEF holes
  <2> QED BY <1>1, <2>1, RankIsAPlace
<1>5. leaves = [i \in 1..Len(leaves) |-> leaves[i]]
  BY <1>1 DEF Assemble
<1> HIDE DEF holes, leaves
<1>6. \A i \in 1..Len(leaves) : leaves[i] \in G
  <2> SUFFICES ASSUME NEW i \in 1..Len(leaves) PROVE leaves[i] \in G
    OBVIOUS
  <2>1. CASE Indexed(seen, i)
    <3>1. i \in 1..Len(landed)
      BY <2>1, LeavesOfDeposits DEF Indexed
    <3>2. leaves[i] = landed[i].leaf
      BY <2>1, <1>1
    <3> QED BY <3>1, <3>2
  <2>2. CASE ~Indexed(seen, i) /\ i \in DOMAIN base
    BY <2>2, <1>1
  <2>3. CASE ~Indexed(seen, i) /\ i \notin DOMAIN base
    <3>1. i \in holes
      BY <2>3, <1>3
    <3>2. Cardinality(holes) = Len(Unindexed(seen))
      BY <3>1, <1>1
    <3>3. Rank(holes, i) \in 1..Len(Unindexed(seen))
      BY <3>1, <3>2, <1>4
    <3> QED BY <2>3, <3>3, <1>1, <1>2
  <2> QED BY <2>1, <2>2, <2>3
<1>7. leaves \in [1..Len(leaves) -> G]
  BY <1>5, <1>6
<1> QED
  BY <1>1, <1>7 DEF leaves
\* Where no empty leaf is involved, none is placed.
LEMMA AssembleAddsNoZero ==
    ASSUME TypeOK, NEW base \in Seq(AllLeaves), NEW seen, NEW n \in Nat,
           Zero \notin ToSet(Leaves) \cup ToSet(base)
    PROVE  Zero \notin ToSet(Assemble(base, seen, n))
<1> DEFINE G == AllLeaves \ {Zero}
<1>1. \A i \in 1..Len(landed) : landed[i].leaf \in G
  <2> SUFFICES ASSUME NEW i \in 1..Len(landed) PROVE landed[i].leaf \in G
    OBVIOUS
  <2>1. Leaves[i] = landed[i].leaf /\ Leaves[i] \in AllLeaves /\ i \in DOMAIN Leaves
    BY LeavesOfDeposits
  <2>2. Leaves[i] # Zero
    BY <2>1 DEF ToSet
  <2> QED BY <2>1, <2>2
<1>2. base \in Seq(G)
  <2>1. \A i \in 1..Len(base) : base[i] \in AllLeaves /\ base[i] # Zero
    BY DEF ToSet
  <2> QED BY <2>1
<1>3. Assemble(base, seen, n) \in Seq(G)
  <2> HIDE DEF G
  <2> QED BY <1>1, <1>2, AssembleTakesLeaves
<1> QED
  BY <1>3 DEF ToSet

\* With no cache, and when nothing without an index landed after the account
\* was read, as many leaves as the account counts are those of the chain: the
\* deposits that have no index fill the holes they left.
LEMMA DenseIsTheChain ==
    ASSUME TypeOK, NEW seen, NEW n \in 0..Len(landed),
           \A i \in DOMAIN landed : i > n => landed[i].event,
           Len(Assemble(<<>>, seen, n)) = n
    PROVE  Assemble(<<>>, seen, n) = SubSeq(Leaves, 1, n)
<1> DEFINE holes == Holes(<<>>, seen, n)
           leaves == Assemble(<<>>, seen, n)
           X == UnindexedAt(seen)
<1>1. n \in Nat /\ n <= Len(landed) /\ DOMAIN landed = 1..Len(landed)
  BY LeavesOfDeposits
<1>2. /\ holes \in SUBSET (1..n) /\ IsFiniteSet(holes)
      /\ DOMAIN leaves = 1..n
      /\ Cardinality(holes) = Len(Unindexed(seen)) \/ holes = {}
      /\ \A i \in 1..n :
            leaves[i] = IF Indexed(seen, i) THEN landed[i].leaf
                        ELSE IF i \in DOMAIN <<>> THEN <<>>[i]
                        ELSE Unindexed(seen)[Rank(holes, i)]
  BY <1>1, AssembleDef
<1>3. /\ IsFiniteSet(X)
      /\ Len(Unindexed(seen)) = Cardinality(X)
      /\ \A i \in X : Unindexed(seen)[Rank(X, i)] = landed[i].leaf
  BY UnindexedInOrder
<1>4. X \subseteq holes
  <2> SUFFICES ASSUME NEW i \in X PROVE i \in holes
    OBVIOUS
  <2>1. i \in DOMAIN landed /\ ~landed[i].event
    BY DEF UnindexedAt
  <2>2. i \in 1..n
    BY <2>1, <1>1
  <2> QED BY <2>1, <2>2 DEF Holes, Indexed
<1>5. X = holes
  <2>1. CASE holes = {}
    BY <2>1, <1>4
  <2>2. CASE holes # {}
    <3>1. Cardinality(holes) = Cardinality(X)
      BY <2>2, <1>2, <1>3
    <3> HIDE DEF X, holes
    <3> QED BY <3>1, <1>2, <1>4, FS_Subset
  <2> QED BY <2>1, <2>2
<1>6. \A i \in 1..n : ~Indexed(seen, i) => i \in holes
  BY DEF Holes
<1>7. leaves = [i \in 1..n |-> leaves[i]]
  BY <1>2 DEF Assemble
<1> HIDE DEF X, holes, leaves
<1>8. \A i \in 1..n : leaves[i] = landed[i].leaf
  <2> SUFFICES ASSUME NEW i \in 1..n PROVE leaves[i] = landed[i].leaf
    OBVIOUS
  <2>1. CASE Indexed(seen, i)
    BY <2>1, <1>2
  <2>2. CASE ~Indexed(seen, i)
    <3>1. leaves[i] = Unindexed(seen)[Rank(holes, i)]
      BY <2>2, <1>2
    <3>2. i \in X
      BY <2>2, <1>5, <1>6
    <3> QED BY <3>1, <3>2, <1>3, <1>5
  <2> QED BY <2>1, <2>2
<1>9. \A i \in 1..n : Leaves[i] = landed[i].leaf
  BY <1>1, LeavesOfDeposits
<1>10. SubSeq(Leaves, 1, n) = [i \in 1..n |-> Leaves[i]]
  <2>1. Leaves \in Seq(AllLeaves) /\ n <= Len(Leaves)
    BY <1>1, LeavesOfDeposits
  <2> QED BY <2>1, <1>1
<1> QED
  BY <1>7, <1>8, <1>9, <1>10 DEF leaves

\* A scan of the whole history leaves no hole that is not filled.
LEMMA WholeHistoryIsDense ==
    ASSUME TypeOK, Dated, NEW seen, NEW n \in 0..Len(landed),
           \A i \in DOMAIN landed : i > n => landed[i].event,
           1..tip \subseteq seen
    PROVE  Len(Assemble(<<>>, seen, n)) = n
<1> DEFINE holes == Holes(<<>>, seen, n)
<1>1. n \in Nat /\ n <= Len(landed) /\ DOMAIN landed = 1..Len(landed)
  BY LeavesOfDeposits
<1>2. \A i \in DOMAIN landed : landed[i].tx \in seen
  BY DEF Dated
<1>3. holes = UnindexedAt(seen)
  BY <1>1, <1>2 DEF Holes, Indexed, UnindexedAt
<1>4. Cardinality(holes) = Len(Unindexed(seen))
  BY <1>3, UnindexedInOrder
<1> QED
  BY <1>1, <1>4, AssembleDef

\* So with no cache a mismatch means that history was missing or grew.
LEMMA FullScanMatches ==
    ASSUME TypeOK, Dated, ReadBehind, NEW seen,
           NoLateUnindexed,
           1..tip \subseteq seen \/ Len(Assemble(<<>>, seen, tab.n)) = tab.n
    PROVE  TreeMatchesPool(Assemble(<<>>, seen, tab.n), tab.n)
<1>1. tab.n \in 0..Len(landed)
  <2>1. tab.n \in Nat
    BY DEF TypeOK, Tabs
  <2> QED BY <2>1, LeavesOfDeposits DEF ReadBehind
<1>2. \A i \in DOMAIN landed : i > tab.n => landed[i].event
  BY DEF NoLateUnindexed
<1>3. Len(Assemble(<<>>, seen, tab.n)) = tab.n
  BY <1>1, <1>2, WholeHistoryIsDense
<1>4. Assemble(<<>>, seen, tab.n) = SubSeq(Leaves, 1, tab.n)
  BY <1>1, <1>2, <1>3, DenseIsTheChain
<1> QED
  BY <1>1, <1>4, ChainMatches
-----------------------------------------------------------------------------
(* The steps of a rebuild.                                                 *)

\* What a step that leaves the chain alone has to keep.
LEMMA ChainUnchanged ==
    ASSUME UNCHANGED <<tip, landed>>
    PROVE  /\ Leaves' = Leaves
           /\ Dated <=> Dated'
           /\ \A n : RootHistory(n)' = RootHistory(n)
BY DEF Leaves, LeavesOf, Dated, RootHistory, RootOf

\* The leaves that are returned are right, and so is the cache that keeps them.
LEMMA ReturnKeeps ==
    ASSUME IInv, UNCHANGED <<tip, landed>>,
           NEW leaves \in Seq(AllLeaves), NEW newest \in Nat,
           NEW faithful \in BOOLEAN,
           TreeMatchesPool(leaves, tab.n),
           Zero \notin ToSet(Leaves) \cup ToSet(tab.cached.leaves)
               => Zero \notin ToSet(leaves),
           Return(leaves, newest, faithful)
    PROVE  IInv'
<1>1. /\ TypeOK /\ Dated /\ ReadBehind /\ CacheIsAPrefix
  BY DEF IInv
<1>2. tab' = [tab EXCEPT !.pc = "done", !.tree = leaves, !.faithful = faithful]
  BY DEF Return
<1>3. /\ tab'.pc = "done" /\ tab'.n = tab.n /\ tab'.cached = tab.cached
      /\ tab'.tree = leaves /\ tab' \in Tabs
  BY <1>1, <1>2 DEF TypeOK, Tabs
<1>4. \/ cache' = [leaves |-> leaves, last |-> newest] /\ tampered' = FALSE
      \/ UNCHANGED <<cache, tampered>>
  BY DEF Return, SaveCache
<1>5. Leaves' = Leaves /\ Dated'
  BY <1>1, ChainUnchanged
<1>6. tab.n \in 0..Len(landed)
  <2>1. tab.n \in Nat
    BY <1>1 DEF TypeOK, Tabs
  <2> QED BY <1>1, <2>1, LeavesOfDeposits DEF ReadBehind
<1>7. TypeOK'
  <2>1. [leaves |-> leaves, last |-> newest] \in Caches
    BY DEF Caches
  <2>2. cache' \in Caches /\ tampered' \in BOOLEAN
    BY <1>1, <1>4, <2>1 DEF TypeOK
  <2> QED BY <1>1, <1>3, <2>2 DEF TypeOK
<1>8. ReadBehind' /\ CheckedLength' /\ CompleteHistoryRebuilds'
  BY <1>1, <1>3 DEF ReadBehind, CheckedLength, CompleteHistoryRebuilds
<1>9. TreeOpensToTheChain'
  <2>1. PICK k \in 0..Len(Leaves) :
           /\ tab.n - k \in 0..(RingSize - 1)
           /\ RootOf(leaves) = RootOf(SubSeq(Leaves, 1, k))
    BY <1>1, <1>6, MatchingRoot
  <2>2. RootOf(tab'.tree) = RootOf(SubSeq(Leaves', 1, k))
    BY <1>3, <1>5, <2>1
  <2>3. k \in 0..Len(Leaves') /\ tab'.n - k \in 0..(RingSize - 1)
    BY <1>3, <1>5, <2>1
  <2> QED BY <2>2, <2>3 DEF TreeOpensToTheChain, RootOf
<1>10. Zero \notin ToSet(Leaves) \cup ToSet(leaves)
          => leaves = SubSeq(Leaves, 1, tab.n)
  BY <1>1, <1>6, MatchingLeaves
<1>11. LeavesAreTheChains'
  <2>1. Zero \notin ToSet(Leaves) \cup ToSet(tab.cached.leaves)
           => leaves = SubSeq(Leaves, 1, tab.n)
    BY <1>10
  <2> QED BY <1>3, <1>5, <2>1 DEF LeavesAreTheChains, ToSet
<1>12. CacheIsAPrefix'
  <2>1. CASE UNCHANGED <<cache, tampered>>
    BY <1>1, <1>5, <2>1 DEF CacheIsAPrefix, ToSet, IsPrefix
  <2>2. CASE cache' = [leaves |-> leaves, last |-> newest]
    <3>1. cache'.leaves = leaves
      BY <2>2
    <3>2. Len(leaves) = tab.n /\ tab.n <= Len(Leaves)
      BY <1>6, <1>1, LeavesOfDeposits DEF TreeMatchesPool
    <3>3. SubSeq(leaves, 1, Len(leaves)) = leaves
      OBVIOUS
    <3>4. Zero \notin ToSet(Leaves) \cup ToSet(leaves) => IsPrefix(leaves, Leaves)
      BY <1>10, <3>2, <3>3 DEF IsPrefix
    <3> QED BY <1>5, <3>1, <3>4 DEF CacheIsAPrefix, ToSet, IsPrefix
  <2> QED BY <1>4, <2>1, <2>2
<1> QED
  BY <1>5, <1>7, <1>8, <1>9, <1>11, <1>12 DEF IInv

\* A step that returns nothing keeps the invariant, when it fails only what
\* was not given the whole history and when it keeps or clears the cache.
LEMMA GoOnKeeps ==
    ASSUME IInv, UNCHANGED <<tip, landed>>,
           NEW pc \in {"rescan", "retry", "failed"}, NEW faithful \in BOOLEAN,
           tab' = [tab EXCEPT !.pc = pc, !.faithful = faithful],
           pc = "failed" => ~faithful,
           ClearCache \/ UNCHANGED <<cache, tampered>>
    PROVE  IInv'
<1>1. /\ TypeOK /\ Dated /\ ReadBehind /\ CacheIsAPrefix
  BY DEF IInv
<1>2. /\ tab'.pc = pc /\ tab'.n = tab.n /\ tab'.faithful = faithful
      /\ tab' \in Tabs
  BY <1>1 DEF TypeOK, Tabs
<1>3. Leaves' = Leaves /\ Dated'
  BY <1>1, ChainUnchanged
<1>4. TypeOK'
  <2>1. NoCache \in Caches
    BY DEF NoCache, NoSignature, Caches
  <2> QED BY <1>1, <1>2, <2>1 DEF TypeOK, ClearCache
<1>5. /\ ReadBehind' /\ CheckedLength' /\ CompleteHistoryRebuilds'
      /\ TreeOpensToTheChain' /\ LeavesAreTheChains'
  BY <1>1, <1>2 DEF ReadBehind, CheckedLength, CompleteHistoryRebuilds,
                    TreeOpensToTheChain, LeavesAreTheChains
<1>6. CacheIsAPrefix'
  <2>1. CASE UNCHANGED <<cache, tampered>>
    BY <1>1, <1>3, <2>1 DEF CacheIsAPrefix, ToSet, IsPrefix
  <2>2. CASE ClearCache
    <3>1. cache'.leaves = <<>>
      BY <2>2 DEF ClearCache, NoCache
    <3>2. IsPrefix(<<>>, Leaves)
      BY <1>1, LeavesOfDeposits DEF IsPrefix
    <3> QED BY <1>3, <3>1, <3>2 DEF CacheIsAPrefix, IsPrefix
  <2> QED BY <2>1, <2>2
<1> QED
  BY <1>3, <1>4, <1>5, <1>6 DEF IInv

\* A conclusion returns, fails, or goes on to the retry.
LEMMA ConcludeKeeps ==
    ASSUME IInv, UNCHANGED <<tip, landed>>,
           NEW leaves \in Seq(AllLeaves), NEW newest \in Nat,
           NEW faithful \in BOOLEAN,
           Zero \notin ToSet(Leaves) \cup ToSet(tab.cached.leaves)
               => Zero \notin ToSet(leaves),
           tab.cached.leaves = <<>> /\ faithful => TreeMatchesPool(leaves, tab.n),
           Conclude(leaves, newest, faithful)
    PROVE  IInv'
<1>1. CASE TreeMatchesPool(leaves, tab.n)
  <2>1. Return(leaves, newest, faithful)
    BY <1>1 DEF Conclude
  <2> QED BY <1>1, <2>1, ReturnKeeps
<1>2. CASE ~TreeMatchesPool(leaves, tab.n) /\ tab.cached.leaves = <<>>
  <2>1. Throw(faithful) /\ ~faithful
    BY <1>2 DEF Conclude
  <2> QED BY <2>1, GoOnKeeps DEF Throw
<1>3. CASE ~TreeMatchesPool(leaves, tab.n) /\ tab.cached.leaves # <<>>
  <2>1. tab' = [tab EXCEPT !.pc = "retry", !.faithful = faithful] /\ ClearCache
    BY <1>3 DEF Conclude
  <2> QED BY <2>1, GoOnKeeps
<1> QED
  BY <1>1, <1>2, <1>3

\* The newest signature of an answer is one.
LEMMA NewestIsASignature ==
    ASSUME TypeOK, NEW answer \in Answers
    PROVE  Newest(answer) \in Nat
<1> DEFINE Between(lo, hi) == [listed : {lo..hi}, seen : SUBSET (lo..hi)]
<1>1. PICK lo \in 1..(tip + 1), hi \in 0..tip : answer \in Between(lo, hi)
  <2>1. answer \in UNION {Between(lo, hi) : lo \in 1..(tip + 1), hi \in 0..tip}
    BY DEF Answers
  <2> HIDE DEF Between
  <2> QED BY <2>1
<1>2. lo \in Nat /\ hi \in Nat /\ answer.listed = lo..hi
  BY <1>1 DEF TypeOK
<1> DEFINE S == {0} \cup (lo..hi)
<1>3. \E x \in S : \A y \in S : x >= y
  <2>1. CASE lo <= hi
    <3>1. hi \in S /\ \A y \in S : hi >= y
      BY <1>2, <2>1
    <3> QED BY <3>1
  <2>2. CASE hi < lo
    <3>1. 0 \in S /\ \A y \in S : 0 >= y
      BY <1>2, <2>2
    <3> QED BY <3>1
  <2> QED BY <1>2, <2>1, <2>2
<1>4. \A x \in S : x \in Nat
  BY <1>2
<1>5. Max(S) \in S
  <2> HIDE DEF S
  <2> QED BY <1>3 DEF Max
<1>6. Newest(answer) = Max(S)
  BY <1>2 DEF Newest, NoSignature
<1> QED
  BY <1>4, <1>5, <1>6

\* A full scan concludes with the leaves of the chain alone.
LEMMA FullScanConcludes ==
    ASSUME IInv, NEW answer \in Answers
    PROVE  /\ Assemble(<<>>, answer.seen, tab.n) \in Seq(AllLeaves)
           /\ Newest(answer) \in Nat
           /\ Faithful(answer, NoSignature) \in BOOLEAN
           /\ Zero \notin ToSet(Leaves)
                 => Zero \notin ToSet(Assemble(<<>>, answer.seen, tab.n))
           /\ Faithful(answer, NoSignature)
                 => TreeMatchesPool(Assemble(<<>>, answer.seen, tab.n), tab.n)
<1>1. TypeOK /\ Dated /\ ReadBehind /\ tab.n \in Nat /\ tab.faithful \in BOOLEAN
  BY DEF IInv, TypeOK, Tabs
<1>2. <<>> \in Seq(AllLeaves) /\ ToSet(<<>>) = {}
  BY DEF ToSet
<1>3. Assemble(<<>>, answer.seen, tab.n) \in Seq(AllLeaves)
  <2>1. \A i \in 1..Len(landed) : landed[i].leaf \in AllLeaves
    BY <1>1, LeavesOfDeposits
  <2> QED BY <1>1, <1>2, <2>1, AssembleTakesLeaves
<1>4. Newest(answer) \in Nat
  BY <1>1, NewestIsASignature
<1>5. Zero \notin ToSet(Leaves)
         => Zero \notin ToSet(Assemble(<<>>, answer.seen, tab.n))
  BY <1>1, <1>2, AssembleAddsNoZero
<1>6. ASSUME Faithful(answer, NoSignature)
      PROVE  TreeMatchesPool(Assemble(<<>>, answer.seen, tab.n), tab.n)
  <2>1. NoLateUnindexed /\ (NoSignature + 1)..tip \subseteq answer.seen
    BY <1>6 DEF Faithful, Complete
  <2>2. 1..tip \subseteq answer.seen
    BY <2>1 DEF NoSignature
  <2> QED BY <1>1, <2>1, <2>2, FullScanMatches
<1>7. Faithful(answer, NoSignature) \in BOOLEAN
  BY <1>1 DEF Faithful, Complete, NoLateUnindexed
<1> QED
  BY <1>3, <1>4, <1>5, <1>6, <1>7

\* A rebuild starts from an account and a cache that are as they were.
LEMMA ReadPoolKeeps ==
    ASSUME IInv, ReadPool
    PROVE  IInv'
<1>1. TypeOK /\ Dated /\ ReadBehind /\ CacheIsAPrefix
  BY DEF IInv
<1>2. PICK k \in 0..tip :
         LET n == Cardinality({i \in DOMAIN landed : landed[i].tx <= k})
         IN tab' = [Idle EXCEPT !.n = n, !.cached = cache,
                    !.pc = IF Len(cache.leaves) = n THEN "check" ELSE "scan"]
  BY DEF ReadPool
<1> DEFINE X == {i \in DOMAIN landed : landed[i].tx <= k}
           n == Cardinality(X)
<1>3. n \in Nat /\ n <= Len(landed)
  <2> DEFINE L == Len(landed)
  <2>0. L \in Nat
    BY <1>1, LeavesOfDeposits
  <2>1. IsFiniteSet(1..L) /\ Cardinality(1..L) = L
    <3> HIDE DEF L
    <3> QED BY <2>0, FS_Interval
  <2>2. X \in SUBSET (1..Len(landed))
    BY <1>1, LeavesOfDeposits
  <2> HIDE DEF X
  <2> QED BY <2>1, <2>2, FS_Subset, FS_CardinalityType
<1>4. tab' = [Idle EXCEPT !.n = n, !.cached = cache,
              !.pc = IF Len(cache.leaves) = n THEN "check" ELSE "scan"]
  BY <1>2
<1> HIDE DEF n, X
<1>5. /\ tab'.n = n /\ tab'.cached = cache
      /\ tab'.pc = IF Len(cache.leaves) = n THEN "check" ELSE "scan"
  BY <1>4 DEF Idle
<1>6. tab' \in Tabs
  <2>1. <<>> \in Seq(AllLeaves) /\ cache \in Caches
    BY <1>1 DEF TypeOK
  <2> QED BY <1>3, <1>4, <2>1 DEF Idle, Tabs
<1>7. UNCHANGED <<tip, landed, cache, tampered>>
  BY DEF ReadPool
<1>8. Leaves' = Leaves /\ Dated'
  BY <1>1, <1>7, ChainUnchanged
<1>9. TypeOK' /\ ReadBehind' /\ CheckedLength'
  BY <1>1, <1>3, <1>5, <1>6, <1>7 DEF TypeOK, ReadBehind, CheckedLength
<1>10. TreeOpensToTheChain' /\ LeavesAreTheChains' /\ CompleteHistoryRebuilds'
  BY <1>5 DEF TreeOpensToTheChain, LeavesAreTheChains, CompleteHistoryRebuilds
<1>11. CacheIsAPrefix'
  BY <1>1, <1>7, <1>8 DEF CacheIsAPrefix, ToSet, IsPrefix
<1> QED
  BY <1>8, <1>9, <1>10, <1>11 DEF IInv

\* An empty cache is checked against an empty pool, which it matches.
LEMMA CheckCachedKeeps ==
    ASSUME IInv, CheckCached
    PROVE  IInv'
<1>1. TypeOK /\ CheckedLength /\ tab.pc = "check"
  BY DEF IInv, CheckCached
<1>2. /\ tab.cached.leaves \in Seq(AllLeaves) /\ tab.cached.last \in Nat
      /\ tab.faithful \in BOOLEAN
  BY <1>1 DEF TypeOK, Tabs, Caches
<1>3. tab.cached.leaves = <<>> => TreeMatchesPool(tab.cached.leaves, tab.n)
  <2> SUFFICES ASSUME tab.cached.leaves = <<>>
               PROVE  TreeMatchesPool(<<>>, tab.n)
    OBVIOUS
  <2>1. tab.n = 0
    BY <1>1 DEF CheckedLength
  <2> QED BY <1>1, <2>1, EmptyMatchesEmpty
<1>4. /\ Conclude(tab.cached.leaves, tab.cached.last, tab.faithful)
      /\ UNCHANGED <<tip, landed>>
  BY DEF CheckCached
<1> QED
  BY <1>2, <1>3, <1>4, ConcludeKeeps

\* With no cache, the incremental scan is a full one.
LEMMA ScanKeeps ==
    ASSUME IInv, Scan
    PROVE  IInv'
<1>1. /\ TypeOK /\ Dated /\ ReadBehind /\ UNCHANGED <<tip, landed>>
  BY DEF IInv, Scan
<1>2. /\ tab.cached.leaves \in Seq(AllLeaves) /\ tab.cached.last \in Nat
      /\ tab.faithful \in BOOLEAN /\ tab.n \in Nat
  BY <1>1 DEF TypeOK, Tabs, Caches
<1>3. PICK answer \in Answers :
         LET until  == tab.cached.last
             dense  == Assemble(tab.cached.leaves, answer.seen, tab.n)
             newest == IF answer.listed = {} THEN until ELSE Newest(answer)
             ok     == Faithful(answer, until)
         IN IF NeedsRescan(dense)
            THEN tab' = [tab EXCEPT !.pc = "rescan", !.faithful = ok] /\ ClearCache
            ELSE Conclude(dense, newest, ok)
  BY DEF Scan
<1> DEFINE dense == Assemble(tab.cached.leaves, answer.seen, tab.n)
           newest == IF answer.listed = {} THEN tab.cached.last ELSE Newest(answer)
           ok == Faithful(answer, tab.cached.last)
<1>4. newest \in Nat
  BY <1>1, <1>2, NewestIsASignature
<1>5. ok \in BOOLEAN
  BY <1>2 DEF Faithful, Complete, NoLateUnindexed
<1>6. dense \in Seq(AllLeaves)
  <2>1. \A i \in 1..Len(landed) : landed[i].leaf \in AllLeaves
    BY <1>1, LeavesOfDeposits
  <2> QED BY <1>1, <1>2, <2>1, AssembleTakesLeaves
<1>7. Zero \notin ToSet(Leaves) \cup ToSet(tab.cached.leaves)
         => Zero \notin ToSet(dense)
  BY <1>1, <1>2, AssembleAddsNoZero
<1>8. CASE NeedsRescan(dense)
  <2>1. tab' = [tab EXCEPT !.pc = "rescan", !.faithful = ok] /\ ClearCache
    BY <1>3, <1>8
  <2> HIDE DEF ok
  <2> QED BY <1>1, <1>5, <2>1, GoOnKeeps
<1>9. CASE ~NeedsRescan(dense)
  <2>1. Conclude(dense, newest, ok)
    BY <1>3, <1>9
  <2>2. ASSUME tab.cached.leaves = <<>>, ok
        PROVE  TreeMatchesPool(dense, tab.n)
    <3>1. NoLateUnindexed
      BY <2>2 DEF Faithful
    <3>2. dense = Assemble(<<>>, answer.seen, tab.n)
      BY <2>2
    <3>3. Len(dense) = tab.n
      BY <1>9 DEF NeedsRescan
    <3> HIDE DEF dense
    <3> QED BY <1>1, <3>1, <3>2, <3>3, FullScanMatches
  <2> HIDE DEF dense, newest, ok
  <2> QED BY <1>1, <1>4, <1>5, <1>6, <1>7, <2>1, <2>2, ConcludeKeeps
<1> QED
  BY <1>8, <1>9

\* The full scan concludes like any other, with no cache under it.
LEMMA FullScanKeeps ==
    ASSUME IInv, FullScan
    PROVE  IInv'
<1>1. UNCHANGED <<tip, landed>>
  BY DEF FullScan
<1>2. PICK answer \in Answers :
         Conclude(Assemble(<<>>, answer.seen, tab.n), Newest(answer),
                  Faithful(answer, NoSignature))
  BY DEF FullScan
<1> DEFINE leaves == Assemble(<<>>, answer.seen, tab.n)
           ok == Faithful(answer, NoSignature)
<1>3. /\ leaves \in Seq(AllLeaves) /\ Newest(answer) \in Nat /\ ok \in BOOLEAN
      /\ Zero \notin ToSet(Leaves) => Zero \notin ToSet(leaves)
      /\ ok => TreeMatchesPool(leaves, tab.n)
  BY FullScanConcludes
<1>4. Conclude(leaves, Newest(answer), ok)
  BY <1>2
<1> HIDE DEF leaves, ok
<1> QED
  BY <1>1, <1>3, <1>4, ConcludeKeeps

\* The last attempt fails only when history was missing.
LEMMA RetryWithoutCacheKeeps ==
    ASSUME IInv, RetryWithoutCache
    PROVE  IInv'
<1>1. UNCHANGED <<tip, landed>>
  BY DEF RetryWithoutCache
<1>2. PICK answer \in Answers :
         LET leaves == Assemble(<<>>, answer.seen, tab.n)
             ok     == Faithful(answer, NoSignature)
         IN IF TreeMatchesPool(leaves, tab.n)
            THEN Return(leaves, Newest(answer), ok)
            ELSE Throw(ok)
  BY DEF RetryWithoutCache
<1> DEFINE leaves == Assemble(<<>>, answer.seen, tab.n)
           ok == Faithful(answer, NoSignature)
<1>3. /\ leaves \in Seq(AllLeaves) /\ Newest(answer) \in Nat /\ ok \in BOOLEAN
      /\ Zero \notin ToSet(Leaves) => Zero \notin ToSet(leaves)
      /\ ok => TreeMatchesPool(leaves, tab.n)
  BY FullScanConcludes
<1>4. IF TreeMatchesPool(leaves, tab.n)
      THEN Return(leaves, Newest(answer), ok) ELSE Throw(ok)
  BY <1>2
<1> HIDE DEF leaves, ok
<1>5. CASE TreeMatchesPool(leaves, tab.n)
  BY <1>1, <1>3, <1>4, <1>5, ReturnKeeps
<1>6. CASE ~TreeMatchesPool(leaves, tab.n)
  BY <1>1, <1>3, <1>4, <1>6, GoOnKeeps DEF Throw
<1> QED
  BY <1>5, <1>6

\* A rebuild whose node failed was not given the whole history.
LEMMA RpcFailsKeeps ==
    ASSUME IInv, RpcFails
    PROVE  IInv'
<1>1. Throw(FALSE) /\ UNCHANGED <<tip, landed>>
  BY DEF RpcFails
<1> QED
  BY <1>1, GoOnKeeps DEF Throw

\* The next rebuild starts from nothing.
LEMMA LeaveKeeps ==
    ASSUME IInv, Leave
    PROVE  IInv'
<1>1. TypeOK /\ Dated /\ CacheIsAPrefix
  BY DEF IInv
<1>2. tab' = Idle /\ UNCHANGED <<tip, landed, cache, tampered>>
  BY DEF Leave
<1>3. Leaves' = Leaves /\ Dated'
  BY <1>1, <1>2, ChainUnchanged
<1>4. Idle \in Tabs /\ Idle.n = 0 /\ Idle.pc = "idle"
  <2>1. NoCache \in Caches
    BY DEF NoCache, NoSignature, Caches
  <2> QED BY <2>1 DEF Idle, Tabs
<1>5. TypeOK'
  BY <1>1, <1>2, <1>4 DEF TypeOK
<1>6. ReadBehind'
  BY <1>1, <1>2, <1>4, LeavesOfDeposits DEF ReadBehind
<1>7. /\ CheckedLength' /\ TreeOpensToTheChain' /\ LeavesAreTheChains'
      /\ CompleteHistoryRebuilds'
  BY <1>2, <1>4 DEF CheckedLength, TreeOpensToTheChain, LeavesAreTheChains,
                    CompleteHistoryRebuilds
<1>8. CacheIsAPrefix'
  BY <1>1, <1>2, <1>3 DEF CacheIsAPrefix, ToSet, IsPrefix
<1> QED
  BY <1>3, <1>5, <1>6, <1>7, <1>8 DEF IInv

-----------------------------------------------------------------------------
(* The chain grows, and the cache is corrupted.                            *)

\* What a transaction adds to the leaves of the pool.
LEMMA DepositsOfATransaction ==
    ASSUME NEW t \in Transactions, NEW signature \in Nat
    PROVE  /\ DepositInstructions(t, signature) \in Seq(Deposits)
           /\ \A j \in 1..Len(DepositInstructions(t, signature)) :
                 DepositInstructions(t, signature)[j].tx = signature
<1> DEFINE D == DOMAIN t.deposits
           ks == {k \in D : ~t.err /\ t.deposits[k].pool = ThisPool}
           N == Cardinality(ks)
           at == Ascending(ks)
           entry(i) == [leaf |-> t.deposits[i].leaf, tx |-> signature,
                        event |-> i <= t.events]
<1>1. D = 1..Len(t.deposits) /\ Len(t.deposits) \in Nat
  BY TransactionsAssumption DEF IsSequence
<1>2. IsFiniteSet(D) /\ D \in SUBSET Nat
  <2>1. IsFiniteSet(1..Len(t.deposits))
    BY <1>1, FS_Interval
  <2>2. D \in SUBSET Nat
    BY <1>1
  <2> QED BY <1>1, <2>1, <2>2
<1>3. ks \in SUBSET D
  OBVIOUS
<1>4. IsFiniteSet(ks) /\ ks \in SUBSET Nat /\ N \in Nat
  <2> HIDE DEF ks, D
  <2> QED BY <1>2, <1>3, FS_Subset, FS_CardinalityType
<1>5. at \in [1..N -> ks]
  <2> HIDE DEF ks
  <2> QED BY <1>4, AscendingIsOrdered
<1>6. DepositInstructions(t, signature) =
         [j \in DOMAIN at |-> [leaf  |-> t.deposits[at[j]].leaf,
                               tx    |-> signature,
                               event |-> at[j] <= t.events]]
  BY DEF DepositInstructions
<1>7. \A i \in ks : entry(i) \in Deposits /\ entry(i).tx = signature
  <2> SUFFICES ASSUME NEW i \in ks
               PROVE  entry(i) \in Deposits /\ entry(i).tx = signature
    OBVIOUS
  <2>1. t.deposits[i].leaf \in AllLeaves
    <3> DEFINE Of(s) == {s.deposits[k].leaf : k \in DOMAIN s.deposits}
    <3>1. t.deposits[i].leaf \in Of(t)
      OBVIOUS
    <3>2. UNION {Of(s) : s \in Transactions} \subseteq AllLeaves
      BY DEF AllLeaves
    <3> HIDE DEF Of
    <3> QED BY <3>1, <3>2
  <2>2. (i <= t.events) \in BOOLEAN
    BY <1>4, TransactionsAssumption
  <2> QED BY <2>1, <2>2 DEF Deposits
<1> HIDE DEF ks, N, at
<1>8. DepositInstructions(t, signature) = [j \in 1..N |-> entry(at[j])]
  BY <1>5, <1>6
<1> HIDE DEF entry
<1> DEFINE found == DepositInstructions(t, signature)
<1>9. \A j \in 1..N : found[j] \in Deposits /\ found[j].tx = signature
  BY <1>5, <1>7, <1>8
<1>10. found \in Seq(Deposits) /\ Len(found) = N
  BY <1>4, <1>8, <1>9
<1> QED
  BY <1>9, <1>10

\* A longer chain has the same leaves where it had leaves.
LEMMA LandKeeps ==
    ASSUME IInv, Land
    PROVE  IInv'
<1>1. /\ TypeOK /\ Dated /\ ReadBehind /\ CheckedLength
      /\ TreeOpensToTheChain /\ LeavesAreTheChains /\ CompleteHistoryRebuilds
      /\ CacheIsAPrefix
  BY DEF IInv
<1>2. tip' = tip + 1 /\ tip \in Nat /\ UNCHANGED <<cache, tampered, tab>>
  BY <1>1 DEF Land, TypeOK
<1>3. PICK t \in Transactions : landed' = landed \o DepositInstructions(t, tip')
  BY DEF Land
<1> DEFINE more == DepositInstructions(t, tip')
           L == Len(landed)
<1>4. more \in Seq(Deposits) /\ \A j \in 1..Len(more) : more[j].tx = tip'
  BY <1>2, DepositsOfATransaction
<1>5. landed \in Seq(Deposits) /\ L \in Nat
  BY <1>1 DEF TypeOK
<1> HIDE DEF more
<1>6. /\ landed' \in Seq(Deposits) /\ Len(landed') = L + Len(more)
      /\ Len(more) \in Nat
      /\ \A i \in 1..L : landed'[i] = landed[i]
      /\ \A i \in L + 1..L + Len(more) : landed'[i] = more[i - L]
  BY <1>3, <1>4, <1>5 DEF more
<1>7. TypeOK'
  BY <1>1, <1>2, <1>6 DEF TypeOK
<1>8. Dated'
  <2> SUFFICES ASSUME NEW i \in DOMAIN landed' PROVE landed'[i].tx \in 1..tip'
    BY DEF Dated
  <2>1. i \in 1..L + Len(more)
    BY <1>6
  <2>2. CASE i \in 1..L
    <3>1. landed[i].tx \in 1..tip
      BY <1>1, <1>5, <2>2 DEF Dated
    <3> QED BY <3>1, <2>2, <1>2, <1>6
  <2>3. CASE i \in L + 1..L + Len(more)
    <3>1. i - L \in 1..Len(more)
      BY <2>3, <1>5, <1>6
    <3> QED BY <3>1, <2>3, <1>2, <1>4, <1>6
  <2> QED BY <2>1, <2>2, <2>3, <1>5, <1>6
\* The leaves of before are those of now, up to where they went.
<1>9. /\ Leaves \in Seq(AllLeaves) /\ Len(Leaves) = L
      /\ \A i \in 1..L : Leaves[i] = landed[i].leaf
  BY <1>1, LeavesOfDeposits
<1>10. Leaves' = [i \in 1..Len(landed') |-> landed'[i].leaf]
  BY <1>6 DEF Leaves, LeavesOf
<1>11. /\ Leaves' \in Seq(AllLeaves) /\ Len(Leaves') = L + Len(more)
       /\ \A i \in 1..L : Leaves'[i] = Leaves[i]
  <2>1. \A i \in 1..Len(landed') : landed'[i].leaf \in AllLeaves
    <3> SUFFICES ASSUME NEW i \in 1..Len(landed')
                 PROVE  landed'[i].leaf \in AllLeaves
      OBVIOUS
    <3>1. landed'[i] \in Deposits
      BY <1>6
    <3> QED BY <3>1 DEF Deposits
  <2> QED BY <1>5, <1>6, <1>9, <1>10, <2>1
<1>12. \A k \in 0..L : SubSeq(Leaves', 1, k) = SubSeq(Leaves, 1, k)
  <2> SUFFICES ASSUME NEW k \in 0..L
               PROVE  SubSeq(Leaves', 1, k) = SubSeq(Leaves, 1, k)
    OBVIOUS
  <2>1. SubSeq(Leaves, 1, k) = [i \in 1..k |-> Leaves[i]]
    BY <1>5, <1>9
  <2>2. SubSeq(Leaves', 1, k) = [i \in 1..k |-> Leaves'[i]]
    BY <1>5, <1>6, <1>11
  <2> QED BY <2>1, <2>2, <1>5, <1>11
<1>13. Zero \notin ToSet(Leaves') => Zero \notin ToSet(Leaves)
  BY <1>5, <1>6, <1>9, <1>11 DEF ToSet
<1> HIDE DEF L
<1>14. tab.n \in 0..L
  <2>1. tab.n \in Nat
    BY <1>1 DEF TypeOK, Tabs
  <2> QED BY <1>1, <1>5, <2>1 DEF ReadBehind, L
<1>15. ReadBehind' /\ CheckedLength' /\ CompleteHistoryRebuilds'
  BY <1>1, <1>2, <1>5, <1>6, <1>14
     DEF ReadBehind, CheckedLength, CompleteHistoryRebuilds
<1>16. TreeOpensToTheChain'
  <2> SUFFICES ASSUME tab.pc = "done"
               PROVE  \E k \in 0..Len(Leaves') :
                         /\ tab.n - k \in 0..(RingSize - 1)
                         /\ RootOf(tab.tree) = RootOf(SubSeq(Leaves', 1, k))
    BY <1>2 DEF TreeOpensToTheChain, RootOf
  <2>1. PICK k \in 0..Len(Leaves) :
           /\ tab.n - k \in 0..(RingSize - 1)
           /\ RootOf(tab.tree) = RootOf(SubSeq(Leaves, 1, k))
    BY <1>1 DEF TreeOpensToTheChain
  <2>2. k \in 0..Len(Leaves') /\ k \in 0..L
    BY <1>5, <1>6, <1>9, <1>11
  <2>3. SubSeq(Leaves', 1, k) = SubSeq(Leaves, 1, k)
    BY <2>2, <1>12
  <2> QED BY <2>1, <2>2, <2>3
<1>17. LeavesAreTheChains'
  <2>1. SubSeq(Leaves', 1, tab.n) = SubSeq(Leaves, 1, tab.n)
    BY <1>12, <1>14
  <2> QED BY <1>1, <1>2, <1>13, <2>1 DEF LeavesAreTheChains, ToSet
<1>18. CacheIsAPrefix'
  <2> SUFFICES ASSUME ~tampered, Zero \notin ToSet(Leaves') \cup ToSet(cache.leaves)
               PROVE  IsPrefix(cache.leaves, Leaves')
    BY <1>2 DEF CacheIsAPrefix, ToSet, IsPrefix
  <2>1. IsPrefix(cache.leaves, Leaves)
    BY <1>1, <1>13 DEF CacheIsAPrefix
  <2>2. cache.leaves \in Seq(AllLeaves)
    BY <1>1 DEF TypeOK, Caches
  <2>3. Len(cache.leaves) \in 0..L
    BY <2>1, <2>2, <1>5, <1>9 DEF IsPrefix
  <2> QED BY <2>1, <2>3, <1>5, <1>6, <1>9, <1>11, <1>12 DEF IsPrefix
<1> QED
  BY <1>7, <1>8, <1>15, <1>16, <1>17, <1>18 DEF IInv

\* A corrupted entry is a list of leaves, of which nothing is promised.
LEMMA TamperKeeps ==
    ASSUME IInv, Tamper
    PROVE  IInv'
<1>1. /\ TypeOK /\ Dated
  BY DEF IInv
<1>2. PICK leaves \in TamperedLeaves, last \in 0..MaxChain :
         cache' = [leaves |-> leaves, last |-> last]
  BY DEF Tamper
<1>3. tampered' = TRUE /\ UNCHANGED <<tip, landed, tab>>
  BY DEF Tamper
<1>4. cache' \in Caches
  <2>1. leaves \in Seq(ToSet(leaves))
    BY TamperedAssumption DEF IsSequence
  <2>2. \A i \in 1..Len(leaves) : leaves[i] \in AllLeaves
    <3> DEFINE Of(s) == {s.deposits[k].leaf : k \in DOMAIN s.deposits}
               landable == UNION {Of(s) : s \in Transactions}
               kept == UNION {ToSet(list) : list \in TamperedLeaves}
    <3>1. AllLeaves = landable \cup kept
      BY DEF AllLeaves
    <3>2. ToSet(leaves) \subseteq AllLeaves
      <4>1. ToSet(leaves) \subseteq kept
        OBVIOUS
      <4> HIDE DEF landable, kept
      <4> QED BY <3>1, <4>1
    <3> QED BY <2>1, <3>2 DEF ToSet
  <2>3. leaves \in Seq(AllLeaves)
    BY <2>1, <2>2
  <2>4. last \in Nat
    BY BoundsAssumption
  <2> QED BY <1>2, <2>3, <2>4 DEF Caches
<1>5. TypeOK' /\ Dated'
  BY <1>1, <1>3, <1>4, ChainUnchanged DEF TypeOK
<1>6. /\ ReadBehind' /\ CheckedLength' /\ CompleteHistoryRebuilds'
      /\ TreeOpensToTheChain' /\ LeavesAreTheChains'
  <2>1. Leaves' = Leaves
    BY <1>3, ChainUnchanged
  <2>2. ReadBehind' /\ CheckedLength' /\ CompleteHistoryRebuilds'
    BY <1>3 DEF IInv, ReadBehind, CheckedLength, CompleteHistoryRebuilds
  <2>3. TreeOpensToTheChain'
    BY <1>3, <2>1 DEF IInv, TreeOpensToTheChain, RootOf
  <2>4. LeavesAreTheChains'
    BY <1>3, <2>1 DEF IInv, LeavesAreTheChains, ToSet
  <2> QED BY <2>2, <2>3, <2>4
<1>7. CacheIsAPrefix'
  BY <1>3 DEF CacheIsAPrefix
<1> QED
  BY <1>5, <1>6, <1>7 DEF IInv

-----------------------------------------------------------------------------
(* The theorems.                                                           *)

\* The empty pool, with nothing cached.
LEMMA InvariantInit ==
    ASSUME Init
    PROVE  IInv
<1>1. /\ tip = 0 /\ landed = <<>> /\ cache = NoCache /\ tampered = FALSE
      /\ tab = Idle
  BY DEF Init
<1>2. NoCache \in Caches /\ NoCache.leaves = <<>>
  BY DEF NoCache, NoSignature, Caches
<1>3. Idle \in Tabs /\ Idle.n = 0 /\ Idle.pc = "idle"
  BY <1>2 DEF Idle, Tabs
<1>4. TypeOK
  <2>1. <<>> \in Seq(Deposits)
    OBVIOUS
  <2> QED BY <1>1, <1>2, <1>3, <2>1 DEF TypeOK
<1>5. Dated /\ ReadBehind /\ CheckedLength
  BY <1>1, <1>3 DEF Dated, ReadBehind, CheckedLength
<1>6. TreeOpensToTheChain /\ LeavesAreTheChains /\ CompleteHistoryRebuilds
  BY <1>1, <1>3
     DEF TreeOpensToTheChain, LeavesAreTheChains, CompleteHistoryRebuilds
<1>7. CacheIsAPrefix
  <2>1. IsPrefix(<<>>, Leaves)
    BY <1>4, LeavesOfDeposits DEF IsPrefix
  <2> QED BY <1>1, <1>2, <2>1 DEF CacheIsAPrefix
<1> QED
  BY <1>4, <1>5, <1>6, <1>7 DEF IInv

\* A step that changes nothing.
LEMMA StutterKeeps ==
    ASSUME IInv, UNCHANGED vars
    PROVE  IInv'
<1>1. UNCHANGED <<tip, landed, cache, tampered, tab>>
  BY DEF vars
<1>2. Leaves' = Leaves /\ (Dated <=> Dated')
  BY <1>1, ChainUnchanged
<1>3. TypeOK' /\ Dated' /\ ReadBehind' /\ CheckedLength' /\ CompleteHistoryRebuilds'
  BY <1>1, <1>2 DEF IInv, TypeOK, ReadBehind, CheckedLength, CompleteHistoryRebuilds
<1>4. TreeOpensToTheChain'
  BY <1>1, <1>2 DEF IInv, TreeOpensToTheChain, RootOf
<1>5. LeavesAreTheChains'
  BY <1>1, <1>2 DEF IInv, LeavesAreTheChains, ToSet
<1>6. CacheIsAPrefix'
  BY <1>1, <1>2 DEF IInv, CacheIsAPrefix, ToSet, IsPrefix
<1> QED
  BY <1>3, <1>4, <1>5, <1>6 DEF IInv

\* Every step keeps the inductive invariant.
LEMMA InvariantStep ==
    ASSUME IInv, [Next]_vars
    PROVE  IInv'
<1>1. CASE ReadPool
  BY <1>1, ReadPoolKeeps
<1>2. CASE CheckCached
  BY <1>2, CheckCachedKeeps
<1>3. CASE Scan
  BY <1>3, ScanKeeps
<1>4. CASE FullScan
  BY <1>4, FullScanKeeps
<1>5. CASE RetryWithoutCache
  BY <1>5, RetryWithoutCacheKeeps
<1>6. CASE RpcFails
  BY <1>6, RpcFailsKeeps
<1>7. CASE Leave
  BY <1>7, LeaveKeeps
<1>8. CASE Land
  BY <1>8, LandKeeps
<1>9. CASE Tamper
  BY <1>9, TamperKeeps
<1>10. CASE UNCHANGED vars
  BY <1>10, StutterKeeps
<1> QED
  BY <1>1, <1>2, <1>3, <1>4, <1>5, <1>6, <1>7, <1>8, <1>9, <1>10 DEF Next, Rebuild

\* The inductive invariant holds in every reachable state.
THEOREM InvariantHolds == Spec => []IInv
<1>1. Init => IInv
  BY InvariantInit
<1>2. IInv /\ [Next]_vars => IInv'
  BY InvariantStep
<1> QED
  BY <1>1, <1>2, PTL DEF Spec

\* A tree that was verified against the account (verifyTreeMatchesPool,
\* proof.ts:286-298) has a root that the pool keeps: one of its RingSize latest
\* when the account was read, however the node and the cache answered.
THEOREM VerifiedTreesOpen == Spec => []TreeOpensToTheChain
<1>1. IInv => TreeOpensToTheChain
  BY DEF IInv
<1> QED
  BY <1>1, InvariantHolds, PTL

\* The returned leaves are those of the chain, in its order, when no empty leaf
\* was deposited or cached: rebuildMerkleTree can neither miss nor displace one.
THEOREM ReturnedLeavesAreTheChains == Spec => []LeavesAreTheChains
<1>1. IInv => LeavesAreTheChains
  BY DEF IInv
<1> QED
  BY <1>1, InvariantHolds, PTL

\* The cache only affects speed (merkle.ts:385-388): a rebuild that read the
\* whole history never fails, for any content of the cache, because the deposits
\* without an index fill exactly the holes they left.
THEOREM WholeHistoryRebuilds == Spec => []CompleteHistoryRebuilds
<1>1. IInv => CompleteHistoryRebuilds
  BY DEF IInv
<1> QED
  BY <1>1, InvariantHolds, PTL

\* What saveCache wrote stays a prefix of the chain's leaves, however many
\* deposits land between a rebuild and the next.
THEOREM CacheStaysAPrefix == Spec => []CacheIsAPrefix
<1>1. IInv => CacheIsAPrefix
  BY DEF IInv
<1> QED
  BY <1>1, InvariantHolds, PTL
-----------------------------------------------------------------------------
(* A rebuild is short.                                                     *)

\* How many steps a rebuild can still take, each with one scan at most.
StepsLeft ==
    CASE tab.pc = "idle" -> 4
      [] tab.pc = "scan" -> 3
      [] tab.pc \in {"check", "rescan"} -> 2
      [] tab.pc = "retry" -> 1
      [] OTHER -> 0

\* The control of a rebuild, whatever it concludes.
LEMMA RebuildMoves ==
    ASSUME TypeOK, Rebuild
    PROVE  \/ tab.pc = "idle" /\ tab'.pc \in {"check", "scan"}
           \/ tab.pc \in {"scan", "check", "rescan"}
              /\ tab'.pc \in {"retry", "done", "failed"}
           \/ tab.pc = "scan" /\ tab'.pc = "rescan"
           \/ tab.pc = "retry" /\ tab'.pc \in {"done", "failed"}
<1> DEFINE To(pcs) == tab'.pc \in pcs
<1>1. \A pc, faithful :
         tab' = [tab EXCEPT !.pc = pc, !.faithful = faithful] => tab'.pc = pc
  BY DEF TypeOK, Tabs
<1>2. \A leaves, newest, faithful : Return(leaves, newest, faithful) => To({"done"})
  BY DEF Return, TypeOK, Tabs
<1>3. \A faithful : Throw(faithful) => To({"failed"})
  BY <1>1 DEF Throw
<1>4. \A leaves, newest, faithful :
         Conclude(leaves, newest, faithful) => To({"retry", "done", "failed"})
  BY <1>1, <1>2, <1>3 DEF Conclude
<1>5. CASE ReadPool
  <2>1. PICK k \in 0..tip :
         LET n == Cardinality({i \in DOMAIN landed : landed[i].tx <= k})
         IN tab' = [Idle EXCEPT !.n = n, !.cached = cache,
                    !.pc = IF Len(cache.leaves) = n THEN "check" ELSE "scan"]
    BY <1>5 DEF ReadPool
  <2>2. tab'.pc \in {"check", "scan"}
    BY <2>1 DEF Idle
  <2> QED BY <1>5, <2>2 DEF ReadPool
<1>6. CASE CheckCached
  <2>1. To({"retry", "done", "failed"})
    BY <1>4, <1>6 DEF CheckCached
  <2> QED BY <1>6, <2>1 DEF CheckCached
<1>7. CASE Scan
  <2>1. To({"rescan"}) \/ To({"retry", "done", "failed"})
    BY <1>1, <1>4, <1>7 DEF Scan
  <2> QED BY <1>7, <2>1 DEF Scan
<1>8. CASE FullScan
  <2>1. To({"retry", "done", "failed"})
    BY <1>4, <1>8 DEF FullScan
  <2> QED BY <1>8, <2>1 DEF FullScan
<1>9. CASE RetryWithoutCache
  <2>1. To({"done"}) \/ To({"failed"})
    BY <1>2, <1>3, <1>9 DEF RetryWithoutCache
  <2> QED BY <1>9, <2>1 DEF RetryWithoutCache
<1>10. CASE RpcFails
  <2>1. To({"failed"}) /\ tab.pc \in {"scan", "rescan", "retry"}
    BY <1>3, <1>10 DEF RpcFails
  <2> QED BY <2>1
<1> QED
  BY <1>5, <1>6, <1>7, <1>8, <1>9, <1>10 DEF Rebuild

\* A rebuild asks the node at most four times, for the account and in three
\* scans, and ends: no answer of the node, content of the cache or growth of
\* the chain sends it back (merkle.ts:393-457).
RebuildIsBounded ==
    [][/\ Rebuild => StepsLeft' < StepsLeft
       /\ ~Rebuild /\ ~Leave => StepsLeft' = StepsLeft]_vars

THEOREM RebuildsAreShort == Spec => RebuildIsBounded
<1>1. IInv /\ Next => /\ Rebuild => StepsLeft' < StepsLeft
                      /\ ~Rebuild /\ ~Leave => StepsLeft' = StepsLeft
  <2> SUFFICES ASSUME IInv, Next
               PROVE  /\ Rebuild => StepsLeft' < StepsLeft
                      /\ ~Rebuild /\ ~Leave => StepsLeft' = StepsLeft
    OBVIOUS
  <2>1. Rebuild => StepsLeft' < StepsLeft
    BY RebuildMoves DEF IInv, StepsLeft
  <2>2. Land \/ Tamper => StepsLeft' = StepsLeft
    BY DEF Land, Tamper, StepsLeft
  <2> QED BY <2>1, <2>2 DEF Next
<1> QED
  BY <1>1, InvariantHolds, PTL DEF Spec, RebuildIsBounded
=============================================================================
