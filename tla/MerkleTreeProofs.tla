-------------------------- MODULE MerkleTreeProofs --------------------------
(***************************************************************************)
(* Proofs about MerkleTree, for every depth: program, SDK tree and circuit *)
(* path agree with the complete tree over the leaves inserted.             *)
(*                                                                         *)
(* The recursive functions of the model are unfolded, and statements about *)
(* every level proved, by induction over a set of levels (SetInduction).   *)
(***************************************************************************)
EXTENDS MerkleTree, FiniteSetTheorems, SequenceTheorems, TLAPS

-----------------------------------------------------------------------------
(* Induction, and powers of two                                            *)

\* Induction over the naturals, for membership of a set: an unlucky number
\* gives a set of intervals 0..n, whose smallest one has a smaller one.
LEMMA SetInduction ==
    ASSUME NEW S, 0 \in S, \A n \in Nat : n \in S => n + 1 \in S
    PROVE  Nat \subseteq S
<1> SUFFICES ASSUME NEW bad \in Nat, bad \notin S PROVE FALSE
  OBVIOUS
<1> DEFINE T == {0..n : n \in {k \in Nat : k \notin S}}
<1>1. T \subseteq FiniteSubsetsOf(Nat)
  <2> SUFFICES ASSUME NEW n \in Nat PROVE 0..n \in FiniteSubsetsOf(Nat)
    OBVIOUS
  <2>1. IsFiniteSet(0..n)
    BY FS_Interval
  <2> QED BY <2>1 DEF FiniteSubsetsOf
<1>2. T # {}
  OBVIOUS
<1>3. PICK s \in T : \A t \in T : <<t, s>> \notin StrictSubsetOrdering(Nat)
  <2>1. IsWellFoundedOn(StrictSubsetOrdering(Nat), FiniteSubsetsOf(Nat))
    BY FS_StrictSubsetOrderingWellFounded
  <2> HIDE DEF T
  <2> QED BY <2>1, <1>1, <1>2, WFMin
<1>4. PICK n \in Nat : n \notin S /\ s = 0..n
  BY <1>3
<1>5. n - 1 \in Nat /\ n - 1 \notin S
  <2>1. n # 0
    BY <1>4
  <2> QED BY <1>4, <2>1
<1>6. 0..(n - 1) \in T
  BY <1>5
<1>7. <<0..(n - 1), s>> \in StrictSubsetOrdering(Nat)
  <2>1. 0..(n - 1) \subseteq s /\ 0..(n - 1) # s
    BY <1>4
  <2> QED BY <1>4, <2>1 DEF StrictSubsetOrdering
<1> QED
  BY <1>6, <1>7, <1>3

\* The powers of two count subsets, which is how the provers know them.
LEMMA PowerOfTwo ==
    ASSUME NEW n \in Nat
    PROVE  /\ 2 ^ n = Cardinality(SUBSET (1..n))
           /\ 2 ^ n \in Nat
<1>1. IsFiniteSet(1..n) /\ Cardinality(1..n) = n
  BY FS_Interval
<1>2. IsFiniteSet(SUBSET (1..n)) /\ Cardinality(SUBSET (1..n)) = 2 ^ n
  BY <1>1, FS_SUBSET
<1> QED
  BY <1>2, FS_CardinalityType

LEMMA PowerDoubles ==
    ASSUME NEW n \in Nat
    PROVE  2 ^ (n + 1) = 2 * 2 ^ n
<1> DEFINE Old == SUBSET (1..n)
           New == {t \cup {n + 1} : t \in Old}
           Put == [t \in Old |-> t \cup {n + 1}]
<1>1. SUBSET (1..(n + 1)) = Old \cup New
  <2>1. ASSUME NEW t \in SUBSET (1..(n + 1)) PROVE t \in Old \cup New
    <3>1. CASE n + 1 \in t
      <4>1. t \ {n + 1} \in Old /\ t = (t \ {n + 1}) \cup {n + 1}
        BY <3>1
      <4> QED BY <4>1
    <3>2. CASE n + 1 \notin t
      BY <3>2
    <3> QED BY <3>1, <3>2
  <2>2. ASSUME NEW t \in Old \cup New PROVE t \in SUBSET (1..(n + 1))
    <3>1. CASE t \in Old
      BY <3>1
    <3>2. ASSUME NEW u \in Old, t = u \cup {n + 1} PROVE t \subseteq 1..(n + 1)
      BY <3>2
    <3> QED BY <3>1, <3>2
  <2> HIDE DEF Old, New
  <2> QED BY <2>1, <2>2
<1>2. Old \cap New = {}
  OBVIOUS
<1>3. IsFiniteSet(Old) /\ Cardinality(Old) = 2 ^ n /\ 2 ^ n \in Nat
  <2>1. IsFiniteSet(1..n) /\ Cardinality(1..n) = n
    BY FS_Interval
  <2> QED BY <2>1, PowerOfTwo, FS_SUBSET
<1>4. ExistsBijection(Old, New)
  <2>1. Put \in Bijection(Old, New)
    <3>1. Put \in [Old -> New]
      OBVIOUS
    <3>2. ASSUME NEW t \in Old, NEW u \in Old, Put[t] = Put[u] PROVE t = u
      <4>1. t = Put[t] \ {n + 1} /\ u = Put[u] \ {n + 1}
        OBVIOUS
      <4> QED BY <4>1, <3>2
    <3>3. ASSUME NEW v \in New PROVE \E t \in Old : Put[t] = v
      OBVIOUS
    <3> QED BY <3>1, <3>2, <3>3 DEF Bijection, Injection, Surjection, IsInjective
  <2> QED BY <2>1 DEF ExistsBijection
<1>5. IsFiniteSet(New) /\ Cardinality(New) = 2 ^ n
  BY <1>3, <1>4, FS_Bijection
<1>6. Cardinality(Old \cup New) = 2 ^ n + 2 ^ n - Cardinality(Old \cap New)
  BY <1>3, <1>5, FS_Union
<1>7. Cardinality(Old \cap New) = 0
  BY <1>2, FS_EmptySet
<1>8. 2 ^ (n + 1) = Cardinality(SUBSET (1..(n + 1)))
  <2>1. n + 1 \in Nat
    OBVIOUS
  <2> QED BY <2>1, PowerOfTwo
<1> HIDE DEF Old, New
<1>9. Cardinality(Old \cup New) = 2 * 2 ^ n
  BY <1>3, <1>6, <1>7
<1> QED
  BY <1>1, <1>8, <1>9

LEMMA PowerPositive == \A n \in Nat : 2 ^ n \in Nat \ {0}
<1> DEFINE Good == {n \in Nat : 2 ^ n \in Nat \ {0}}
<1>1. 0 \in Good
  OBVIOUS
<1>2. \A n \in Nat : n \in Good => n + 1 \in Good
  BY PowerDoubles
<1> HIDE DEF Good
<1>3. Nat \subseteq Good
  BY <1>1, <1>2, SetInduction
<1> QED
  BY <1>3 DEF Good


-----------------------------------------------------------------------------
(* The recursive functions of the model satisfy their equations            *)

LEMMA ZerosDef ==
    Zeros = [i \in 0 .. Depth |->
        IF i = 0 THEN Zero ELSE PoseidonHash(Zeros[i - 1], Zeros[i - 1])]
<1> DEFINE Step(x, i) ==
               PoseidonHash(x, x)
           Base == Zero
           Good == {n \in Nat : \E z : \A i \in 0..n :
                        z[i] = IF i = 0 THEN Base ELSE Step(z[i - 1], i)}
<1>1. SUFFICES \E z : z = [i \in 0 .. Depth |->
                              IF i = 0 THEN Base ELSE Step(z[i - 1], i)]
  BY DEF Zeros
<1> HIDE DEF Step, Base
<1>2. 0 \in Good
  <2>1. \A i \in 0..0 : [j \in 0..0 |-> Base][i] = Base /\ i = 0
    OBVIOUS
  <2> QED BY <2>1
<1>3. ASSUME NEW n \in Nat, n \in Good PROVE n + 1 \in Good
  <2> PICK z : \A i \in 0..n : z[i] = IF i = 0 THEN Base ELSE Step(z[i - 1], i)
    BY <1>3
  <2> DEFINE y == [i \in 0..(n + 1) |->
                      IF i = n + 1 THEN Step(z[n], n + 1) ELSE z[i]]
  <2>1. \A i \in 0..(n + 1) : y[i] = IF i = 0 THEN Base ELSE Step(y[i - 1], i)
    OBVIOUS
  <2> HIDE DEF y
  <2> QED BY <2>1
<1> HIDE DEF Good
<1>4. Depth \in Good
  BY <1>2, <1>3, SetInduction, TreeAssumption
<1>5. PICK z : \A i \in 0..Depth : z[i] = IF i = 0 THEN Base ELSE Step(z[i - 1], i)
  BY <1>4 DEF Good
<1> DEFINE y == [i \in 0..Depth |-> z[i]]
<1>6. y = [i \in 0..Depth |-> IF i = 0 THEN Base ELSE Step(y[i - 1], i)]
  <2> SUFFICES ASSUME NEW i \in 0..Depth
               PROVE  y[i] = IF i = 0 THEN Base ELSE Step(y[i - 1], i)
    OBVIOUS
  <2>1. CASE i = 0
    BY <1>5, <2>1
  <2>2. CASE i # 0
    <3>1. i - 1 \in 0..Depth
      BY <2>2, TreeAssumption
    <3> QED BY <1>5, <2>2, <3>1
  <2> QED BY <2>1, <2>2
<1> QED
  BY <1>6


LEMMA AncestorsDef ==
    ASSUME NEW index
    PROVE  Ancestors(index) = [i \in 0 .. Depth |->
               IF i = 0 THEN index ELSE Ancestors(index)[i - 1] \div 2]
<1> DEFINE Step(x, i) ==
               x \div 2
           Base == index
           Good == {n \in Nat : \E z : \A i \in 0..n :
                        z[i] = IF i = 0 THEN Base ELSE Step(z[i - 1], i)}
<1>1. SUFFICES \E z : z = [i \in 0 .. Depth |->
                              IF i = 0 THEN Base ELSE Step(z[i - 1], i)]
  BY DEF Ancestors
<1> HIDE DEF Step, Base
<1>2. 0 \in Good
  <2>1. \A i \in 0..0 : [j \in 0..0 |-> Base][i] = Base /\ i = 0
    OBVIOUS
  <2> QED BY <2>1
<1>3. ASSUME NEW n \in Nat, n \in Good PROVE n + 1 \in Good
  <2> PICK z : \A i \in 0..n : z[i] = IF i = 0 THEN Base ELSE Step(z[i - 1], i)
    BY <1>3
  <2> DEFINE y == [i \in 0..(n + 1) |->
                      IF i = n + 1 THEN Step(z[n], n + 1) ELSE z[i]]
  <2>1. \A i \in 0..(n + 1) : y[i] = IF i = 0 THEN Base ELSE Step(y[i - 1], i)
    OBVIOUS
  <2> HIDE DEF y
  <2> QED BY <2>1
<1> HIDE DEF Good
<1>4. Depth \in Good
  BY <1>2, <1>3, SetInduction, TreeAssumption
<1>5. PICK z : \A i \in 0..Depth : z[i] = IF i = 0 THEN Base ELSE Step(z[i - 1], i)
  BY <1>4 DEF Good
<1> DEFINE y == [i \in 0..Depth |-> z[i]]
<1>6. y = [i \in 0..Depth |-> IF i = 0 THEN Base ELSE Step(y[i - 1], i)]
  <2> SUFFICES ASSUME NEW i \in 0..Depth
               PROVE  y[i] = IF i = 0 THEN Base ELSE Step(y[i - 1], i)
    OBVIOUS
  <2>1. CASE i = 0
    BY <1>5, <2>1
  <2>2. CASE i # 0
    <3>1. i - 1 \in 0..Depth
      BY <2>2, TreeAssumption
    <3> QED BY <1>5, <2>2, <3>1
  <2> QED BY <2>1, <2>2
<1> QED
  BY <1>6


LEMMA CompleteTreeDef ==
    ASSUME NEW padded
    PROVE  CompleteTree(padded) = [i \in 0 .. Depth |->
               IF i = 0 THEN padded
               ELSE [k \in 0 .. 2 ^ (Depth - i) - 1 |->
                        PoseidonHash(CompleteTree(padded)[i - 1][2 * k],
                                     CompleteTree(padded)[i - 1][2 * k + 1])]]
<1> DEFINE Step(x, i) ==
               [k \in 0 .. 2 ^ (Depth - i) - 1 |->
                   PoseidonHash(x[2 * k], x[2 * k + 1])]
           Base == padded
           Good == {n \in Nat : \E z : \A i \in 0..n :
                        z[i] = IF i = 0 THEN Base ELSE Step(z[i - 1], i)}
<1>1. SUFFICES \E z : z = [i \in 0 .. Depth |->
                              IF i = 0 THEN Base ELSE Step(z[i - 1], i)]
  BY DEF CompleteTree
<1> HIDE DEF Step, Base
<1>2. 0 \in Good
  <2>1. \A i \in 0..0 : [j \in 0..0 |-> Base][i] = Base /\ i = 0
    OBVIOUS
  <2> QED BY <2>1
<1>3. ASSUME NEW n \in Nat, n \in Good PROVE n + 1 \in Good
  <2> PICK z : \A i \in 0..n : z[i] = IF i = 0 THEN Base ELSE Step(z[i - 1], i)
    BY <1>3
  <2> DEFINE y == [i \in 0..(n + 1) |->
                      IF i = n + 1 THEN Step(z[n], n + 1) ELSE z[i]]
  <2>1. \A i \in 0..(n + 1) : y[i] = IF i = 0 THEN Base ELSE Step(y[i - 1], i)
    OBVIOUS
  <2> HIDE DEF y
  <2> QED BY <2>1
<1> HIDE DEF Good
<1>4. Depth \in Good
  BY <1>2, <1>3, SetInduction, TreeAssumption
<1>5. PICK z : \A i \in 0..Depth : z[i] = IF i = 0 THEN Base ELSE Step(z[i - 1], i)
  BY <1>4 DEF Good
<1> DEFINE y == [i \in 0..Depth |-> z[i]]
<1>6. y = [i \in 0..Depth |-> IF i = 0 THEN Base ELSE Step(y[i - 1], i)]
  <2> SUFFICES ASSUME NEW i \in 0..Depth
               PROVE  y[i] = IF i = 0 THEN Base ELSE Step(y[i - 1], i)
    OBVIOUS
  <2>1. CASE i = 0
    BY <1>5, <2>1
  <2>2. CASE i # 0
    <3>1. i - 1 \in 0..Depth
      BY <2>2, TreeAssumption
    <3> QED BY <1>5, <2>2, <3>1
  <2> QED BY <2>1, <2>2
<1> QED
  BY <1>6


LEMMA LevelHashesDef ==
    ASSUME NEW leaf, NEW path
    PROVE  LevelHashes(leaf, path) = [i \in 0 .. Depth |->
               IF i = 0 THEN leaf
               ELSE IF path[i - 1].side = 1
               THEN PoseidonHash(path[i - 1].element, LevelHashes(leaf, path)[i - 1])
               ELSE PoseidonHash(LevelHashes(leaf, path)[i - 1], path[i - 1].element)]
<1> DEFINE Step(x, i) ==
               IF path[i - 1].side = 1 THEN PoseidonHash(path[i - 1].element, x)
                                       ELSE PoseidonHash(x, path[i - 1].element)
           Base == leaf
           Good == {n \in Nat : \E z : \A i \in 0..n :
                        z[i] = IF i = 0 THEN Base ELSE Step(z[i - 1], i)}
<1>1. SUFFICES \E z : z = [i \in 0 .. Depth |->
                              IF i = 0 THEN Base ELSE Step(z[i - 1], i)]
  BY DEF LevelHashes
<1> HIDE DEF Step, Base
<1>2. 0 \in Good
  <2>1. \A i \in 0..0 : [j \in 0..0 |-> Base][i] = Base /\ i = 0
    OBVIOUS
  <2> QED BY <2>1
<1>3. ASSUME NEW n \in Nat, n \in Good PROVE n + 1 \in Good
  <2> PICK z : \A i \in 0..n : z[i] = IF i = 0 THEN Base ELSE Step(z[i - 1], i)
    BY <1>3
  <2> DEFINE y == [i \in 0..(n + 1) |->
                      IF i = n + 1 THEN Step(z[n], n + 1) ELSE z[i]]
  <2>1. \A i \in 0..(n + 1) : y[i] = IF i = 0 THEN Base ELSE Step(y[i - 1], i)
    OBVIOUS
  <2> HIDE DEF y
  <2> QED BY <2>1
<1> HIDE DEF Good
<1>4. Depth \in Good
  BY <1>2, <1>3, SetInduction, TreeAssumption
<1>5. PICK z : \A i \in 0..Depth : z[i] = IF i = 0 THEN Base ELSE Step(z[i - 1], i)
  BY <1>4 DEF Good
<1> DEFINE y == [i \in 0..Depth |-> z[i]]
<1>6. y = [i \in 0..Depth |-> IF i = 0 THEN Base ELSE Step(y[i - 1], i)]
  <2> SUFFICES ASSUME NEW i \in 0..Depth
               PROVE  y[i] = IF i = 0 THEN Base ELSE Step(y[i - 1], i)
    OBVIOUS
  <2>1. CASE i = 0
    BY <1>5, <2>1
  <2>2. CASE i # 0
    <3>1. i - 1 \in 0..Depth
      BY <2>2, TreeAssumption
    <3> QED BY <1>5, <2>2, <3>1
  <2> QED BY <2>1, <2>2
<1> QED
  BY <1>6


LEMMA ClimbDef ==
    ASSUME NEW leaf
    PROVE  Climb(leaf) = [i \in 0 .. Depth |->
               IF i = 0
               THEN [index |-> nextIndex, filled |-> filledSubtrees, node |-> leaf]
               ELSE Ascend(Climb(leaf)[i - 1], i - 1)]
<1> DEFINE Step(x, i) ==
               Ascend(x, i - 1)
           Base == [index |-> nextIndex, filled |-> filledSubtrees, node |-> leaf]
           Good == {n \in Nat : \E z : \A i \in 0..n :
                        z[i] = IF i = 0 THEN Base ELSE Step(z[i - 1], i)}
<1>1. SUFFICES \E z : z = [i \in 0 .. Depth |->
                              IF i = 0 THEN Base ELSE Step(z[i - 1], i)]
  BY DEF Climb
<1> HIDE DEF Step, Base
<1>2. 0 \in Good
  <2>1. \A i \in 0..0 : [j \in 0..0 |-> Base][i] = Base /\ i = 0
    OBVIOUS
  <2> QED BY <2>1
<1>3. ASSUME NEW n \in Nat, n \in Good PROVE n + 1 \in Good
  <2> PICK z : \A i \in 0..n : z[i] = IF i = 0 THEN Base ELSE Step(z[i - 1], i)
    BY <1>3
  <2> DEFINE y == [i \in 0..(n + 1) |->
                      IF i = n + 1 THEN Step(z[n], n + 1) ELSE z[i]]
  <2>1. \A i \in 0..(n + 1) : y[i] = IF i = 0 THEN Base ELSE Step(y[i - 1], i)
    OBVIOUS
  <2> HIDE DEF y
  <2> QED BY <2>1
<1> HIDE DEF Good
<1>4. Depth \in Good
  BY <1>2, <1>3, SetInduction, TreeAssumption
<1>5. PICK z : \A i \in 0..Depth : z[i] = IF i = 0 THEN Base ELSE Step(z[i - 1], i)
  BY <1>4 DEF Good
<1> DEFINE y == [i \in 0..Depth |-> z[i]]
<1>6. y = [i \in 0..Depth |-> IF i = 0 THEN Base ELSE Step(y[i - 1], i)]
  <2> SUFFICES ASSUME NEW i \in 0..Depth
               PROVE  y[i] = IF i = 0 THEN Base ELSE Step(y[i - 1], i)
    OBVIOUS
  <2>1. CASE i = 0
    BY <1>5, <2>1
  <2>2. CASE i # 0
    <3>1. i - 1 \in 0..Depth
      BY <2>2, TreeAssumption
    <3> QED BY <1>5, <2>2, <3>1
  <2> QED BY <2>1, <2>2
<1> QED
  BY <1>6


LEMMA UpdateDef ==
    ASSUME NEW ls, NEW leaf
    PROVE  Update(ls, leaf) = [i \in 0 .. Depth |->
               IF i = 0
               THEN PushLeaf(ls, leaf)
               ELSE UpdateParent(Update(ls, leaf)[i - 1], i)]
<1> DEFINE Step(x, i) ==
               UpdateParent(x, i)
           Base == PushLeaf(ls, leaf)
           Good == {n \in Nat : \E z : \A i \in 0..n :
                        z[i] = IF i = 0 THEN Base ELSE Step(z[i - 1], i)}
<1>1. SUFFICES \E z : z = [i \in 0 .. Depth |->
                              IF i = 0 THEN Base ELSE Step(z[i - 1], i)]
  BY DEF Update
<1> HIDE DEF Step, Base
<1>2. 0 \in Good
  <2>1. \A i \in 0..0 : [j \in 0..0 |-> Base][i] = Base /\ i = 0
    OBVIOUS
  <2> QED BY <2>1
<1>3. ASSUME NEW n \in Nat, n \in Good PROVE n + 1 \in Good
  <2> PICK z : \A i \in 0..n : z[i] = IF i = 0 THEN Base ELSE Step(z[i - 1], i)
    BY <1>3
  <2> DEFINE y == [i \in 0..(n + 1) |->
                      IF i = n + 1 THEN Step(z[n], n + 1) ELSE z[i]]
  <2>1. \A i \in 0..(n + 1) : y[i] = IF i = 0 THEN Base ELSE Step(y[i - 1], i)
    OBVIOUS
  <2> HIDE DEF y
  <2> QED BY <2>1
<1> HIDE DEF Good
<1>4. Depth \in Good
  BY <1>2, <1>3, SetInduction, TreeAssumption
<1>5. PICK z : \A i \in 0..Depth : z[i] = IF i = 0 THEN Base ELSE Step(z[i - 1], i)
  BY <1>4 DEF Good
<1> DEFINE y == [i \in 0..Depth |-> z[i]]
<1>6. y = [i \in 0..Depth |-> IF i = 0 THEN Base ELSE Step(y[i - 1], i)]
  <2> SUFFICES ASSUME NEW i \in 0..Depth
               PROVE  y[i] = IF i = 0 THEN Base ELSE Step(y[i - 1], i)
    OBVIOUS
  <2>1. CASE i = 0
    BY <1>5, <2>1
  <2>2. CASE i # 0
    <3>1. i - 1 \in 0..Depth
      BY <2>2, TreeAssumption
    <3> QED BY <1>5, <2>2, <3>1
  <2> QED BY <2>1, <2>2
<1> QED
  BY <1>6

-----------------------------------------------------------------------------
(* Levels and the complete tree                                            *)

\* The equations, at one index.
LEMMA ZerosAt ==
    /\ Zeros[0] = Zero
    /\ \A l \in Levels : Zeros[l + 1] = <<Zeros[l], Zeros[l]>>
<1>1. \A l \in 0..Depth :
         Zeros[l] = IF l = 0 THEN Zero ELSE <<Zeros[l - 1], Zeros[l - 1]>>
  BY ZerosDef DEF PoseidonHash
<1>2. 0 \in 0..Depth /\ \A l \in Levels : l + 1 \in 0..Depth /\ l + 1 # 0 /\ (l + 1) - 1 = l
  BY TreeAssumption DEF Levels
<1> QED
  BY <1>1, <1>2

LEMMA AncestorsAt ==
    ASSUME NEW index
    PROVE  /\ Ancestors(index)[0] = index
           /\ \A l \in Levels :
                  Ancestors(index)[l + 1] = Ancestors(index)[l] \div 2
<1>1. \A l \in 0..Depth :
         Ancestors(index)[l] = IF l = 0 THEN index ELSE Ancestors(index)[l - 1] \div 2
  BY AncestorsDef
<1>2. 0 \in 0..Depth /\ \A l \in Levels : l + 1 \in 0..Depth /\ l + 1 # 0 /\ (l + 1) - 1 = l
  BY TreeAssumption DEF Levels
<1> QED
  BY <1>1, <1>2

\* The indices of a level; those of its nodes' children are in the level below.
Width(l) == 0 .. 2 ^ (Depth - l) - 1

LEMMA WidthDoubles ==
    ASSUME NEW l \in Levels
    PROVE  /\ 2 ^ (Depth - l) = 2 * 2 ^ (Depth - (l + 1))
           /\ 2 ^ (Depth - (l + 1)) \in Nat \ {0}
<1>1. Depth - (l + 1) \in Nat /\ Depth - l = (Depth - (l + 1)) + 1
  BY TreeAssumption DEF Levels
<1>2. 2 ^ ((Depth - (l + 1)) + 1) = 2 * 2 ^ (Depth - (l + 1))
  BY <1>1, PowerDoubles
<1> QED
  BY <1>1, <1>2, PowerPositive

LEMMA ChildrenInWidth ==
    ASSUME NEW l \in Levels, NEW i \in Width(l + 1)
    PROVE  /\ i \in Nat
           /\ 2 * i \in Width(l)
           /\ 2 * i + 1 \in Width(l)
<1> DEFINE w == 2 ^ (Depth - (l + 1))
           v == 2 ^ (Depth - l)
<1>1. w \in Nat /\ v = 2 * w /\ i \in 0..(w - 1)
  BY WidthDoubles DEF Width
<1>2. Width(l) = 0..(v - 1)
  BY DEF Width
<1> HIDE DEF w, v
<1> QED
  BY <1>1, <1>2

LEMMA CompleteTreeAt ==
    ASSUME NEW padded
    PROVE  /\ CompleteTree(padded)[0] = padded
           /\ \A l \in Levels : \A i \in Width(l + 1) :
                  CompleteTree(padded)[l + 1][i] =
                      <<CompleteTree(padded)[l][2 * i],
                        CompleteTree(padded)[l][2 * i + 1]>>
<1> DEFINE T == CompleteTree(padded)
<1>1. T = [l \in 0..Depth |->
              IF l = 0 THEN padded
              ELSE [i \in 0 .. 2 ^ (Depth - l) - 1 |->
                       <<T[l - 1][2 * i], T[l - 1][2 * i + 1]>>]]
  BY CompleteTreeDef DEF PoseidonHash
<1> HIDE DEF T
<1>2. T[0] = padded
  BY <1>1, TreeAssumption
<1>3. ASSUME NEW l \in Levels, NEW i \in Width(l + 1)
      PROVE  T[l + 1][i] = <<T[l][2 * i], T[l][2 * i + 1]>>
  <2>1. l + 1 \in 0..Depth /\ l + 1 # 0 /\ (l + 1) - 1 = l
    BY TreeAssumption DEF Levels
  <2>2. T[l + 1] = [k \in 0 .. 2 ^ (Depth - (l + 1)) - 1 |->
                       <<T[(l + 1) - 1][2 * k], T[(l + 1) - 1][2 * k + 1]>>]
    BY <1>1, <2>1
  <2> QED BY <2>1, <2>2 DEF Width
<1> QED
  BY <1>2, <1>3 DEF T

LEMMA RootWidth == Width(Depth) = {0}
<1>1. Depth - Depth = 0
  BY TreeAssumption
<1>2. Width(Depth) = 0 .. 2 ^ 0 - 1
  BY <1>1, Zenon DEF Width
<1>3. 2 ^ 0 - 1 = 0
  OBVIOUS
<1> QED
  BY <1>2, <1>3

\* An index of the leaves has its ancestors within the levels.
LEMMA AncestorsInWidth ==
    ASSUME NEW index \in Width(0)
    PROVE  \A l \in 0..Depth : Ancestors(index)[l] \in Width(l)
<1> DEFINE Good == {l \in Nat : l <= Depth => Ancestors(index)[l] \in Width(l)}
<1>1. 0 \in Good
  BY AncestorsAt
<1>2. ASSUME NEW l \in Nat, l \in Good PROVE l + 1 \in Good
  <2> SUFFICES ASSUME l + 1 <= Depth PROVE Ancestors(index)[l + 1] \in Width(l + 1)
    OBVIOUS
  <2>1. l \in Levels /\ Ancestors(index)[l] \in Width(l)
    BY <1>2, TreeAssumption DEF Levels
  <2> DEFINE a == Ancestors(index)[l]
             w == 2 ^ (Depth - (l + 1))
             v == 2 ^ (Depth - l)
  <2>2. v = 2 * w /\ w \in Nat /\ a \in 0..(v - 1)
    BY <2>1, WidthDoubles DEF Width
  <2>3. Ancestors(index)[l + 1] = a \div 2
    BY <2>1, AncestorsAt
  <2>4. Width(l + 1) = 0..(w - 1)
    BY DEF Width
  <2> HIDE DEF a, w, v
  <2> QED BY <2>2, <2>3, <2>4
<1> HIDE DEF Good
<1>3. Nat \subseteq Good
  BY <1>1, <1>2, SetInduction
<1> QED
  BY <1>3, TreeAssumption DEF Good

\* Nodes to the right of the last leaf are zeros. The last of no leaf is -1,
\* whose ancestors all are -1.
LEMMA EmptyRight ==
    ASSUME NEW padded, NEW last \in Int,
           \A i \in Width(0) : i > last => padded[i] = Zero
    PROVE  \A l \in 0..Depth : \A i \in Width(l) :
               i > Ancestors(last)[l] => CompleteTree(padded)[l][i] = Zeros[l]
<1> DEFINE T == CompleteTree(padded)
           A == Ancestors(last)
           Good == {l \in Nat : l <= Depth =>
                        /\ A[l] \in Int
                        /\ \A i \in Width(l) : i > A[l] => T[l][i] = Zeros[l]}
<1>1. 0 \in Good
  BY AncestorsAt, CompleteTreeAt, ZerosAt
<1>2. ASSUME NEW l \in Nat, l \in Good PROVE l + 1 \in Good
  <2> SUFFICES ASSUME l + 1 <= Depth
               PROVE  /\ A[l + 1] \in Int
                      /\ \A i \in Width(l + 1) :
                            i > A[l + 1] => T[l + 1][i] = Zeros[l + 1]
    OBVIOUS
  <2>1. l \in Levels /\ A[l] \in Int /\ A[l + 1] = A[l] \div 2
    BY <1>2, TreeAssumption, AncestorsAt DEF Levels
  <2>2. \A i \in Width(l) : i > A[l] => T[l][i] = Zeros[l]
    <3>1. l <= Depth
      BY TreeAssumption
    <3> HIDE DEF A, T
    <3> QED BY <1>2, <3>1
  <2>3. ASSUME NEW i \in Width(l + 1), i > A[l + 1]
        PROVE  T[l + 1][i] = Zeros[l + 1]
    <3>1. /\ i \in Nat
          /\ 2 * i \in Width(l)
          /\ 2 * i + 1 \in Width(l)
      BY <2>1, ChildrenInWidth
    <3>2. 2 * i > A[l] /\ 2 * i + 1 > A[l]
      <4> HIDE DEF A
      <4> QED BY <2>1, <2>3, <3>1
    <3>3. T[l][2 * i] = Zeros[l] /\ T[l][2 * i + 1] = Zeros[l]
      <4> HIDE DEF A, T
      <4> QED BY <2>2, <3>1, <3>2
    <3>4. T[l + 1][i] = <<T[l][2 * i], T[l][2 * i + 1]>>
      BY <2>1, CompleteTreeAt
    <3> QED BY <2>1, <3>3, <3>4, ZerosAt
  <2>4. A[l + 1] \in Int
    <3> HIDE DEF A
    <3> QED BY <2>1
  <2> QED BY <2>3, <2>4
<1> HIDE DEF Good
<1>3. Nat \subseteq Good
  BY <1>1, <1>2, SetInduction
<1> QED
  BY <1>3, TreeAssumption DEF Good

\* A leaf only reaches its own ancestors.
LEMMA OtherNodesKept ==
    ASSUME NEW p, NEW q, NEW index \in Nat,
           \A i \in Width(0) : i # index => p[i] = q[i]
    PROVE  \A l \in 0..Depth : \A i \in Width(l) :
               i # Ancestors(index)[l] => CompleteTree(p)[l][i] = CompleteTree(q)[l][i]
<1> DEFINE T == CompleteTree(p)
           U == CompleteTree(q)
           A == Ancestors(index)
           Good == {l \in Nat : l <= Depth =>
                        /\ A[l] \in Nat
                        /\ \A i \in Width(l) : i # A[l] => T[l][i] = U[l][i]}
<1>1. 0 \in Good
  BY AncestorsAt, CompleteTreeAt
<1>2. ASSUME NEW l \in Nat, l \in Good PROVE l + 1 \in Good
  <2> SUFFICES ASSUME l + 1 <= Depth
               PROVE  /\ A[l + 1] \in Nat
                      /\ \A i \in Width(l + 1) : i # A[l + 1] => T[l + 1][i] = U[l + 1][i]
    OBVIOUS
  <2>1. l \in Levels /\ A[l] \in Nat /\ A[l + 1] = A[l] \div 2
    BY <1>2, TreeAssumption, AncestorsAt DEF Levels
  <2>2. \A i \in Width(l) : i # A[l] => T[l][i] = U[l][i]
    <3>1. l <= Depth
      BY TreeAssumption
    <3> HIDE DEF A, T, U
    <3> QED BY <1>2, <3>1
  <2>3. ASSUME NEW i \in Width(l + 1), i # A[l + 1]
        PROVE  T[l + 1][i] = U[l + 1][i]
    <3>1. /\ i \in Nat
          /\ 2 * i \in Width(l)
          /\ 2 * i + 1 \in Width(l)
      BY <2>1, ChildrenInWidth
    <3>2. 2 * i # A[l] /\ 2 * i + 1 # A[l]
      <4> HIDE DEF A
      <4> QED BY <2>1, <2>3, <3>1
    <3>3. T[l][2 * i] = U[l][2 * i] /\ T[l][2 * i + 1] = U[l][2 * i + 1]
      <4> HIDE DEF A, T, U
      <4> QED BY <2>2, <3>1, <3>2
    <3>4. /\ T[l + 1][i] = <<T[l][2 * i], T[l][2 * i + 1]>>
          /\ U[l + 1][i] = <<U[l][2 * i], U[l][2 * i + 1]>>
      BY <2>1, CompleteTreeAt
    <3> QED BY <3>3, <3>4
  <2>4. A[l + 1] \in Nat
    <3> HIDE DEF A
    <3> QED BY <2>1
  <2> QED BY <2>3, <2>4
<1> HIDE DEF Good
<1>3. Nat \subseteq Good
  BY <1>1, <1>2, SetInduction
<1> QED
  BY <1>3, TreeAssumption DEF Good

\* The hash has no collisions, so one root has one sequence of leaves.
LEMMA RootDeterminesLeaves ==
    ASSUME NEW p, NEW q, CompleteTree(p)[Depth][0] = CompleteTree(q)[Depth][0]
    PROVE  \A i \in Width(0) : p[i] = q[i]
<1> DEFINE T == CompleteTree(p)
           U == CompleteTree(q)
           Good == {d \in Nat : d <= Depth =>
                        \A i \in Width(Depth - d) : T[Depth - d][i] = U[Depth - d][i]}
<1>1. 0 \in Good
  <2>1. Depth - 0 = Depth /\ Depth - Depth = 0
    BY TreeAssumption
  <2> QED BY <2>1, RootWidth
<1>2. ASSUME NEW d \in Nat, d \in Good PROVE d + 1 \in Good
  <2> SUFFICES ASSUME d + 1 <= Depth,
                      NEW i \in Width(Depth - (d + 1))
               PROVE  T[Depth - (d + 1)][i] = U[Depth - (d + 1)][i]
    OBVIOUS
  <2> DEFINE l == Depth - (d + 1)
  <2>1. l \in Levels /\ l + 1 = Depth - d
    BY TreeAssumption DEF Levels
  <2>2. \A k \in Width(l + 1) : T[l + 1][k] = U[l + 1][k]
    <3>1. d <= Depth
      BY TreeAssumption
    <3> HIDE DEF T, U
    <3> QED BY <1>2, <2>1, <3>1
  <2> HIDE DEF l
  <2>3. i \in Nat /\ i \div 2 \in Width(l + 1)
    <3>1. /\ 2 ^ (Depth - l) = 2 * 2 ^ (Depth - (l + 1))
          /\ 2 ^ (Depth - (l + 1)) \in Nat
      BY <2>1, WidthDoubles
    <3>2. i \in Width(l)
      BY DEF l
    <3> QED BY <3>1, <3>2 DEF Width
  <2>4. /\ T[l + 1][i \div 2] = <<T[l][2 * (i \div 2)], T[l][2 * (i \div 2) + 1]>>
        /\ U[l + 1][i \div 2] = <<U[l][2 * (i \div 2)], U[l][2 * (i \div 2) + 1]>>
    BY <2>1, <2>3, CompleteTreeAt
  <2>5. /\ T[l][2 * (i \div 2)] = U[l][2 * (i \div 2)]
        /\ T[l][2 * (i \div 2) + 1] = U[l][2 * (i \div 2) + 1]
    BY <2>2, <2>3, <2>4
  <2>6. i = 2 * (i \div 2) \/ i = 2 * (i \div 2) + 1
    BY <2>3
  <2>7. T[l][i] = U[l][i]
    BY <2>5, <2>6
  <2> QED BY <2>7 DEF l
<1> HIDE DEF Good
<1>3. Nat \subseteq Good
  BY <1>1, <1>2, SetInduction
<1>4. \A i \in Width(0) : T[0][i] = U[0][i]
  <2>1. Depth \in Good /\ Depth \in Nat /\ Depth - Depth = 0
    BY <1>3, TreeAssumption
  <2> QED BY <2>1 DEF Good
<1> QED
  BY <1>4, CompleteTreeAt

\* The next index has the same ancestors, or the next ones.
LEMMA AncestorsOfNext ==
    ASSUME NEW index \in Int
    PROVE  \A l \in 0..Depth :
               /\ Ancestors(index)[l] \in Int
               /\ \/ Ancestors(index + 1)[l] = Ancestors(index)[l]
                  \/ Ancestors(index + 1)[l] = Ancestors(index)[l] + 1
<1> DEFINE A == Ancestors(index)
           B == Ancestors(index + 1)
           Good == {l \in Nat : l <= Depth =>
                        A[l] \in Int /\ (B[l] = A[l] \/ B[l] = A[l] + 1)}
<1>1. 0 \in Good
  BY AncestorsAt
<1>2. ASSUME NEW l \in Nat, l \in Good PROVE l + 1 \in Good
  <2> SUFFICES ASSUME l + 1 <= Depth
               PROVE  A[l + 1] \in Int /\ (B[l + 1] = A[l + 1] \/ B[l + 1] = A[l + 1] + 1)
    OBVIOUS
  <2>1. l \in Levels /\ l <= Depth
    BY TreeAssumption DEF Levels
  <2>2. A[l + 1] = A[l] \div 2 /\ B[l + 1] = B[l] \div 2
    BY <2>1, AncestorsAt
  <2> HIDE DEF A, B
  <2>3. A[l] \in Int /\ (B[l] = A[l] \/ B[l] = A[l] + 1)
    BY <1>2, <2>1
  <2> QED BY <2>2, <2>3
<1> HIDE DEF Good
<1>3. Nat \subseteq Good
  BY <1>1, <1>2, SetInduction
<1>4. \A l \in 0..Depth : A[l] \in Int /\ (B[l] = A[l] \/ B[l] = A[l] + 1)
  <2> HIDE DEF A, B
  <2> QED BY <1>3, TreeAssumption DEF Good
<1> QED
  BY <1>4

LEMMA AncestorsOfNone == \A l \in 0..Depth : Ancestors(-1)[l] = -1
<1> DEFINE Good == {l \in Nat : l <= Depth => Ancestors(-1)[l] = -1}
<1>1. 0 \in Good
  BY AncestorsAt
<1>2. ASSUME NEW l \in Nat, l \in Good PROVE l + 1 \in Good
  <2> SUFFICES ASSUME l + 1 <= Depth PROVE Ancestors(-1)[l + 1] = -1
    OBVIOUS
  <2>1. l \in Levels /\ l <= Depth
    BY TreeAssumption DEF Levels
  <2>2. Ancestors(-1)[l + 1] = Ancestors(-1)[l] \div 2 /\ Ancestors(-1)[l] = -1
    BY <1>2, <2>1, AncestorsAt
  <2> QED BY <2>2
<1> HIDE DEF Good
<1>3. Nat \subseteq Good
  BY <1>1, <1>2, SetInduction
<1> QED
  BY <1>3, TreeAssumption DEF Good

-----------------------------------------------------------------------------
(* Sequences of nodes, which have no type                                  *)

IsSequence(s) == \E S : s \in Seq(S)

LEMMA AppendNode ==
    ASSUME NEW s, IsSequence(s), NEW e
    PROVE  /\ IsSequence(Append(s, e))
           /\ Len(s) \in Nat
           /\ Len(Append(s, e)) = Len(s) + 1
           /\ \A i \in 1..Len(s) : Append(s, e)[i] = s[i]
           /\ Append(s, e)[Len(s) + 1] = e
<1>1. PICK S : s \in Seq(S)
  BY DEF IsSequence
<1> DEFINE R == S \cup {e}
<1>2. s \in Seq(R) /\ e \in R
  BY <1>1, SeqMonotonic
<1> HIDE DEF R
<1>3. Append(s, e) \in Seq(R)
  BY <1>2, AppendProperties
<1> QED
  BY <1>2, <1>3, AppendProperties, LenProperties DEF IsSequence

\* One more leaf fills the first empty place.
LEMMA PaddedAppend ==
    ASSUME NEW S, NEW ls \in Seq(S), NEW leaf \in S, Len(ls) < 2 ^ Depth
    PROVE  /\ Len(ls) \in Width(0)
           /\ Padded(Append(ls, leaf))[Len(ls)] = leaf
           /\ \A i \in Width(0) : i # Len(ls) => Padded(ls)[i] = Padded(Append(ls, leaf))[i]
           /\ \A i \in Width(0) : i > Len(ls) => Padded(Append(ls, leaf))[i] = Zero
<1> DEFINE w == 2 ^ Depth
           more == Append(ls, leaf)
<1>1. w \in Nat /\ Width(0) = 0..(w - 1)
  BY TreeAssumption, PowerPositive DEF Width
<1>2. /\ Len(ls) \in Nat
      /\ Len(more) = Len(ls) + 1
      /\ \A i \in 1..Len(ls) : more[i] = ls[i]
      /\ more[Len(ls) + 1] = leaf
  BY AppendProperties, LenProperties
<1>3. /\ Padded(ls) = [i \in 0..(w - 1) |-> IF i < Len(ls) THEN ls[i + 1] ELSE Zero]
      /\ Padded(more) = [i \in 0..(w - 1) |-> IF i < Len(more) THEN more[i + 1] ELSE Zero]
  BY DEF Padded
<1>4. Len(ls) < w
  OBVIOUS
<1> HIDE DEF w, more
<1>5. Len(ls) \in Width(0) /\ Padded(more)[Len(ls)] = leaf
  BY <1>1, <1>2, <1>3, <1>4
<1>6. ASSUME NEW i \in Width(0), i # Len(ls) PROVE Padded(ls)[i] = Padded(more)[i]
  BY <1>1, <1>2, <1>3, <1>4, <1>6
<1>7. ASSUME NEW i \in Width(0), i > Len(ls) PROVE Padded(more)[i] = Zero
  BY <1>1, <1>2, <1>3, <1>4, <1>7
<1> QED
  BY <1>5, <1>6, <1>7 DEF more

-----------------------------------------------------------------------------
(* The inductive invariant                                                 *)

\* The complete tree over the first k leaves of the pool.
Taken(k) == SubSeq(leaves, 1, k)
TreeOf(ls) == CompleteTree(Padded(ls))

TypeOK ==
    /\ leaves \in Seq(LeafValues)
    /\ nextIndex = Len(leaves)
    /\ Len(leaves) <= 2 ^ Depth
    /\ filledSubtrees = [l \in Levels |-> filledSubtrees[l]]
    /\ IsSequence(roots)
    /\ layers = [l \in 0..Depth |-> layers[l]]
    /\ \A l \in 0..Depth : IsSequence(layers[l])

\* Every root the pool had is that of the leaves it then had.
RootsInv ==
    /\ Len(roots) = Len(leaves) + 1
    /\ \A k \in 0..Len(leaves) : roots[k + 1] = TreeOf(Taken(k))[Depth][0]

\* Where the next leaf's way to the root is a right child, the left one is
\* complete, and kept.
FrontierInv ==
    \A l \in Levels :
        Ancestors(nextIndex)[l] % 2 = 1 =>
            filledSubtrees[l] = TreeOf(leaves)[l][Ancestors(nextIndex)[l] - 1]

\* The layers hold the nodes up to the last leaf's ancestors.
Replayed == Len(layers[0])

LayersInv ==
    /\ Replayed <= Len(leaves)
    /\ \A l \in 0..Depth :
           /\ Len(layers[l]) = Ancestors(Replayed - 1)[l] + 1
           /\ \A i \in 0..Ancestors(Replayed - 1)[l] :
                  layers[l][i + 1] = TreeOf(Taken(Replayed))[l][i]

IInv == TypeOK /\ RootsInv /\ FrontierInv /\ LayersInv

\* The first leaves of a longer history.
LEMMA TakenProperties ==
    ASSUME leaves \in Seq(LeafValues), NEW k \in 0..Len(leaves)
    PROVE  /\ Taken(k) \in Seq(LeafValues)
           /\ Len(Taken(k)) = k
           /\ \A i \in 1..k : Taken(k)[i] = leaves[i]
<1>1. Len(leaves) \in Nat /\ \A i \in 1..k : leaves[i] \in LeafValues
  BY LenProperties, ElementOfSeq
<1>2. \A i \in 1..k : leaves[i] \in LeafValues
  BY <1>1
<1> QED
  BY <1>1, <1>2, SubSeqProperties DEF Taken

LEMMA TakenAll ==
    ASSUME leaves \in Seq(LeafValues)
    PROVE  Taken(Len(leaves)) = leaves
BY SubSeqFull DEF Taken

LEMMA TakenNext ==
    ASSUME leaves \in Seq(LeafValues), NEW k \in 0..(Len(leaves) - 1)
    PROVE  /\ leaves[k + 1] \in LeafValues
           /\ Taken(k + 1) = Append(Taken(k), leaves[k + 1])
<1>1. Len(leaves) \in Nat
  BY LenProperties
<1>2. k + 1 \in 1..Len(leaves) /\ k \in 0..Len(leaves) /\ k + 1 \in 0..Len(leaves)
  BY <1>1
<1>3. leaves[k + 1] \in LeafValues
  BY <1>2, ElementOfSeq
<1>4. /\ Taken(k) \in Seq(LeafValues) /\ Len(Taken(k)) = k
      /\ Taken(k + 1) \in Seq(LeafValues) /\ Len(Taken(k + 1)) = k + 1
      /\ \A i \in 1..k : Taken(k)[i] = leaves[i]
      /\ \A i \in 1..(k + 1) : Taken(k + 1)[i] = leaves[i]
  BY <1>2, TakenProperties
<1> DEFINE more == Append(Taken(k), leaves[k + 1])
<1>5. /\ more \in Seq(LeafValues)
      /\ Len(more) = k + 1
      /\ \A i \in 1..k : more[i] = leaves[i]
      /\ more[k + 1] = leaves[k + 1]
  BY <1>3, <1>4, AppendProperties
<1> HIDE DEF more
<1>6. \A i \in 1..(k + 1) : more[i] = Taken(k + 1)[i]
  BY <1>2, <1>4, <1>5
<1>7. more = Taken(k + 1)
  BY <1>2, <1>4, <1>5, <1>6, SeqEqual
<1> QED
  BY <1>3, <1>7 DEF more

LEMMA TakenAppend ==
    ASSUME leaves \in Seq(LeafValues), NEW leaf \in LeafValues,
           leaves' = Append(leaves, leaf)
    PROVE  /\ leaves' \in Seq(LeafValues)
           /\ Len(leaves') = Len(leaves) + 1
           /\ Len(leaves) \in Nat
           /\ \A k \in 0..Len(leaves) : Taken(k)' = Taken(k)
<1>1. /\ leaves' \in Seq(LeafValues)
      /\ Len(leaves') = Len(leaves) + 1
      /\ Len(leaves) \in Nat
      /\ \A i \in 1..Len(leaves) : leaves'[i] = leaves[i]
  BY AppendProperties, LenProperties
<1>2. ASSUME NEW k \in 0..Len(leaves) PROVE Taken(k)' = Taken(k)
  <2>1. /\ \A i \in 1..k : leaves'[i] \in LeafValues
        /\ \A i \in 1..k : leaves[i] \in LeafValues
        /\ \A i \in 1..k : leaves'[i] = leaves[i]
    BY <1>1, ElementOfSeq
  <2> DEFINE s == SubSeq(leaves, 1, k)
             t == SubSeq(leaves', 1, k)
  <2>2. /\ s \in Seq(LeafValues) /\ t \in Seq(LeafValues)
        /\ Len(s) = Len(t) /\ Len(s) = k
        /\ \A i \in 1..k : s[i] = leaves[i]
        /\ \A i \in 1..k : t[i] = leaves'[i]
    BY <2>1, SubSeqProperties
  <2> HIDE DEF s, t
  <2>3. \A i \in 1..Len(s) : s[i] = t[i]
    BY <2>1, <2>2
  <2>4. s = t
    BY <2>2, <2>3, SeqEqual
  <2> QED BY <2>4 DEF s, t, Taken
<1> QED
  BY <1>1, <1>2

-----------------------------------------------------------------------------
(* Pool::insert                                                            *)

LEMMA ClimbAt ==
    ASSUME NEW leaf
    PROVE  /\ Climb(leaf)[0] = [index |-> nextIndex, filled |-> filledSubtrees,
                                node |-> leaf]
           /\ \A l \in Levels : Climb(leaf)[l + 1] = Ascend(Climb(leaf)[l], l)
<1>1. \A l \in 0..Depth :
         Climb(leaf)[l] =
            IF l = 0
            THEN [index |-> nextIndex, filled |-> filledSubtrees, node |-> leaf]
            ELSE Ascend(Climb(leaf)[l - 1], l - 1)
  BY ClimbDef
<1>2. 0 \in 0..Depth /\ \A l \in Levels : l + 1 \in 0..Depth /\ l + 1 # 0 /\ (l + 1) - 1 = l
  BY TreeAssumption DEF Levels
<1> QED
  BY <1>1, <1>2

\* What the loop of insert has at each level: the node of the new tree above
\* the leaf, and the frontier with the left children below replaced.
LEMMA ClimbNodes ==
    ASSUME TypeOK, FrontierInv, nextIndex < 2 ^ Depth, NEW leaf \in LeafValues
    PROVE  LET A == Ancestors(nextIndex)
               U == TreeOf(Append(leaves, leaf))
           IN  \A l \in 0..Depth :
                   /\ Climb(leaf)[l].index = A[l]
                   /\ Climb(leaf)[l].node = U[l][A[l]]
                   /\ Climb(leaf)[l].filled =
                        [j \in Levels |-> IF j < l /\ A[j] % 2 = 0 THEN U[j][A[j]]
                                                                  ELSE filledSubtrees[j]]
<1> DEFINE A == Ancestors(nextIndex)
           p == Padded(leaves)
           q == Padded(Append(leaves, leaf))
           T == CompleteTree(p)
           U == CompleteTree(q)
           c == Climb(leaf)
           Filled(l) == [j \in Levels |-> IF j < l /\ A[j] % 2 = 0 THEN U[j][A[j]]
                                                                  ELSE filledSubtrees[j]]
           Good == {l \in Nat : l <= Depth =>
                        /\ c[l].index = A[l]
                        /\ c[l].node = U[l][A[l]]
                        /\ c[l].filled = Filled(l)}
<1>1. /\ nextIndex = Len(leaves) /\ nextIndex \in Width(0)
      /\ q[nextIndex] = leaf
      /\ \A i \in Width(0) : i # nextIndex => p[i] = q[i]
      /\ \A i \in Width(0) : i > nextIndex => q[i] = Zero
  BY PaddedAppend DEF TypeOK
<1>2. nextIndex \in Nat
  BY LenProperties DEF TypeOK
<1>3. \A l \in 0..Depth : A[l] \in Width(l)
  BY <1>1, AncestorsInWidth
<1>4. \A l \in 0..Depth : \A i \in Width(l) : i > A[l] => U[l][i] = Zeros[l]
  BY <1>1, <1>2, EmptyRight
<1>5. \A l \in 0..Depth : \A i \in Width(l) : i # A[l] => T[l][i] = U[l][i]
  BY <1>1, <1>2, OtherNodesKept
<1>6. A[0] = nextIndex /\ \A l \in Levels : A[l + 1] = A[l] \div 2
  BY AncestorsAt
<1>7. U[0] = q /\ \A l \in Levels : \A i \in Width(l + 1) :
         U[l + 1][i] = <<U[l][2 * i], U[l][2 * i + 1]>>
  BY CompleteTreeAt
<1>8. \A l \in Levels : A[l] % 2 = 1 => filledSubtrees[l] = T[l][A[l] - 1]
  BY DEF FrontierInv, TreeOf
<1>9. filledSubtrees = [l \in Levels |-> filledSubtrees[l]]
  BY DEF TypeOK
<1>10. /\ c[0] = [index |-> nextIndex, filled |-> filledSubtrees, node |-> leaf]
       /\ \A l \in Levels : c[l + 1] = Ascend(c[l], l)
  BY ClimbAt
<1> HIDE DEF A, p, q, T, U, c
<1>11. 0 \in Good
  <2>1. Filled(0) = filledSubtrees
    <3>1. \A j \in Levels : ~(j < 0)
      BY DEF Levels
    <3> QED BY <1>9, <3>1
  <2> QED BY <1>1, <1>6, <1>7, <1>10, <2>1
<1>12. ASSUME NEW l \in Nat, l \in Good PROVE l + 1 \in Good
  <2> SUFFICES ASSUME l + 1 <= Depth
               PROVE  /\ c[l + 1].index = A[l + 1]
                      /\ c[l + 1].node = U[l + 1][A[l + 1]]
                      /\ c[l + 1].filled = Filled(l + 1)
    OBVIOUS
  <2>1. l \in Levels /\ l <= Depth /\ l \in 0..Depth /\ l + 1 \in 0..Depth
    BY TreeAssumption DEF Levels
  <2>2. c[l].index = A[l] /\ c[l].node = U[l][A[l]] /\ c[l].filled = Filled(l)
    BY <1>12, <2>1
  <2> HIDE DEF Good
  <2>3. c[l + 1] = Ascend(c[l], l) /\ A[l + 1] = A[l] \div 2
    BY <1>6, <1>10, <2>1
  <2>4. A[l + 1] \in Width(l + 1) /\ A[l] \in Width(l)
    BY <1>3, <2>1
  <2>5. /\ A[l + 1] \in Nat
        /\ 2 * A[l + 1] \in Width(l)
        /\ 2 * A[l + 1] + 1 \in Width(l)
    BY <2>1, <2>4, ChildrenInWidth
  <2>6. U[l + 1][A[l + 1]] = <<U[l][2 * A[l + 1]], U[l][2 * A[l + 1] + 1]>>
    BY <1>7, <2>1, <2>4
  <2>7. A[l] \in Nat
    BY <2>4, TreeAssumption, PowerPositive, <2>1 DEF Width
  <2>8. Filled(l)[l] = filledSubtrees[l]
    BY <2>1
  <2>9. CASE A[l] % 2 = 0
    <3>1. A[l] = 2 * A[l + 1]
      BY <2>3, <2>7, <2>9
    <3>2. U[l][2 * A[l + 1] + 1] = Zeros[l]
      <4>1. 2 * A[l + 1] + 1 > A[l]
        BY <3>1, <2>5
      <4> QED BY <4>1, <1>4, <2>1, <2>5
    <3>3. c[l + 1] = [index  |-> c[l].index \div 2,
                      filled |-> [c[l].filled EXCEPT ![l] = c[l].node],
                      node   |-> <<c[l].node, Zeros[l]>>]
      BY <2>2, <2>3, <2>9 DEF Ascend, PoseidonHash
    <3>4. [Filled(l) EXCEPT ![l] = U[l][A[l]]] = Filled(l + 1)
      <4>1. ASSUME NEW j \in Levels
            PROVE  [Filled(l) EXCEPT ![l] = U[l][A[l]]][j] = Filled(l + 1)[j]
        <5>1. j \in Nat /\ (j < l + 1 <=> j < l \/ j = l)
          BY TreeAssumption DEF Levels
        <5> QED BY <5>1, <2>9, <2>1
      <4> QED BY <4>1
    <3> HIDE DEF Filled
    <3>5. c[l + 1].filled = [Filled(l) EXCEPT ![l] = U[l][A[l]]]
      BY <2>2, <3>3
    <3>6. c[l + 1].node = <<U[l][A[l]], Zeros[l]>> /\ c[l + 1].index = A[l] \div 2
      BY <2>2, <3>3
    <3>7. U[l + 1][A[l + 1]] = <<U[l][A[l]], Zeros[l]>>
      BY <2>6, <3>1, <3>2
    <3> QED BY <2>3, <3>4, <3>5, <3>6, <3>7
  <2>10. CASE A[l] % 2 = 1
    <3>1. A[l] = 2 * A[l + 1] + 1 /\ A[l] - 1 = 2 * A[l + 1] /\ A[l] - 1 # A[l]
      BY <2>3, <2>5, <2>7, <2>10
    <3>2. filledSubtrees[l] = U[l][A[l] - 1]
      <4>1. filledSubtrees[l] = T[l][A[l] - 1]
        BY <1>8, <2>1, <2>10
      <4> QED BY <4>1, <1>5, <2>1, <2>5, <3>1
    <3>3. c[l + 1] = [index  |-> c[l].index \div 2,
                      filled |-> c[l].filled,
                      node   |-> <<c[l].filled[l], c[l].node>>]
      BY <2>2, <2>3, <2>10 DEF Ascend, PoseidonHash
    <3>4. Filled(l) = Filled(l + 1)
      <4>1. ASSUME NEW j \in Levels
            PROVE  Filled(l)[j] = Filled(l + 1)[j]
        <5>1. j \in Nat /\ (j < l + 1 <=> j < l \/ j = l)
          BY TreeAssumption DEF Levels
        <5> QED BY <5>1, <2>10, <2>1
      <4> QED BY <4>1
    <3> HIDE DEF Filled
    <3> QED BY <2>2, <2>3, <2>6, <2>8, <3>1, <3>2, <3>3, <3>4
  <2> QED
    BY <2>7, <2>9, <2>10
<1> HIDE DEF Good
<1>13. Nat \subseteq Good
  BY <1>11, <1>12, SetInduction
<1>14. ASSUME NEW l \in 0..Depth
       PROVE  c[l].index = A[l] /\ c[l].node = U[l][A[l]] /\ c[l].filled = Filled(l)
  BY <1>13, TreeAssumption DEF Good
<1> QED
  BY <1>14 DEF A, c, U, q, TreeOf

-----------------------------------------------------------------------------
(* MerkleTree.insert of the SDK                                            *)

LEMMA UpdateAt ==
    ASSUME NEW ls, NEW leaf
    PROVE  /\ Update(ls, leaf)[0] = PushLeaf(ls, leaf)
           /\ \A l \in Levels :
                 Update(ls, leaf)[l + 1] = UpdateParent(Update(ls, leaf)[l], l + 1)
<1>1. \A l \in 0..Depth :
         Update(ls, leaf)[l] = IF l = 0 THEN PushLeaf(ls, leaf)
                               ELSE UpdateParent(Update(ls, leaf)[l - 1], l)
  <2>1. Update(ls, leaf) =
           [i \in 0..Depth |-> IF i = 0 THEN PushLeaf(ls, leaf)
                               ELSE UpdateParent(Update(ls, leaf)[i - 1], i)]
    BY UpdateDef, Zenon
  <2> QED BY <2>1
<1>2. 0 \in 0..Depth /\ \A l \in Levels : l + 1 \in 0..Depth /\ l + 1 # 0 /\ (l + 1) - 1 = l
  BY TreeAssumption DEF Levels
<1> QED
  BY <1>1, <1>2

\* Where a node is put by UpdateParent.
LEMMA PutNodeProperties ==
    ASSUME NEW layer, IsSequence(layer), NEW node, NEW index \in 0..Len(layer)
    PROVE  /\ IsSequence(PutNode(layer, index, node))
           /\ Len(PutNode(layer, index, node)) =
                 IF index = Len(layer) THEN index + 1 ELSE Len(layer)
           /\ PutNode(layer, index, node)[index + 1] = node
           /\ \A i \in 0..(Len(layer) - 1) :
                 i # index => PutNode(layer, index, node)[i + 1] = layer[i + 1]
<1>1. Len(layer) \in Nat
  BY AppendNode
<1>2. CASE index = Len(layer)
  <2>1. PutNode(layer, index, node) = Append(layer, node)
    BY <1>1, <1>2 DEF PutNode
  <2> QED BY <1>1, <1>2, <2>1, AppendNode
<1>3. CASE index # Len(layer)
  <2>1. PICK S : layer \in Seq(S)
    BY DEF IsSequence
  <2> DEFINE R == S \cup {node}
             k == index + 1
             new == [layer EXCEPT ![k] = node]
  <2>2. layer \in Seq(R) /\ node \in R
    BY <2>1, SeqMonotonic
  <2>3. k \in 1..Len(layer) /\ PutNode(layer, index, node) = new
    BY <1>1, <1>3 DEF PutNode
  <2> HIDE DEF R, k
  <2>4. /\ new \in Seq(R)
        /\ Len(new) = Len(layer)
        /\ \A j \in 1..Len(layer) : new[j] = IF j = k THEN node ELSE layer[j]
    BY <2>2, <2>3, ExceptSeq
  <2> HIDE DEF new
  <2>5. new[k] = node
    BY <2>3, <2>4
  <2>6. ASSUME NEW i \in 0..(Len(layer) - 1), i # index
        PROVE  new[i + 1] = layer[i + 1]
    BY <1>1, <2>4, <2>6 DEF k
  <2> QED BY <1>3, <2>3, <2>4, <2>5, <2>6 DEF IsSequence, k
<1> QED
  BY <1>2, <1>3

\* The layers that hold the nodes of a tree up to the ancestors of a leaf give
\* every node of the tree: what is to their right is empty.
Holds(layer, level, last, T) ==
    /\ IsSequence(layer)
    /\ Len(layer) = Ancestors(last)[level] + 1
    /\ \A i \in 0..Ancestors(last)[level] : layer[i + 1] = T[level][i]

LEMMA NodeAtHolds ==
    ASSUME NEW padded, NEW last \in Int, NEW ls, NEW level \in 0..Depth,
           \A i \in Width(0) : i > last => padded[i] = Zero,
           Holds(ls[level], level, last, CompleteTree(padded)),
           NEW i \in Width(level), i \in Nat
    PROVE  NodeAt(ls, level, i) = CompleteTree(padded)[level][i]
<1> DEFINE a == Ancestors(last)[level]
<1>1. a \in Int
  BY AncestorsOfNext
<1>2. Len(ls[level]) = a + 1 /\ \A k \in 0..a : ls[level][k + 1] = CompleteTree(padded)[level][k]
  BY DEF Holds
<1>3. i > a => CompleteTree(padded)[level][i] = Zeros[level]
  BY EmptyRight
<1> HIDE DEF a
<1>4. CASE i < Len(ls[level])
  BY <1>1, <1>2, <1>4 DEF NodeAt
<1>5. CASE ~(i < Len(ls[level]))
  BY <1>1, <1>2, <1>3, <1>5 DEF NodeAt
<1> QED
  BY <1>4, <1>5

LEMMA WidthInNat == \A l \in 0..Depth : \A i \in Width(l) : i \in Nat
<1> SUFFICES ASSUME NEW l \in 0..Depth, NEW i \in Width(l) PROVE i \in Nat
  OBVIOUS
<1>1. 2 ^ (Depth - l) \in Nat
  BY TreeAssumption, PowerPositive
<1> QED
  BY <1>1 DEF Width

\* The layers hold a tree up to the ancestors of its last leaf; the leaves of q
\* are those of p and one more; the layers at a level of a new leaf's way up:
\* below the level they hold the new tree, above it nothing has changed.
HoldTree(ls, last, T) ==
    /\ ls = [l \in 0..Depth |-> ls[l]]
    /\ \A l \in 0..Depth : Holds(ls[l], l, last, T)

OneMoreLeaf(p, q, index, leaf) ==
    /\ q[index] = leaf
    /\ \A i \in Width(0) : i # index => p[i] = q[i]
    /\ \A i \in Width(0) : i > index => q[i] = Zero

UpdatedUpTo(l, c, ls, index, T) ==
    /\ c.index = Ancestors(index)[l]
    /\ c.layers = [j \in 0..Depth |-> c.layers[j]]
    /\ \A j \in 0..Depth :
           IF j > l THEN c.layers[j] = ls[j] ELSE Holds(c.layers[j], j, index, T)

LEMMA UpdateHolds ==
    ASSUME NEW ls, NEW index \in Width(0), NEW p, NEW q, NEW leaf,
           OneMoreLeaf(p, q, index, leaf),
           HoldTree(ls, index - 1, CompleteTree(p))
    PROVE  \A l \in 0..Depth :
               UpdatedUpTo(l, Update(ls, leaf)[l], ls, index, CompleteTree(q))
<1> DEFINE A == Ancestors(index)
           B == Ancestors(index - 1)
           T == CompleteTree(p)
           U == CompleteTree(q)
           c == Update(ls, leaf)
           Done(l) ==
             /\ c[l].index = A[l]
             /\ c[l].layers = [j \in 0..Depth |-> c[l].layers[j]]
             /\ \A j \in 0..Depth :
                  IF j > l THEN c[l].layers[j] = ls[j] ELSE Holds(c[l].layers[j], j, index, U)
           Good == {l \in Nat : l <= Depth => Done(l)}
<1>0. /\ ls = [l \in 0..Depth |-> ls[l]]
      /\ q[index] = leaf
      /\ \A i \in Width(0) : i # index => p[i] = q[i]
      /\ \A i \in Width(0) : i > index => q[i] = Zero
      /\ \A l \in 0..Depth : Holds(ls[l], l, index - 1, CompleteTree(p))
  BY DEF OneMoreLeaf, HoldTree
<1>1. index \in Nat
  BY WidthInNat, TreeAssumption
<1>2. \A l \in 0..Depth : A[l] \in Width(l)
  BY AncestorsInWidth
<1>3. \A l \in 0..Depth : \A i \in Width(l) : i # A[l] => T[l][i] = U[l][i]
  BY <1>0, <1>1, OtherNodesKept
<1>4. A[0] = index /\ \A l \in Levels : A[l + 1] = A[l] \div 2
  BY AncestorsAt
<1>5. U[0] = q /\ \A l \in Levels : \A i \in Width(l + 1) :
         U[l + 1][i] = <<U[l][2 * i], U[l][2 * i + 1]>>
  BY CompleteTreeAt
<1>6. \A l \in 0..Depth : B[l] \in Int /\ (A[l] = B[l] \/ A[l] = B[l] + 1)
  <2>1. index - 1 \in Int /\ (index - 1) + 1 = index
    BY <1>1
  <2> QED BY <2>1, AncestorsOfNext
<1>7. /\ c[0] = PushLeaf(ls, leaf)
      /\ \A l \in Levels : c[l + 1] = UpdateParent(c[l], l + 1)
  BY UpdateAt
<1>8. \A l \in 0..Depth :
         /\ IsSequence(ls[l])
         /\ Len(ls[l]) = B[l] + 1
         /\ \A i \in 0..B[l] : ls[l][i + 1] = T[l][i]
  BY <1>0 DEF Holds
<1>9. B[0] = index - 1 /\ T[0] = p
  BY AncestorsAt, CompleteTreeAt
\* One layer, once the node of the new tree is put into it.
<1>10. ASSUME NEW l \in 0..Depth, NEW layer, NEW node,
              layer = PutNode(ls[l], A[l], node), node = U[l][A[l]]
       PROVE  Holds(layer, l, index, U)
  <2> HIDE DEF A, B, T, U, c
  <2> DEFINE old == ls[l]
             a == A[l]
             b == B[l]
  <2>1. a \in Nat /\ b \in Int /\ (a = b \/ a = b + 1) /\ Len(old) = b + 1
    BY <1>2, <1>6, <1>8, WidthInNat
  <2>2. /\ IsSequence(layer)
        /\ Len(layer) = IF a = Len(old) THEN a + 1 ELSE Len(old)
        /\ layer[a + 1] = node
        /\ \A i \in 0..(Len(old) - 1) : i # a => layer[i + 1] = old[i + 1]
    <3>1. IsSequence(old) /\ layer = PutNode(old, a, node)
      BY <1>8, <1>10
    <3> HIDE DEF a, b, old
    <3>2. a \in 0..Len(old)
      BY <2>1
    <3> QED BY <2>1, <3>1, <3>2, PutNodeProperties
  <2>3. Len(layer) = a + 1
    BY <2>1, <2>2
  <2>4. ASSUME NEW i \in 0..a PROVE layer[i + 1] = U[l][i]
    <3>1. CASE i = a
      BY <1>10, <2>2, <3>1
    <3>2. CASE i # a
      <4>1. i \in 0..b /\ i \in 0..(Len(old) - 1)
        BY <2>1, <3>2
      <4>2. layer[i + 1] = T[l][i]
        BY <1>8, <2>2, <3>2, <4>1
      <4>3. i \in Width(l)
        <5>1. a \in Width(l)
          BY <1>2
        <5> HIDE DEF a
        <5> QED BY <5>1, <2>1, TreeAssumption, PowerPositive DEF Width
      <4> QED BY <1>3, <3>2, <4>2, <4>3
    <3> QED BY <3>1, <3>2
  <2> QED BY <2>2, <2>3, <2>4 DEF Holds, A
<1> HIDE DEF A, B, T, U, c
<1>11. 0 \in Good
  <2> DEFINE first == [ls EXCEPT ![0] = Append(ls[0], leaf)]
  <2>1. c[0] = [index |-> Len(ls[0]), layers |-> first]
    BY <1>7 DEF PushLeaf
  <2>2. first = [j \in 0..Depth |-> IF j = 0 THEN Append(ls[0], leaf) ELSE ls[j]]
    BY <1>0, TreeAssumption
  <2> HIDE DEF first
  <2>6. c[0].index = A[0]
    BY <1>4, <2>1, <1>8, <1>9, <1>1, TreeAssumption
  <2>3. c[0].layers = [j \in 0..Depth |-> IF j = 0 THEN Append(ls[0], leaf) ELSE ls[j]]
    BY <2>1, <2>2, TreeAssumption
  <2>4. Append(ls[0], leaf) = PutNode(ls[0], A[0], leaf)
    BY <1>1, <1>4, <1>8, <1>9, TreeAssumption DEF PutNode
  <2>5. Holds(c[0].layers[0], 0, index, U)
    <3>1. c[0].layers[0] = Append(ls[0], leaf)
      BY <2>3, TreeAssumption
    <3>2. leaf = U[0][A[0]]
      BY <1>0, <1>4, <1>5
    <3>3. 0 \in 0..Depth
      BY TreeAssumption
    <3> QED BY <1>10, <2>4, <3>1, <3>2, <3>3
  <2>7. ASSUME NEW j \in 0..Depth
        PROVE  IF j > 0 THEN c[0].layers[j] = ls[j] ELSE Holds(c[0].layers[j], j, index, U)
    <3>1. CASE j = 0
      BY <2>5, <3>1
    <3>2. CASE j # 0
      <4>1. c[0].layers[j] = ls[j] /\ j > 0
        BY <2>3, <3>2, TreeAssumption
      <4> QED BY <4>1
    <3> QED BY <3>1, <3>2
  <2>8. c[0].layers = [j \in 0..Depth |-> c[0].layers[j]]
    BY <2>3
  <2> QED BY <2>6, <2>7, <2>8
<1>12. ASSUME NEW l \in Nat, l \in Good PROVE l + 1 \in Good
  <2> SUFFICES ASSUME l + 1 <= Depth PROVE Done(l + 1)
    OBVIOUS
  <2>1. l \in Levels /\ l <= Depth /\ l \in 0..Depth /\ l + 1 \in 0..Depth
    BY TreeAssumption DEF Levels
  <2>2. Done(l)
    BY <1>12, <2>1
  <2> HIDE DEF Good
  <2> DEFINE left  == NodeAt(c[l].layers, l, 2 * A[l + 1])
             right == NodeAt(c[l].layers, l, 2 * A[l + 1] + 1)
             put   == PutNode(ls[l + 1], A[l + 1], <<left, right>>)
  <2>3. A[l + 1] = A[l] \div 2 /\ A[l + 1] \in Width(l + 1)
    BY <1>2, <1>4, <2>1
  <2>4. /\ A[l + 1] \in Nat
        /\ 2 * A[l + 1] \in Width(l)
        /\ 2 * A[l + 1] + 1 \in Width(l)
    BY <2>1, <2>3, ChildrenInWidth
  <2>5. c[l].layers[l + 1] = ls[l + 1] /\ Holds(c[l].layers[l], l, index, U)
    BY <2>1, <2>2
  <2>6. left = U[l][2 * A[l + 1]] /\ right = U[l][2 * A[l + 1] + 1]
    <3>1. Holds(c[l].layers[l], l, index, CompleteTree(q))
      BY <2>5 DEF U
    <3>2. /\ NodeAt(c[l].layers, l, 2 * A[l + 1]) = CompleteTree(q)[l][2 * A[l + 1]]
          /\ NodeAt(c[l].layers, l, 2 * A[l + 1] + 1) = CompleteTree(q)[l][2 * A[l + 1] + 1]
      BY <1>0, <1>1, <2>1, <2>4, <3>1, NodeAtHolds
    <3> QED BY <3>2 DEF U
  <2>7. <<left, right>> = U[l + 1][A[l + 1]]
    BY <1>5, <2>1, <2>3, <2>6
  <2>8. c[l + 1] = [index  |-> A[l + 1],
                    layers |-> [c[l].layers EXCEPT ![l + 1] = put]]
    <3>1. c[l].index \div 2 = A[l + 1] /\ (l + 1) - 1 = l
      BY <2>1, <2>2, <2>3
    <3>2. c[l + 1] = UpdateParent(c[l], l + 1)
      BY <1>7, <2>1
    <3> QED BY <2>5, <3>1, <3>2 DEF UpdateParent, PoseidonHash
  <2>9. Holds(put, l + 1, index, U)
    <3> HIDE DEF left, right
    <3> QED BY <1>10, <2>1, <2>7
  <2> HIDE DEF left, right, put
  <2>10. c[l + 1].layers = [j \in 0..Depth |-> IF j = l + 1 THEN put ELSE c[l].layers[j]]
    <3> DEFINE old == c[l].layers
    <3>1. old = [j \in 0..Depth |-> old[j]]
      BY <2>2
    <3>2. c[l + 1].layers = [old EXCEPT ![l + 1] = put]
      BY <2>8
    <3> HIDE DEF old
    <3>3. c[l + 1].layers = [j \in 0..Depth |-> IF j = l + 1 THEN put ELSE old[j]]
      BY <3>1, <3>2
    <3> QED BY <3>3 DEF old
  <2>11. ASSUME NEW j \in 0..Depth
         PROVE  IF j > l + 1 THEN c[l + 1].layers[j] = ls[j]
                             ELSE Holds(c[l + 1].layers[j], j, index, U)
    <3>1. CASE j = l + 1
      BY <2>9, <2>10, <3>1
    <3>2. CASE j # l + 1
      <4>1. c[l + 1].layers[j] = c[l].layers[j]
        BY <2>10, <3>2
      <4>2. j > l + 1 <=> j > l
        BY <3>2, <2>1
      <4> QED BY <2>2, <4>1, <4>2
    <3> QED BY <3>1, <3>2
  <2>12. c[l + 1].index = A[l + 1]
    BY <2>8
  <2>13. c[l + 1].layers = [j \in 0..Depth |-> c[l + 1].layers[j]]
    BY <2>10
  <2> QED BY <2>11, <2>12, <2>13
<1> HIDE DEF Good
<1>13. Nat \subseteq Good
  BY <1>11, <1>12, SetInduction
<1>14. ASSUME NEW l \in 0..Depth PROVE Done(l)
  <2> HIDE DEF Done
  <2> QED BY <1>13, TreeAssumption DEF Good
<1> QED
  BY <1>14 DEF A, U, c, UpdatedUpTo

-----------------------------------------------------------------------------
(* The invariant holds                                                     *)

LEMMA PaddedTaken ==
    ASSUME TypeOK, NEW k \in 0..Len(leaves)
    PROVE  /\ \A i \in Width(0) : i > k - 1 => Padded(Taken(k))[i] = Zero
           /\ \A i \in Width(0) : i < k => Padded(Taken(k))[i] = leaves[i + 1]
           /\ Padded(Taken(k)) = [i \in Width(0) |-> Padded(Taken(k))[i]]
<1>1. /\ Len(Taken(k)) = k
      /\ \A i \in 1..k : Taken(k)[i] = leaves[i]
  BY TakenProperties DEF TypeOK
<1>2. Len(leaves) \in Nat /\ 2 ^ Depth \in Nat
  BY LenProperties, TreeAssumption, PowerPositive DEF TypeOK
<1>3. Width(0) = 0..(2 ^ Depth - 1)
  BY TreeAssumption DEF Width
<1>4. Padded(Taken(k)) = [i \in Width(0) |-> IF i < k THEN Taken(k)[i + 1] ELSE Zero]
  BY <1>1, <1>3 DEF Padded
<1>5. \A i \in Width(0) : i \in Nat
  BY <1>2, <1>3
<1> HIDE DEF Width
<1>6. ASSUME NEW i \in Width(0), i > k - 1 PROVE Padded(Taken(k))[i] = Zero
  BY <1>4, <1>5, <1>6
<1>7. ASSUME NEW i \in Width(0), i < k PROVE Padded(Taken(k))[i] = leaves[i + 1]
  <2>1. i + 1 \in 1..k
    BY <1>5, <1>7
  <2> QED BY <1>1, <1>4, <1>7, <2>1
<1>8. Padded(Taken(k)) = [i \in Width(0) |-> Padded(Taken(k))[i]]
  BY <1>4
<1> QED
  BY <1>6, <1>7, <1>8

LEMMA InitIInv == Init => IInv
<1> SUFFICES ASSUME Init PROVE IInv
  OBVIOUS
<1>1. leaves = <<>> /\ leaves \in Seq(LeafValues) /\ Len(leaves) = 0 /\ nextIndex = 0
  BY EmptySeq DEF Init
<1>2. \A l \in 0..Depth : layers[l] = <<>> /\ Len(layers[l]) = 0 /\ IsSequence(layers[l])
  BY EmptySeq DEF Init, IsSequence
<1>3. 2 ^ Depth \in Nat \ {0} /\ Depth \in Nat \ {0}
  BY TreeAssumption, PowerPositive
<1> DEFINE top == PoseidonHash(Zeros[Depth - 1], Zeros[Depth - 1])
<1>4. roots = <<top>> /\ IsSequence(roots) /\ Len(roots) = 1 /\ roots[1] = top
  <2>1. <<top>> \in Seq({top})
    OBVIOUS
  <2> QED BY <2>1 DEF Init, IsSequence
<1>5. TypeOK
  BY <1>1, <1>2, <1>3, <1>4 DEF TypeOK, Init
<1>6. RootsInv
  <2> DEFINE p == Padded(Taken(0))
  <2>1. 0 \in 0..Len(leaves)
    BY <1>1
  <2>2. \A i \in Width(0) : i > -1 => p[i] = Zero
    BY <1>5, <2>1, PaddedTaken
  <2> HIDE DEF p
  <2>3. \A l \in 0..Depth : \A i \in Width(l) :
           i > Ancestors(-1)[l] => CompleteTree(p)[l][i] = Zeros[l]
    BY <2>2, EmptyRight
  <2>4. Depth \in 0..Depth /\ 0 \in Width(Depth) /\ Ancestors(-1)[Depth] = -1
    BY <1>3, RootWidth, AncestorsOfNone
  <2>5. CompleteTree(p)[Depth][0] = Zeros[Depth]
    BY <2>3, <2>4
  <2>6. Zeros[Depth] = top
    <3>1. Depth - 1 \in Levels /\ (Depth - 1) + 1 = Depth
      BY <1>3 DEF Levels
    <3> QED BY <3>1, ZerosAt DEF PoseidonHash
  <2> QED BY <1>1, <1>4, <2>5, <2>6 DEF RootsInv, TreeOf, p
<1>7. FrontierInv
  <2> SUFFICES ASSUME NEW l \in Levels PROVE Ancestors(nextIndex)[l] % 2 # 1
    BY DEF FrontierInv
  <2>1. l \in 0..Depth /\ 0 \in Width(0)
    BY <1>3 DEF Levels, Width
  <2>2. Ancestors(0)[l] \in Width(l)
    BY <2>1, AncestorsInWidth
  <2>3. Ancestors(-1 + 1)[l] = Ancestors(-1)[l] \/ Ancestors(-1 + 1)[l] = Ancestors(-1)[l] + 1
    BY <2>1, AncestorsOfNext
  <2>4. Ancestors(0)[l] = 0
    BY <2>1, <2>2, <2>3, WidthInNat, AncestorsOfNone
  <2> QED BY <1>1, <2>4
<1>8. LayersInv
  <2>1. Replayed = 0 /\ Replayed - 1 = -1
    BY <1>2, <1>3 DEF Replayed
  <2> QED BY <1>1, <1>2, <2>1, AncestorsOfNone DEF LayersInv
<1> QED
  BY <1>5, <1>6, <1>7, <1>8 DEF IInv

LEMMA InsertStep ==
    ASSUME IInv, NEW leaf \in LeafValues, Insert(leaf)
    PROVE  IInv'
<1> DEFINE n == nextIndex
           A == Ancestors(n)
           B == Ancestors(n + 1)
           T == TreeOf(leaves)
           U == TreeOf(Append(leaves, leaf))
<1>1. /\ n < 2 ^ Depth
      /\ filledSubtrees' = Climb(leaf)[Depth].filled
      /\ roots' = Append(roots, Climb(leaf)[Depth].node)
      /\ nextIndex' = n + 1
      /\ leaves' = Append(leaves, leaf)
      /\ layers' = layers
  BY DEF Insert
<1>2. TypeOK /\ RootsInv /\ FrontierInv /\ LayersInv
  BY DEF IInv
<1>3. Depth \in Nat \ {0} /\ 2 ^ Depth \in Nat
  BY TreeAssumption, PowerPositive
<1>4. /\ leaves' \in Seq(LeafValues)
      /\ Len(leaves') = Len(leaves) + 1
      /\ Len(leaves) \in Nat
      /\ n = Len(leaves)
      /\ \A k \in 0..Len(leaves) : Taken(k)' = Taken(k)
  BY <1>1, <1>2, TakenAppend DEF TypeOK
<1>5. /\ n \in Width(0)
      /\ \A i \in Width(0) : i # n => Padded(leaves)[i] = Padded(Append(leaves, leaf))[i]
  BY <1>1, <1>2, <1>4, PaddedAppend DEF TypeOK
<1>6. \A l \in 0..Depth : A[l] \in Width(l) /\ A[l] \in Nat
  BY <1>5, AncestorsInWidth, WidthInNat
<1>7. /\ Climb(leaf)[Depth].node = U[Depth][A[Depth]]
      /\ Climb(leaf)[Depth].filled =
            [j \in Levels |-> IF j < Depth /\ A[j] % 2 = 0 THEN U[j][A[j]]
                                                          ELSE filledSubtrees[j]]
  <2>1. \A l \in 0..Depth :
           /\ Climb(leaf)[l].index = A[l]
           /\ Climb(leaf)[l].node = U[l][A[l]]
           /\ Climb(leaf)[l].filled =
                [j \in Levels |-> IF j < l /\ A[j] % 2 = 0 THEN U[j][A[j]]
                                                          ELSE filledSubtrees[j]]
    BY <1>1, <1>2, ClimbNodes, Zenon
  <2>2. Depth \in 0..Depth
    BY <1>3
  <2> HIDE DEF A, U
  <2> QED BY <2>1, <2>2
<1>8. filledSubtrees' = [j \in Levels |-> IF A[j] % 2 = 0 THEN U[j][A[j]]
                                                         ELSE filledSubtrees[j]]
  <2>1. \A j \in Levels : j < Depth
    BY <1>3 DEF Levels
  <2> HIDE DEF A, U
  <2> QED BY <1>1, <1>7, <2>1
<1>9. roots' = Append(roots, U[Depth][0])
  <2>1. A[Depth] = 0
    BY <1>3, <1>6, RootWidth
  <2> QED BY <1>1, <1>7, <2>1
<1>10. /\ IsSequence(roots')
       /\ Len(roots') = Len(roots) + 1
       /\ \A i \in 1..Len(roots) : roots'[i] = roots[i]
       /\ roots'[Len(roots) + 1] = U[Depth][0]
  <2> HIDE DEF U
  <2> QED BY <1>2, <1>9, AppendNode DEF TypeOK
<1>11. TypeOK'
  <2>1. Len(leaves') <= 2 ^ Depth
    BY <1>1, <1>3, <1>4
  <2>2. filledSubtrees' = [l \in Levels |-> filledSubtrees'[l]]
    <3> HIDE DEF A, U
    <3> QED BY <1>8
  <2> QED BY <1>1, <1>2, <1>4, <1>10, <2>1, <2>2 DEF TypeOK
<1>12. RootsInv'
  <2>1. Len(roots) = Len(leaves) + 1 /\ Len(roots') = Len(leaves') + 1
    BY <1>2, <1>4, <1>10 DEF RootsInv
  <2>2. ASSUME NEW k \in 0..Len(leaves')
        PROVE  roots'[k + 1] = TreeOf(Taken(k)')[Depth][0]
    <3>1. CASE k = Len(leaves')
      <4>1. Taken(k)' = leaves'
        BY <1>4, <3>1, SubSeqFull DEF Taken
      <4> QED BY <1>1, <1>4, <1>10, <2>1, <3>1, <4>1
    <3>2. CASE k # Len(leaves')
      <4>1. k \in 0..Len(leaves) /\ k + 1 \in 1..Len(roots)
        BY <1>4, <2>1, <3>2
      <4> QED BY <1>2, <1>4, <1>10, <4>1 DEF RootsInv
    <3> QED BY <3>1, <3>2
  <2> QED BY <2>1, <2>2 DEF RootsInv, TreeOf, Taken
<1>13. FrontierInv'
  <2> SUFFICES ASSUME NEW l \in Levels, B[l] % 2 = 1
               PROVE  filledSubtrees'[l] = U[l][B[l] - 1]
    BY <1>1 DEF FrontierInv, TreeOf
  <2>1. l \in 0..Depth /\ A[l] \in Nat /\ A[l] \in Width(l)
    BY <1>3, <1>6 DEF Levels
  <2>2. B[l] = A[l] \/ B[l] = A[l] + 1
    BY <1>4, <2>1, AncestorsOfNext
  <2>3. \A i \in Width(l) : i # A[l] => T[l][i] = U[l][i]
    BY <1>4, <1>5, <2>1, OtherNodesKept DEF TreeOf
  <2>4. A[l] % 2 = 1 => filledSubtrees[l] = T[l][A[l] - 1]
    BY <1>2 DEF FrontierInv
  <2>5. 2 ^ (Depth - l) \in Nat
    BY <2>1, PowerPositive, <1>3
  <2>6. A[l] % 2 = 1 => A[l] - 1 \in Width(l)
    <3> HIDE DEF A
    <3> QED BY <2>1, <2>5 DEF Width
  <2> HIDE DEF A, B, T, U
  <2>7. CASE B[l] = A[l]
    <3>1. filledSubtrees'[l] = filledSubtrees[l]
      BY <1>8, <2>7
    <3>2. A[l] - 1 # A[l]
      BY <2>1
    <3> QED BY <2>3, <2>4, <2>6, <2>7, <3>1, <3>2
  <2>8. CASE B[l] = A[l] + 1
    <3>1. A[l] % 2 = 0 /\ B[l] - 1 = A[l]
      BY <2>1, <2>8
    <3> QED BY <1>8, <3>1
  <2> QED BY <2>2, <2>7, <2>8
<1>14. LayersInv'
  <2>1. Replayed' = Replayed /\ Replayed \in Nat /\ Replayed \in 0..Len(leaves)
    <3>1. Replayed \in Nat
      BY <1>2, <1>3, AppendNode DEF TypeOK, Replayed
    <3> QED BY <1>1, <1>2, <3>1 DEF Replayed, LayersInv
  <2>2. Taken(Replayed)' = Taken(Replayed)
    BY <1>4, <2>1 DEF Taken
  <2>3. Replayed <= Len(leaves')
    BY <1>2, <1>4, <2>1 DEF LayersInv
  <2>4. \A l \in 0..Depth :
           /\ Len(layers'[l]) = Ancestors(Replayed' - 1)[l] + 1
           /\ \A i \in 0..Ancestors(Replayed' - 1)[l] :
                  layers'[l][i + 1] = TreeOf(Taken(Replayed)')[l][i]
    BY <1>1, <1>2, <2>1, <2>2, Zenon DEF LayersInv
  <2> QED BY <1>1, <2>1, <2>3, <2>4 DEF LayersInv, TreeOf, Taken
<1> QED
  BY <1>11, <1>12, <1>13, <1>14 DEF IInv

LEMMA ReplayStep ==
    ASSUME IInv, Replay
    PROVE  IInv'
<1> DEFINE k == Replayed
           leaf == leaves[k + 1]
           p == Padded(Taken(k))
           q == Padded(Taken(k + 1))
<1>1. /\ k < Len(leaves)
      /\ layers' = Update(layers, leaf)[Depth].layers
      /\ UNCHANGED <<nextIndex, filledSubtrees, roots, leaves>>
  BY DEF Replay, TreeInsert, Replayed
<1>2. TypeOK /\ RootsInv /\ FrontierInv /\ LayersInv
  BY DEF IInv
<1>3. Depth \in Nat \ {0} /\ 2 ^ Depth \in Nat /\ Depth \in 0..Depth
  BY TreeAssumption, PowerPositive
<1>4. k \in Nat /\ k \in 0..(Len(leaves) - 1) /\ k \in 0..Len(leaves)
      /\ k + 1 \in 0..Len(leaves) /\ Len(leaves) \in Nat
  <2>1. k \in Nat
    BY <1>2, <1>3, AppendNode DEF TypeOK, Replayed
  <2>2. Len(leaves) \in Nat
    BY <1>2, LenProperties DEF TypeOK
  <2> HIDE DEF k
  <2> QED BY <1>1, <2>1, <2>2
<1>5. leaf \in LeafValues /\ Taken(k + 1) = Append(Taken(k), leaf)
  BY <1>2, <1>4, TakenNext DEF TypeOK
<1>6. Taken(k) \in Seq(LeafValues) /\ Len(Taken(k)) = k
  BY <1>2, <1>4, TakenProperties DEF TypeOK
<1>7. k \in Width(0) /\ OneMoreLeaf(p, q, k, leaf)
  <2>1. k < 2 ^ Depth
    BY <1>1, <1>2, <1>3, <1>4 DEF TypeOK
  <2> DEFINE taken == Taken(k)
  <2>2. /\ taken \in Seq(LeafValues) /\ leaf \in LeafValues
        /\ Len(taken) = k /\ Len(taken) < 2 ^ Depth
    BY <1>5, <1>6, <2>1
  <2>3. p = Padded(taken) /\ q = Padded(Append(taken, leaf))
    BY <1>5
  <2> HIDE DEF k, leaf, p, q, taken
  <2>4. /\ Len(taken) \in Width(0)
        /\ OneMoreLeaf(Padded(taken), Padded(Append(taken, leaf)), Len(taken), leaf)
    BY <2>2, PaddedAppend DEF OneMoreLeaf
  <2> QED BY <2>2, <2>3, <2>4, Zenon
<1>8. HoldTree(layers, k - 1, CompleteTree(p))
  BY <1>2 DEF TypeOK, LayersInv, Holds, TreeOf, HoldTree
<1>9. \A l \in 0..Depth :
          UpdatedUpTo(l, Update(layers, leaf)[l], layers, k, CompleteTree(q))
  <2> HIDE DEF k, leaf, p, q
  <2> QED BY <1>7, <1>8, UpdateHolds, Zenon
<1>10. UpdatedUpTo(Depth, Update(layers, leaf)[Depth], layers, k, CompleteTree(q))
  <2> HIDE DEF k, leaf, q
  <2> QED BY <1>3, <1>9
<1>11. /\ layers' = [j \in 0..Depth |-> layers'[j]]
       /\ \A j \in 0..Depth : Holds(layers'[j], j, k, CompleteTree(q))
  <2> HIDE DEF k, leaf, p, q
  <2>1. \A j \in 0..Depth : ~(j > Depth)
    BY <1>3
  <2> QED BY <1>1, <1>10, <2>1 DEF UpdatedUpTo
<1>12. Replayed' = k + 1 /\ Replayed' - 1 = k /\ Replayed' <= Len(leaves')
  <2>1. Len(layers'[0]) = Ancestors(k)[0] + 1
    BY <1>3, <1>11 DEF Holds
  <2>2. Replayed' = k + 1
    BY <2>1, AncestorsAt DEF Replayed
  <2> HIDE DEF k
  <2> QED BY <1>1, <1>4, <2>2
<1>13. TypeOK'
  <2>1. \A j \in 0..Depth : IsSequence(layers'[j])
    BY <1>11 DEF Holds
  <2> QED BY <1>1, <1>2, <1>11, <2>1 DEF TypeOK
<1>14. RootsInv'
  BY <1>1, <1>2 DEF RootsInv, TreeOf, Taken
<1>15. FrontierInv'
  BY <1>1, <1>2 DEF FrontierInv, TreeOf
<1>16. LayersInv'
  <2>1. q = Padded(SubSeq(leaves', 1, k + 1))
    BY <1>1 DEF Taken
  <2> HIDE DEF k, q
  <2>2. \A l \in 0..Depth :
           /\ Len(layers'[l]) = Ancestors(k)[l] + 1
           /\ \A i \in 0..Ancestors(k)[l] : layers'[l][i + 1] = CompleteTree(q)[l][i]
    BY <1>11 DEF Holds
  <2> QED BY <1>12, <2>1, <2>2 DEF LayersInv, TreeOf, Taken
<1> QED
  BY <1>13, <1>14, <1>15, <1>16 DEF IInv

LEMMA NextIInv == IInv /\ [Next]_vars => IInv'
<1> SUFFICES ASSUME IInv, [Next]_vars PROVE IInv'
  OBVIOUS
<1>1. ASSUME NEW leaf \in LeafValues, Insert(leaf) PROVE IInv'
  BY <1>1, InsertStep
<1>2. CASE Replay
  BY <1>2, ReplayStep
<1>3. CASE UNCHANGED vars
  BY <1>3 DEF IInv, TypeOK, RootsInv, FrontierInv, LayersInv, Replayed, TreeOf, Taken, vars
<1> QED
  BY <1>1, <1>2, <1>3 DEF Next

THEOREM InvariantHolds == Spec => []IInv
BY InitIInv, NextIInv, PTL DEF Spec

-----------------------------------------------------------------------------
(* What the invariant says of program, SDK and circuit                     *)

\* After every insertion the program's last root is that of the complete tree
\* over all leaves: one node kept per level is enough (Pool::insert).
LEMMA ChainRoot == IInv => ChainRootIsTreeRoot
<1> SUFFICES ASSUME IInv PROVE ChainRootIsTreeRoot
  OBVIOUS
<1>1. TypeOK /\ RootsInv
  BY DEF IInv
<1>2. Len(leaves) \in Nat /\ Taken(Len(leaves)) = leaves
  BY <1>1, LenProperties, TakenAll DEF TypeOK
<1>3. Len(leaves) \in 0..Len(leaves)
  BY <1>2
<1>4. roots[Len(leaves) + 1] = TreeOf(leaves)[Depth][0] /\ Len(roots) = Len(leaves) + 1
  BY <1>1, <1>2, <1>3 DEF RootsInv
<1> QED
  BY <1>4 DEF ChainRootIsTreeRoot, ReferenceNode, TreeOf

THEOREM ChainRootIsTheTreeRoot == Spec => []ChainRootIsTreeRoot
BY InvariantHolds, ChainRoot, PTL

\* What the SDK's layers hold, and what its nodes are, also to their right.
LEMMA SdkTree ==
    ASSUME IInv
    PROVE  /\ Replayed \in 0..Len(leaves) /\ Replayed \in Nat
           /\ \A l \in 0..Depth : \A i \in Width(l) :
                 NodeAt(layers, l, i) = TreeOf(Taken(Replayed))[l][i]
<1> DEFINE k == Replayed
           p == Padded(Taken(k))
<1>1. TypeOK /\ LayersInv
  BY DEF IInv
<1>2. k \in Nat /\ k \in 0..Len(leaves)
  <2>1. k \in Nat
    BY <1>1, TreeAssumption, AppendNode DEF TypeOK, Replayed
  <2>2. Len(leaves) \in Nat
    BY <1>1, LenProperties DEF TypeOK
  <2> QED BY <1>1, <2>1, <2>2 DEF LayersInv
<1>3. \A i \in Width(0) : i > k - 1 => p[i] = Zero
  BY <1>1, <1>2, PaddedTaken
<1>4. \A l \in 0..Depth : Holds(layers[l], l, k - 1, CompleteTree(p))
  BY <1>1 DEF TypeOK, LayersInv, Holds, TreeOf
<1>5. ASSUME NEW l \in 0..Depth, NEW i \in Width(l)
      PROVE  NodeAt(layers, l, i) = CompleteTree(p)[l][i]
  <2>1. i \in Nat /\ k - 1 \in Int
    BY <1>2, <1>5, WidthInNat
  <2> DEFINE ls == layers
             last == k - 1
  <2>2. Holds(ls[l], l, last, CompleteTree(p)) /\ last \in Int
        /\ \A j \in Width(0) : j > last => p[j] = Zero
    BY <1>3, <1>4, <1>5, <2>1
  <2> HIDE DEF k, p, ls, last
  <2>3. NodeAt(ls, l, i) = CompleteTree(p)[l][i]
    BY <1>5, <2>1, <2>2, NodeAtHolds
  <2> QED BY <2>3 DEF ls
<1> QED
  BY <1>2, <1>5 DEF TreeOf

LEMMA SdkRoot ==
    ASSUME IInv
    PROVE  TreeRoot(layers) = TreeOf(Taken(Replayed))[Depth][0]
<1>1. Depth \in 0..Depth /\ 0 \in Width(Depth)
  BY TreeAssumption, RootWidth
<1>2. NodeAt(layers, Depth, 0) = TreeOf(Taken(Replayed))[Depth][0]
  BY <1>1, SdkTree
<1>3. CASE layers[0] = <<>>
  <2>1. Replayed = 0 /\ Replayed - 1 = -1
    BY <1>3 DEF Replayed
  <2>2. Len(layers[Depth]) = Ancestors(Replayed - 1)[Depth] + 1
    BY <1>1 DEF IInv, LayersInv
  <2>3. Ancestors(Replayed - 1)[Depth] = -1
    BY <1>1, <2>1, AncestorsOfNone
  <2>4. Len(layers[Depth]) = 0
    BY <2>2, <2>3
  <2>5. NodeAt(layers, Depth, 0) = Zeros[Depth]
    BY <2>4 DEF NodeAt
  <2> QED BY <1>2, <1>3, <2>5 DEF TreeRoot
<1>4. CASE layers[0] # <<>>
  BY <1>2, <1>4 DEF TreeRoot
<1> QED
  BY <1>3, <1>4

\* A client that has replayed k leaves is at the root of the pool after its
\* k-th deposit (MerkleTree.insert and Pool::insert).
LEMMA SdkFollows == IInv => SdkFollowsChain
<1> SUFFICES ASSUME IInv PROVE SdkFollowsChain
  OBVIOUS
<1>1. roots[Replayed + 1] = TreeOf(Taken(Replayed))[Depth][0]
  BY SdkTree DEF IInv, RootsInv
<1> QED
  BY <1>1, SdkRoot DEF SdkFollowsChain, Replayed

THEOREM SdkFollowsTheChain == Spec => []SdkFollowsChain
BY InvariantHolds, SdkFollows, PTL

-----------------------------------------------------------------------------
(* The circuit's view of a path                                            *)

LEMMA LevelHashesAt ==
    ASSUME NEW v, NEW path
    PROVE  /\ LevelHashes(v, path)[0] = v
           /\ \A l \in Levels :
                 LevelHashes(v, path)[l + 1] =
                     IF path[l].side = 1
                     THEN <<path[l].element, LevelHashes(v, path)[l]>>
                     ELSE <<LevelHashes(v, path)[l], path[l].element>>
<1>1. LevelHashes(v, path) = [i \in 0 .. Depth |->
               IF i = 0 THEN v
               ELSE IF path[i - 1].side = 1
               THEN PoseidonHash(path[i - 1].element, LevelHashes(v, path)[i - 1])
               ELSE PoseidonHash(LevelHashes(v, path)[i - 1], path[i - 1].element)]
  BY LevelHashesDef
<1> DEFINE H == LevelHashes(v, path)
<1>2. \A i \in 0..Depth :
         H[i] = IF i = 0 THEN v
                ELSE IF path[i - 1].side = 1
                THEN <<path[i - 1].element, H[i - 1]>>
                ELSE <<H[i - 1], path[i - 1].element>>
  BY <1>1 DEF PoseidonHash
<1> HIDE DEF H
<1>3. 0 \in 0..Depth /\ \A l \in Levels : l + 1 \in 0..Depth /\ l + 1 # 0 /\ (l + 1) - 1 = l
  BY TreeAssumption DEF Levels
<1>4. H[0] = v
  BY <1>2, <1>3
<1>5. ASSUME NEW l \in Levels
      PROVE  H[l + 1] = IF path[l].side = 1 THEN <<path[l].element, H[l]>>
                                            ELSE <<H[l], path[l].element>>
  <2> DEFINE i == l + 1
  <2>1. i \in 0..Depth /\ i # 0 /\ i - 1 = l
    BY <1>3
  <2> HIDE DEF i
  <2>2. H[i] = IF path[i - 1].side = 1 THEN <<path[i - 1].element, H[i - 1]>>
                                       ELSE <<H[i - 1], path[i - 1].element>>
    BY <1>2, <2>1
  <2>3. H[i] = IF path[l].side = 1 THEN <<path[l].element, H[l]>>
                                   ELSE <<H[l], path[l].element>>
    BY <2>1, <2>2
  <2> QED BY <2>3 DEF i
<1> QED
  BY <1>4, <1>5 DEF H

\* Along the way to the root, a value hashes to the nodes of the tree exactly
\* when it is the leaf: hashes are pairs, and pairs are equal part by part.
LEMMA PathProves == IInv => PathProvesItsLeafOnly
<1> SUFFICES ASSUME IInv,
                    NEW k \in 1..Len(layers[0]), NEW v \in LeafValues
             PROVE  PathRoot(v, GetProof(layers, k - 1)) = TreeRoot(layers) <=> v = leaves[k]
  BY DEF PathProvesItsLeafOnly
<1> DEFINE index == k - 1
           path == GetProof(layers, index)
           A == Ancestors(index)
           p == Padded(Taken(Replayed))
           T == CompleteTree(p)
           H == LevelHashes(v, path)
           Good == {l \in Nat : l <= Depth => (H[l] = T[l][A[l]] <=> v = leaves[k])}
<1>1. /\ Replayed \in 0..Len(leaves) /\ Replayed \in Nat
      /\ \A l \in 0..Depth : \A i \in Width(l) : NodeAt(layers, l, i) = T[l][i]
  BY SdkTree DEF TreeOf
<1>2. TypeOK /\ Len(leaves) \in Nat /\ Len(leaves) <= 2 ^ Depth /\ 2 ^ Depth \in Nat
  BY LenProperties, TreeAssumption, PowerPositive DEF IInv, TypeOK
<1>3. k \in Nat /\ index \in Nat /\ index + 1 = k /\ index < Replayed
  BY <1>1 DEF Replayed
<1>4. index \in Width(0)
  <2>1. Width(0) = 0..(2 ^ Depth - 1)
    BY TreeAssumption DEF Width
  <2> HIDE DEF index
  <2> QED BY <1>1, <1>2, <1>3, <2>1
<1>5. p[index] = leaves[k]
  <2> HIDE DEF index, p
  <2>1. Padded(Taken(Replayed))[index] = leaves[index + 1]
    BY <1>1, <1>2, <1>3, <1>4, PaddedTaken
  <2> QED BY <1>3, <2>1 DEF p
<1>6. A[0] = index /\ \A l \in Levels : A[l + 1] = A[l] \div 2
  BY AncestorsAt
<1>7. \A l \in 0..Depth : A[l] \in Width(l) /\ A[l] \in Nat
  BY <1>4, AncestorsInWidth, WidthInNat
<1>8. T[0] = p /\ \A l \in Levels : \A i \in Width(l + 1) :
         T[l + 1][i] = <<T[l][2 * i], T[l][2 * i + 1]>>
  BY CompleteTreeAt
<1>9. /\ H[0] = v
      /\ \A l \in Levels : H[l + 1] = IF path[l].side = 1 THEN <<path[l].element, H[l]>>
                                                          ELSE <<H[l], path[l].element>>
  <2> HIDE DEF path
  <2> QED BY LevelHashesAt
<1>10. \A l \in Levels :
          /\ path[l].side = A[l] % 2
          /\ path[l].element =
                NodeAt(layers, l, IF A[l] % 2 = 1 THEN A[l] - 1 ELSE A[l] + 1)
  BY DEF GetProof
<1> HIDE DEF index, path, A, p, T, H
<1>11. 0 \in Good
  BY <1>5, <1>6, <1>8, <1>9
<1>12. ASSUME NEW l \in Nat, l \in Good PROVE l + 1 \in Good
  <2> SUFFICES ASSUME l + 1 <= Depth
               PROVE  H[l + 1] = T[l + 1][A[l + 1]] <=> v = leaves[k]
    OBVIOUS
  <2>1. l \in Levels /\ l <= Depth /\ l \in 0..Depth /\ l + 1 \in 0..Depth
    BY TreeAssumption DEF Levels
  <2>2. H[l] = T[l][A[l]] <=> v = leaves[k]
    BY <1>12, <2>1
  <2> HIDE DEF Good
  <2>3. A[l + 1] = A[l] \div 2 /\ A[l + 1] \in Width(l + 1) /\ A[l] \in Nat
    BY <1>6, <1>7, <2>1
  <2> DEFINE a == A[l + 1]
  <2>4. a \in Nat /\ 2 * a \in Width(l) /\ 2 * a + 1 \in Width(l)
    BY <2>1, <2>3, ChildrenInWidth
  <2>5. T[l + 1][a] = <<T[l][2 * a], T[l][2 * a + 1]>>
    BY <1>8, <2>1, <2>3
  <2>6. CASE A[l] % 2 = 1
    <3>1. A[l] = 2 * a + 1 /\ A[l] - 1 = 2 * a
      BY <2>3, <2>6
    <3>2. path[l].side = 1 /\ path[l].element = T[l][2 * a]
      BY <1>1, <1>10, <2>1, <2>4, <2>6, <3>1
    <3>3. H[l + 1] = <<T[l][2 * a], H[l]>>
      BY <1>9, <2>1, <3>2
    <3> HIDE DEF a
    <3>4. <<T[l][2 * a], H[l]>> = <<T[l][2 * a], T[l][2 * a + 1]>>
             <=> H[l] = T[l][2 * a + 1]
      OBVIOUS
    <3> QED BY <2>2, <2>5, <3>1, <3>3, <3>4 DEF a
  <2>7. CASE A[l] % 2 = 0
    <3>1. A[l] = 2 * a /\ A[l] + 1 = 2 * a + 1
      BY <2>3, <2>7
    <3>2. path[l].side = 0 /\ path[l].element = T[l][2 * a + 1]
      BY <1>1, <1>10, <2>1, <2>4, <2>7, <3>1
    <3>3. H[l + 1] = <<H[l], T[l][2 * a + 1]>>
      <4>1. path[l].side # 1
        BY <3>2
      <4>2. H[l + 1] = <<H[l], path[l].element>>
        BY <1>9, <2>1, <4>1
      <4> QED BY <3>2, <4>2, Zenon
    <3> HIDE DEF a
    <3>4. <<H[l], T[l][2 * a + 1]>> = <<T[l][2 * a], T[l][2 * a + 1]>>
             <=> H[l] = T[l][2 * a]
      OBVIOUS
    <3> QED BY <2>2, <2>5, <3>1, <3>3, <3>4 DEF a
  <2> QED
    BY <2>3, <2>6, <2>7
<1> HIDE DEF Good
<1>13. Nat \subseteq Good
  BY <1>11, <1>12, SetInduction
<1>14. H[Depth] = T[Depth][A[Depth]] <=> v = leaves[k]
  BY <1>13, TreeAssumption DEF Good
<1>15. A[Depth] = 0
  BY <1>7, TreeAssumption, RootWidth
<1>16. TreeRoot(layers) = T[Depth][0]
  BY SdkRoot DEF TreeOf, T, p
<1> QED
  BY <1>14, <1>15, <1>16 DEF PathRoot, H, path, index

\* The path the SDK gives for a leaf convinces the circuit of that leaf, under
\* the SDK's root, and of no other one (getProof and template MerkleProof).
THEOREM PathsProveTheirLeavesOnly == Spec => []PathProvesItsLeafOnly
BY InvariantHolds, PathProves, PTL

-----------------------------------------------------------------------------
(* A root stands for the leaves below it                                   *)

NonZero(n) == {j \in 1..n : leaves[j] # Zero}

\* Equal paddings and equal non-zero leaves are the same thing.
LEMMA PaddedEqual ==
    ASSUME TypeOK, NEW m \in 0..Len(leaves), NEW n \in 0..Len(leaves)
    PROVE  (\A i \in Width(0) : Padded(Taken(m))[i] = Padded(Taken(n))[i])
               <=> NonZero(m) = NonZero(n)
<1> DEFINE p == Padded(Taken(m))
           q == Padded(Taken(n))
           w == 2 ^ Depth
<1>1. w \in Nat /\ Width(0) = 0..(w - 1) /\ Len(leaves) \in Nat /\ Len(leaves) <= w
  BY LenProperties, TreeAssumption, PowerPositive DEF TypeOK, Width
<1>2. /\ \A i \in Width(0) : i > m - 1 => p[i] = Zero
      /\ \A i \in Width(0) : i < m => p[i] = leaves[i + 1]
  BY PaddedTaken
<1>3. /\ \A i \in Width(0) : i > n - 1 => q[i] = Zero
      /\ \A i \in Width(0) : i < n => q[i] = leaves[i + 1]
  BY PaddedTaken
<1> HIDE DEF p, q, w
<1>4. ASSUME NEW j \in 1..Len(leaves) PROVE j - 1 \in Width(0) /\ (j - 1) + 1 = j
  BY <1>1
<1>5. /\ \A j \in 1..Len(leaves) : j \in NonZero(m) <=> p[j - 1] # Zero
      /\ \A j \in 1..Len(leaves) : j \in NonZero(n) <=> q[j - 1] # Zero
  <2> SUFFICES ASSUME NEW j \in 1..Len(leaves)
               PROVE  /\ j \in NonZero(m) <=> p[j - 1] # Zero
                      /\ j \in NonZero(n) <=> q[j - 1] # Zero
    OBVIOUS
  <2> DEFINE i == j - 1
  <2>1. i \in Width(0) /\ i + 1 = j /\ i \in Int
    BY <1>4
  <2>2. (i < m <=> j <= m) /\ (i > m - 1 <=> ~(j <= m))
        /\ (i < n <=> j <= n) /\ (i > n - 1 <=> ~(j <= n))
    OBVIOUS
  <2> HIDE DEF i
  <2>3. j \in NonZero(m) <=> p[i] # Zero
    BY <1>2, <2>1, <2>2 DEF NonZero
  <2>4. j \in NonZero(n) <=> q[i] # Zero
    BY <1>3, <2>1, <2>2 DEF NonZero
  <2> QED BY <2>3, <2>4 DEF i
<1>6. NonZero(m) \subseteq 1..Len(leaves) /\ NonZero(n) \subseteq 1..Len(leaves)
  BY <1>1 DEF NonZero
<1>7. ASSUME \A i \in Width(0) : p[i] = q[i] PROVE NonZero(m) = NonZero(n)
  <2>1. \A j \in 1..Len(leaves) : p[j - 1] = q[j - 1]
    BY <1>4, <1>7
  <2> QED BY <1>5, <1>6, <2>1
<1>8. ASSUME NonZero(m) = NonZero(n), NEW i \in Width(0) PROVE p[i] = q[i]
  <2>1. CASE i < Len(leaves)
    <3>1. i \in Nat /\ i + 1 \in 1..Len(leaves) /\ (i + 1) - 1 = i
      BY <1>1, <2>1
    <3>2. p[i] # Zero <=> q[i] # Zero
      <4> DEFINE j == i + 1
      <4>1. j \in 1..Len(leaves) /\ j - 1 = i
        BY <3>1
      <4> HIDE DEF j
      <4> QED BY <1>5, <1>8, <4>1
    <3>3. (i < m \/ p[i] = Zero) /\ (i < n \/ q[i] = Zero)
      BY <1>2, <1>3, <3>1
    <3>4. (i < m => p[i] = leaves[i + 1]) /\ (i < n => q[i] = leaves[i + 1])
      BY <1>2, <1>3
    <3> QED BY <3>2, <3>3, <3>4
  <2>2. CASE ~(i < Len(leaves))
    <3>1. i > m - 1 /\ i > n - 1
      BY <1>1, <2>2
    <3> QED BY <1>2, <1>3, <3>1
  <2> QED BY <2>1, <2>2
<1> QED
  BY <1>7, <1>8 DEF p, q

LEMMA RootsIdentify == IInv => RootIdentifiesLeaves
<1> SUFFICES ASSUME IInv, NEW m \in 0..Len(leaves), NEW n \in 0..Len(leaves)
             PROVE  roots[m + 1] = roots[n + 1] <=>
                       [i \in NonZero(m) |-> leaves[i]] = [i \in NonZero(n) |-> leaves[i]]
  BY Zenon DEF RootIdentifiesLeaves, NonZero
<1> DEFINE p == Padded(Taken(m))
           q == Padded(Taken(n))
<1>1. TypeOK /\ roots[m + 1] = CompleteTree(p)[Depth][0]
             /\ roots[n + 1] = CompleteTree(q)[Depth][0]
  BY DEF IInv, RootsInv, TreeOf
<1>2. (\A i \in Width(0) : p[i] = q[i]) <=> NonZero(m) = NonZero(n)
  BY <1>1, PaddedEqual
<1>3. p = [i \in Width(0) |-> p[i]] /\ q = [i \in Width(0) |-> q[i]]
  BY <1>1, PaddedTaken
<1> HIDE DEF p, q
<1>4. NonZero(m) = NonZero(n) <=>
         [i \in NonZero(m) |-> leaves[i]] = [i \in NonZero(n) |-> leaves[i]]
  <2> DEFINE f == [i \in NonZero(m) |-> leaves[i]]
             g == [i \in NonZero(n) |-> leaves[i]]
  <2>1. DOMAIN f = NonZero(m) /\ DOMAIN g = NonZero(n)
    OBVIOUS
  <2>2. f = g => NonZero(m) = NonZero(n)
    <3> HIDE DEF f, g
    <3> QED BY <2>1
  <2> QED BY <2>2
<1>5. (\A i \in Width(0) : p[i] = q[i]) <=> CompleteTree(p)[Depth][0] = CompleteTree(q)[Depth][0]
  <2>1. CompleteTree(p)[Depth][0] = CompleteTree(q)[Depth][0] => \A i \in Width(0) : p[i] = q[i]
    BY RootDeterminesLeaves
  <2>2. (\A i \in Width(0) : p[i] = q[i]) => p = q
    BY <1>3
  <2> QED BY <2>1, <2>2
<1> QED
  BY <1>1, <1>2, <1>4, <1>5

\* Two roots of a pool are equal exactly when the non-zero leaves below them
\* are the same, place by place: roots may stand for histories in module Pool.
THEOREM RootsIdentifyLeaves == Spec => []RootIdentifiesLeaves
BY InvariantHolds, RootsIdentify, PTL

=============================================================================
