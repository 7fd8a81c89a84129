----------------------------- MODULE MerkleTree -----------------------------
(***************************************************************************)
(* The commitment tree in its three incarnations: the program keeps only   *)
(* the frontier and hashes one path per insertion (state.rs); the SDK      *)
(* replays the leaves into a layered tree and reads a path out of it       *)
(* (sdk/src/proof.ts); the circuit recomputes a root from a leaf and a     *)
(* path (circuits/merkle/merkle_proof.circom).                             *)
(*                                                                         *)
(* Poseidon is collision free: the hash of two nodes is their pair.        *)
(***************************************************************************)
EXTENDS Integers, Sequences

CONSTANTS
    Depth,                \* 20 in the code
    Zero,                 \* the zero leaf
    LeafValues,           \* commitments to insert
    SaturationThreshold

ASSUME TreeAssumption ==
    /\ Depth \in Nat \ {0}
    /\ SaturationThreshold \in Nat /\ SaturationThreshold < 2 ^ Depth

VARIABLES
    nextIndex,       \* next_index
    filledSubtrees,  \* filled_subtrees
    roots,           \* every root the pool had, the empty tree's first
    leaves,          \* history: the leaves inserted
    layers           \* the SDK's tree

vars == <<nextIndex, filledSubtrees, roots, leaves, layers>>

Levels == 0 .. Depth - 1

PoseidonHash(left, right) == <<left, right>>

\* Mutant of Zeros: every level uses the zero leaf.
UnhashedZeros == [i \in 0 .. Depth |-> Zero]

Zeros ==
    LET z[i \in 0 .. Depth] ==
            IF i = 0 THEN Zero ELSE PoseidonHash(z[i - 1], z[i - 1])
    IN z

\* current_index of every loop: where the way from the leaf at an index to the
\* root passes through each level.
Ancestors(index) ==
    LET at[level \in 0 .. Depth] ==
            IF level = 0 THEN index ELSE at[level - 1] \div 2
    IN at

-----------------------------------------------------------------------------
(* Pool::insert *)

\* One level of the loop: a left child is stored and paired with a zero, a
\* right child is paired with the left one stored before.
\* Mutant of Ascend: a right child replaces the stored left one.
AscendStoringAlways(c, i) ==
    [index  |-> c.index \div 2,
     filled |-> [c.filled EXCEPT ![i] = c.node],
     node   |-> IF c.index % 2 = 0 THEN PoseidonHash(c.node, Zeros[i])
                                   ELSE PoseidonHash(c.filled[i], c.node)]

Ascend(c, i) ==
    IF c.index % 2 = 0
    THEN [index  |-> c.index \div 2,
          filled |-> [c.filled EXCEPT ![i] = c.node],
          node   |-> PoseidonHash(c.node, Zeros[i])]
    ELSE [index  |-> c.index \div 2,
          filled |-> c.filled,
          node   |-> PoseidonHash(c.filled[i], c.node)]

Climb(leaf) ==
    LET c[i \in 0 .. Depth] ==
            IF i = 0
            THEN [index |-> nextIndex, filled |-> filledSubtrees, node |-> leaf]
            ELSE Ascend(c[i - 1], i - 1)
    IN c

Insert(leaf) ==
    LET top == Climb(leaf)[Depth]
    IN /\ nextIndex < SaturationThreshold
       /\ nextIndex < 2 ^ Depth
       /\ filledSubtrees' = top.filled
       /\ roots' = Append(roots, top.node)
       /\ nextIndex' = nextIndex + 1
       /\ leaves' = Append(leaves, leaf)
       /\ UNCHANGED layers

-----------------------------------------------------------------------------
(* class MerkleTree. A layer is a sequence; the code's index 0 is position 1. *)

NodeAt(ls, level, index) ==
    IF index < Len(ls[level]) THEN ls[level][index + 1] ELSE Zeros[level]

\* Replace the node at an index, or push it when it is the next one.
PutNode(layer, index, node) ==
    IF index < Len(layer) THEN [layer EXCEPT ![index + 1] = node]
                          ELSE Append(layer, node)

\* Mutant of UpdateParent: a parent that exists is kept.
ParentKept(c, level) ==
    LET parent == c.index \div 2
        left   == NodeAt(c.layers, level - 1, 2 * parent)
        right  == NodeAt(c.layers, level - 1, 2 * parent + 1)
    IN [index  |-> parent,
        layers |-> IF parent < Len(c.layers[level]) THEN c.layers
                   ELSE [c.layers EXCEPT ![level] =
                            Append(@, PoseidonHash(left, right))]]

UpdateParent(c, level) ==
    LET parent == c.index \div 2
        left   == NodeAt(c.layers, level - 1, 2 * parent)
        right  == NodeAt(c.layers, level - 1, 2 * parent + 1)
    IN [index  |-> parent,
        layers |-> [c.layers EXCEPT ![level] =
                       PutNode(@, parent, PoseidonHash(left, right))]]

\* insert: the leaf is pushed, then every ancestor of it.
PushLeaf(ls, leaf) ==
    [index |-> Len(ls[0]), layers |-> [ls EXCEPT ![0] = Append(@, leaf)]]

Update(ls, leaf) ==
    LET c[level \in 0 .. Depth] ==
            IF level = 0 THEN PushLeaf(ls, leaf) ELSE UpdateParent(c[level - 1], level)
    IN c

TreeInsert(ls, leaf) == Update(ls, leaf)[Depth].layers

TreeRoot(ls) == IF ls[0] = <<>> THEN Zeros[Depth] ELSE NodeAt(ls, Depth, 0)

\* getProof: sibling and side at each level. Mutant: siblings by rounding down.
ProofOfLeftSiblings(ls, leafIndex) ==
    [i \in Levels |->
        LET index == Ancestors(leafIndex)[i]
        IN [element |-> NodeAt(ls, i, (index \div 2) * 2), side |-> index % 2]]

GetProof(ls, leafIndex) ==
    [i \in Levels |->
        LET index == Ancestors(leafIndex)[i]
        IN [element |-> NodeAt(ls, i, IF index % 2 = 1 THEN index - 1 ELSE index + 1),
            side    |-> index % 2]]

\* The client replays the next leaf of the pool's history.
Replay ==
    /\ Len(layers[0]) < Len(leaves)
    /\ layers' = TreeInsert(layers, leaves[Len(layers[0]) + 1])
    /\ UNCHANGED <<nextIndex, filledSubtrees, roots, leaves>>

-----------------------------------------------------------------------------
(* template MerkleProof: the root a leaf and a path commit to *)

LevelHashes(leaf, path) ==
    LET hash[i \in 0 .. Depth] ==
            IF i = 0 THEN leaf
            ELSE IF path[i - 1].side = 1
            THEN PoseidonHash(path[i - 1].element, hash[i - 1])
            ELSE PoseidonHash(hash[i - 1], path[i - 1].element)
    IN hash

PathRoot(leaf, path) == LevelHashes(leaf, path)[Depth]

-----------------------------------------------------------------------------
Init ==
    /\ nextIndex = 0
    /\ filledSubtrees = [i \in Levels |-> Zeros[i]]
    /\ roots = <<PoseidonHash(Zeros[Depth - 1], Zeros[Depth - 1])>>
    /\ leaves = <<>>
    /\ layers = [level \in 0 .. Depth |-> <<>>]

Next == Replay \/ \E leaf \in LeafValues : Insert(leaf)

Spec == Init /\ [][Next]_vars

-----------------------------------------------------------------------------
(* Properties *)

\* Reference: the complete tree over its 2 ^ Depth leaves, level by level, and
\* the node of it at a level and index when the leaves are ls, then zeros.
Padded(ls) ==
    [i \in 0 .. 2 ^ Depth - 1 |-> IF i < Len(ls) THEN ls[i + 1] ELSE Zero]

CompleteTree(padded) ==
    LET tree[l \in 0 .. Depth] ==
            IF l = 0 THEN padded
            ELSE [i \in 0 .. 2 ^ (Depth - l) - 1 |->
                     PoseidonHash(tree[l - 1][2 * i], tree[l - 1][2 * i + 1])]
    IN tree

ReferenceNode(ls, level, index) == CompleteTree(Padded(ls))[level][index]

\* The frontier is enough: each insertion yields the root of the complete tree
\* of all leaves so far, although the program has kept one node per level.
ChainRootIsTreeRoot ==
    roots[Len(roots)] = ReferenceNode(leaves, Depth, 0)

\* A client that has replayed k leaves is at the root the pool had after its
\* k-th deposit, however many more have landed: program and SDK cannot drift.
SdkFollowsChain == TreeRoot(layers) = roots[Len(layers[0]) + 1]

\* The path the SDK gives for an index convinces the circuit of the leaf there,
\* under the root the SDK is at, and of no other leaf.
PathProvesItsLeafOnly ==
    \A k \in 1 .. Len(layers[0]), v \in LeafValues :
        PathRoot(v, GetProof(layers, k - 1)) = TreeRoot(layers) <=> v = leaves[k]

\* Two roots of a pool are equal exactly when the trees have the same non-zero
\* leaves at the same positions: what lets module Pool write a root that way.
RootIdentifiesLeaves ==
    LET rootOf(n) == [i \in {j \in 1 .. n : leaves[j] # Zero} |-> leaves[i]]
    IN \A m, n \in 0 .. Len(leaves) :
           roots[m + 1] = roots[n + 1] <=> rootOf(m) = rootOf(n)
=============================================================================
