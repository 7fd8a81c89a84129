----------------------------- MODULE TreeRebuild -----------------------------
(***************************************************************************)
(* How the application finds the leaves of a pool (app/src/utils/          *)
(* merkle.ts, leafCache.ts, and the check of sdk/src/proof.ts): it reads   *)
(* the pool account, takes the leaves it kept in localStorage, scans the   *)
(* transactions that mention the pool through an RPC node, places the      *)
(* deposits it finds, and returns the tree only when its leaf count and    *)
(* root agree with the account it read.                                    *)
(*                                                                         *)
(* The chain grows between any two of these steps.  The node may lag,      *)
(* forget old history, answer null for a transaction or fail.  The cache   *)
(* holds whatever an earlier rebuild, another tab or a corruption left.    *)
(*                                                                         *)
(* A signature is the position of its transaction in the chain.  A         *)
(* transaction lists the deposits of the program it executed, of every     *)
(* pool, and how many DepositEvents survived in its log: the runtime       *)
(* drops a suffix of them, so they pair with the first deposits and the    *)
(* pairing check of lines 234-235 accepts exactly that prefix.             *)
(***************************************************************************)
EXTENDS Naturals, Sequences, FiniteSets, SequencesExt, FiniteSetsExt

CONSTANTS
    ThisPool,       \* the pool that is rebuilt
    Zero,           \* the value of an empty leaf
    Transactions,   \* what a transaction that mentions the pool may hold
    TamperedLeaves, \* the leaves a corrupted cache may hold
    RingSize,       \* ROOT_HISTORY_SIZE
    MaxChain        \* bound: transactions that land

VARIABLES tip,      \* how many transactions mention the pool
          landed,   \* the deposits into the pool they executed, oldest first
          cache,    \* the entry of localStorage: leaves and lastSignature
          tampered, \* the entry was written by something else than a rebuild
          tab       \* the rebuild in progress

\* A transaction lists its deposits in order, a corrupted entry is a list.
IsSequence(s) == s \in Seq(ToSet(s))

ASSUME TransactionsAssumption ==
    \A t \in Transactions : IsSequence(t.deposits) /\ t.events \in Nat

ASSUME TamperedAssumption == \A leaves \in TamperedLeaves : IsSequence(leaves)

ASSUME BoundsAssumption == RingSize \in Nat \ {0} /\ MaxChain \in Nat

vars == <<tip, landed, cache, tampered, tab>>

NoSignature == 0
NoCache == [leaves |-> <<>>, last |-> NoSignature]

-----------------------------------------------------------------------------
(* What the chain holds.                                                   *)

\* The place of i among the numbers of S, from 1, and those numbers in order.
Rank(S, i) == Cardinality({h \in S : h <= i})

Ascending(S) ==
    [k \in 1..Cardinality(S) |-> CHOOSE i \in S : Rank(S, i) = k]

\* The deposits into the pool that transaction t executed, which are those a
\* scan finds in it (a failed one changed nothing): the leaf, the signature,
\* and whether the event that tells the leaf index survived.
DepositInstructions(t, signature) ==
    LET ks == {k \in DOMAIN t.deposits : ~t.err /\ t.deposits[k].pool = ThisPool}
        at == Ascending(ks)
    IN [j \in DOMAIN at |-> [leaf  |-> t.deposits[at[j]].leaf,
                             tx    |-> signature,
                             event |-> at[j] <= t.events]]

LeavesOf(ds) == [i \in DOMAIN ds |-> ds[i].leaf]

\* Two leaf sequences have the same root when they differ in empty leaves at
\* the end only.
RootOf(leaves) ==
    SubSeq(leaves, 1, Max({0} \cup {i \in DOMAIN leaves : leaves[i] # Zero}))

\* readPoolTreeState: the roots of the account when its next_index was n.
RootHistory(n) ==
    {RootOf(SubSeq(LeavesOf(landed), 1, k)) :
        k \in {j \in 0..n : n - j < RingSize}}

-----------------------------------------------------------------------------
(* The scan and the placement of its deposits.                             *)

\* The deposits of the transactions in seen that carry no index, oldest
\* first: by slot, by position in the block, by order in the transaction.
UnindexedAt(seen) ==
    {i \in DOMAIN landed : landed[i].tx \in seen /\ ~landed[i].event}

Unindexed(seen) ==
    LET at == Ascending(UnindexedAt(seen))
    IN [k \in DOMAIN at |-> landed[at[k]].leaf]

\* The deposit of index i (from 1) is known from its event, or from base.
Indexed(seen, i) ==
    i \in DOMAIN landed /\ landed[i].event /\ landed[i].tx \in seen

Holes(base, seen, n) ==
    {i \in 1..n : ~Indexed(seen, i) /\ i \notin DOMAIN base}

Assemble(base, seen, n) ==
    LET holes  == Holes(base, seen, n)
        extra  == Unindexed(seen)
        fills  == Cardinality(holes) = Len(extra)
        length == IF fills \/ holes = {} THEN n ELSE Min(holes) - 1
        At(i)  == IF Indexed(seen, i) THEN landed[i].leaf
                  ELSE IF i \in DOMAIN base THEN base[i]
                  ELSE extra[Rank(holes, i)]
    IN [i \in 1..length |-> At(i)]

\* Mutant: only the number of leaves is checked.
CountMatchesOnly(leaves, n) == Len(leaves) = n

\* verifyTreeMatchesPool.
TreeMatchesPool(leaves, n) ==
    Len(leaves) = n /\ RootOf(leaves) \in RootHistory(n)

\* The answers a node may give to a scan back to the signature until: the
\* signatures it lists, of which it returns the transactions in seen.  A node
\* that lags lists fewer of the newest, one that pruned its history fewer of
\* the oldest, one that no longer knows until lists older ones as well.
Answers ==
    UNION {[listed : {lo..hi}, seen : SUBSET (lo..hi)] :
              lo \in 1..(tip + 1), hi \in 0..tip}

Complete(answer, until) ==
    /\ (until + 1)..tip \subseteq answer.listed
    /\ answer.seen = answer.listed

Newest(answer) == Max({NoSignature} \cup answer.listed)

\* Nothing the rebuild cannot place landed after the account was read.
NoLateUnindexed == \A i \in DOMAIN landed : i > tab.n => landed[i].event

-----------------------------------------------------------------------------
(* rebuildMerkleTree, one action from each await to the next.              *)

Idle == [pc |-> "idle", n |-> 0, cached |-> NoCache, tree |-> <<>>,
         faithful |-> TRUE]

\* The whole of the account and of the history reached this rebuild.
Faithful(answer, until) ==
    tab.faithful /\ Complete(answer, until) /\ NoLateUnindexed

\* saveCache: storage that refuses the write is not an error.
SaveCache(leaves, newest) ==
    \/ cache' = [leaves |-> leaves, last |-> newest] /\ tampered' = FALSE
    \/ UNCHANGED <<cache, tampered>>

ClearCache == cache' = NoCache /\ tampered' = FALSE

Return(leaves, newest, faithful) ==
    /\ SaveCache(leaves, newest)
    /\ tab' = [tab EXCEPT !.pc = "done", !.tree = leaves, !.faithful = faithful]

\* Mutant: what did not match is asked for once more.
TryAgain(faithful) ==
    /\ tab' = [tab EXCEPT !.pc = "rescan", !.faithful = faithful]
    /\ UNCHANGED <<cache, tampered>>

Throw(faithful) ==
    /\ tab' = [tab EXCEPT !.pc = "failed", !.faithful = faithful]
    /\ UNCHANGED <<cache, tampered>>

\* Mutant: the leaves are saved before they are verified.
ConcludeSavingFirst(leaves, newest, faithful) ==
    IF TreeMatchesPool(leaves, tab.n)
    THEN Return(leaves, newest, faithful)
    ELSE /\ tab' = [tab EXCEPT !.faithful = faithful,
                    !.pc = IF tab.cached.leaves = <<>> THEN "failed" ELSE "retry"]
         /\ SaveCache(leaves, newest)

\* A failed check is retried without the cache when there was one.
Conclude(leaves, newest, faithful) ==
    IF TreeMatchesPool(leaves, tab.n)
    THEN Return(leaves, newest, faithful)
    ELSE IF tab.cached.leaves = <<>>
    THEN Throw(faithful)
    ELSE /\ tab' = [tab EXCEPT !.pc = "retry", !.faithful = faithful]
         /\ ClearCache

\* The account as the node has it, perhaps of some transactions ago, and then
\* the cache.  A cache of the right length is checked without any scan.
ReadPool ==
    /\ tab.pc = "idle"
    /\ \E k \in 0..tip :
         LET n == Cardinality({i \in DOMAIN landed : landed[i].tx <= k})
         IN tab' = [Idle EXCEPT !.n = n, !.cached = cache,
                    !.pc = IF Len(cache.leaves) = n THEN "check" ELSE "scan"]
    /\ UNCHANGED <<tip, landed, cache, tampered>>

CheckCached ==
    /\ tab.pc = "check"
    /\ Conclude(tab.cached.leaves, tab.cached.last, tab.faithful)
    /\ UNCHANGED <<tip, landed>>

\* Mutant: only a rebuild that started from cached leaves scans again.
RescanIfCached(dense) == Len(dense) # tab.n /\ tab.cached.leaves # <<>>

NeedsRescan(dense) == Len(dense) # tab.n

\* The incremental scan: what is still missing after it sends the rebuild to
\* a full scan, with the cache cleared.
Scan ==
    /\ tab.pc = "scan"
    /\ \E answer \in Answers :
         LET until  == tab.cached.last
             dense  == Assemble(tab.cached.leaves, answer.seen, tab.n)
             newest == IF answer.listed = {} THEN until ELSE Newest(answer)
             ok     == Faithful(answer, until)
         IN IF NeedsRescan(dense)
            THEN tab' = [tab EXCEPT !.pc = "rescan", !.faithful = ok] /\ ClearCache
            ELSE Conclude(dense, newest, ok)
    /\ UNCHANGED <<tip, landed>>

FullScan ==
    /\ tab.pc = "rescan"
    /\ \E answer \in Answers :
         Conclude(Assemble(<<>>, answer.seen, tab.n), Newest(answer),
                  Faithful(answer, NoSignature))
    /\ UNCHANGED <<tip, landed>>

\* The last attempt, after the tree of the cache did not match the pool.
RetryWithoutCache ==
    /\ tab.pc = "retry"
    /\ \E answer \in Answers :
         LET leaves == Assemble(<<>>, answer.seen, tab.n)
             ok     == Faithful(answer, NoSignature)
         IN IF TreeMatchesPool(leaves, tab.n)
            THEN Return(leaves, Newest(answer), ok)
            ELSE Throw(ok)
    /\ UNCHANGED <<tip, landed>>

\* Any call to the node, or getBlockSignatures for two unindexed deposits of
\* one slot, may fail: the rebuild throws.
RpcFails ==
    /\ tab.pc \in {"scan", "rescan", "retry"}
    /\ Throw(FALSE)
    /\ UNCHANGED <<tip, landed>>

\* The next withdrawal or reconciliation starts a rebuild of its own.
Leave ==
    /\ tab.pc \in {"done", "failed"}
    /\ tab' = Idle
    /\ UNCHANGED <<tip, landed, cache, tampered>>

-----------------------------------------------------------------------------
(* The environment.                                                        *)

Land ==
    /\ tip < MaxChain
    /\ tip' = tip + 1
    /\ \E t \in Transactions : landed' = landed \o DepositInstructions(t, tip')
    /\ UNCHANGED <<cache, tampered, tab>>

\* A corrupted entry that loadCache still parses.
Tamper ==
    /\ tab.pc = "idle" /\ ~tampered
    /\ \E leaves \in TamperedLeaves, last \in 0..MaxChain :
         cache' = [leaves |-> leaves, last |-> last]
    /\ tampered' = TRUE
    /\ UNCHANGED <<tip, landed, tab>>

Init ==
    /\ tip = 0 /\ landed = <<>>
    /\ cache = NoCache /\ tampered = FALSE
    /\ tab = Idle

Rebuild == ReadPool \/ CheckCached \/ Scan \/ FullScan \/ RetryWithoutCache
           \/ RpcFails

Next == Rebuild \/ Leave \/ Land \/ Tamper

\* A call to the node returns or throws.
Spec == Init /\ [][Next]_vars /\ WF_vars(Rebuild)

-----------------------------------------------------------------------------
(* Properties.                                                             *)

Leaves == LeavesOf(landed)

\* The verified tree has a root of the pool's history, so a proof against it
\* can be accepted on chain, whatever the node and the cache answered: the
\* root is that of the first k deposits of the chain for one of the RingSize
\* latest k (verifyTreeMatchesPool, proof.ts:286-298).
TreeOpensToTheChain ==
    tab.pc = "done" =>
        \E k \in 0..Len(Leaves) :
            /\ tab.n - k \in 0..(RingSize - 1)
            /\ RootOf(tab.tree) = RootOf(SubSeq(Leaves, 1, k))

\* The leaves themselves are those of the chain, each at its own index,
\* whatever the node answered and the cache held, as long as no empty leaf
\* is involved: then a note whose deposit is among the first n is found.
LeavesAreTheChains ==
    (tab.pc = "done" /\ Zero \notin ToSet(Leaves) \cup ToSet(tab.cached.leaves))
        => tab.tree = SubSeq(Leaves, 1, tab.n)

\* The cache can only affect speed (merkle.ts:385-388): a rebuild to which
\* the node gave its whole history, and during which no deposit without an
\* event landed, succeeds, whatever the cache held.
CompleteHistoryRebuilds == tab.pc = "failed" => ~tab.faithful

\* What a rebuild leaves in the cache stays true while the chain grows: its
\* leaves are a prefix of the chain's, unless an empty leaf was involved.
CacheIsAPrefix ==
    (~tampered /\ Zero \notin ToSet(Leaves) \cup ToSet(cache.leaves))
        => IsPrefix(cache.leaves, Leaves)

\* A rebuild ends, with a tree or an error, after a bounded number of scans.
RebuildEnds == (tab.pc # "idle") ~> (tab.pc \in {"done", "failed"})
=============================================================================
