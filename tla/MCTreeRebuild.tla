---------------------------- MODULE MCTreeRebuild ----------------------------
(***************************************************************************)
(* Three transactions of five kinds: a deposit with its event, one whose   *)
(* event was lost with the rest of its log, one of an empty leaf, one that *)
(* follows a deposit into another pool and lost its own event only, and a  *)
(* failed one that lists a deposit.                                        *)
(***************************************************************************)
EXTENDS TreeRebuild

CONSTANTS a, b, OtherPool

Into(p, leaf) == [pool |-> p, leaf |-> leaf]
Transaction(deposits, events, err) ==
    [deposits |-> deposits, events |-> events, err |-> err]

MCTransactions ==
    {Transaction(<<Into(ThisPool, a)>>, 1, FALSE),
     Transaction(<<Into(ThisPool, b)>>, 0, FALSE),
     Transaction(<<Into(ThisPool, Zero)>>, 1, FALSE),
     Transaction(<<Into(OtherPool, b), Into(ThisPool, a)>>, 1, FALSE),
     Transaction(<<Into(ThisPool, b)>>, 0, TRUE)}

MCTamperedLeaves == {<<>>, <<a>>, <<b>>, <<a, Zero>>, <<b, a>>, <<a, b, a, b>>}
=============================================================================
