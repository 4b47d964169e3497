-------------------------- MODULE RoundExpirations --------------------------
(***************************************************************************)
(* RoundExpirations (consensus/src/quorum_store/utils.rs): items with the  *)
(* logical round at which they expire, in a BinaryHeap of                  *)
(* (Reverse(round), item).  The heap is a bag of <<round, item>> pairs     *)
(* (the same pair may be pushed twice); peek gives its greatest element,   *)
(* that is the smallest round and, among equal rounds, the greatest item.  *)
(* Items are naturals, ordered as Ord orders them.                         *)
(***************************************************************************)
EXTENDS Naturals, Bags, BagsExt

(* RoundExpirations::new()                                                  *)
NewExpirations == EmptyBag

(* add_item(item, expiry_round): push (Reverse(expiry_round), item).        *)
AddItem(h, item, round) == BagAdd(h, <<round, item>>)

(* BinaryHeap::peek under the order of (Reverse<Round>, I).                 *)
Peek(h) ==
    CHOOSE e \in BagToSet(h) :
        \A f \in BagToSet(h) : e[1] < f[1] \/ (e[1] = f[1] /\ e[2] >= f[2])

(* An expire that stops at the first item of the given round.              *)
RECURSIVE ExpireStrict(_, _, _)
ExpireStrict(h, round, ret) ==
    IF h = EmptyBag \/ Peek(h)[1] >= round THEN [heap |-> h, ret |-> ret]
    ELSE ExpireStrict(BagRemove(h, Peek(h)), round, ret \cup {Peek(h)[2]})

(* expire(round): pop while the top's round is <= round, collecting the    *)
(* items in a HashSet.                                                      *)
RECURSIVE ExpireLoop(_, _, _)
ExpireLoop(h, round, ret) ==
    IF h = EmptyBag \/ Peek(h)[1] > round THEN [heap |-> h, ret |-> ret]
    ELSE ExpireLoop(BagRemove(h, Peek(h)), round, ret \cup {Peek(h)[2]})

Expire(h, round) == ExpireLoop(h, round, {})

=============================================================================
