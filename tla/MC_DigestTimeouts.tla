------------------------- MODULE MC_DigestTimeouts -------------------------
(* DigestTimeouts with three pending digests, and beside it the logical-   *)
(* time RoundExpirations of the same file, checked against its definition. *)
EXTENDS DigestTimeouts, TLC

CONSTANTS g1, g2, g3

MCDigests == {g1, g2, g3}

(* The digests are interchangeable.                                      *)
Perms == Permutations(MCDigests)

RE == INSTANCE RoundExpirations

(* Every heap of rounds 1..2 and items 1..2, each pair pushed up to twice. *)
Pairs == (1..2) \X (1..2)
Heaps == UNION {[S -> 1..2] : S \in SUBSET Pairs}

(* What expire(round) should do: return the items of every pair whose     *)
(* round is at most the given one, and keep exactly the other pairs, as    *)
(* often as they were pushed.                                              *)
ExpireReference(h, round) ==
    LET due == {p \in BagToSet(h) : p[1] <= round}
    IN [heap |-> [p \in BagToSet(h) \ due |-> h[p]], ret |-> {p[2] : p \in due}]

(* On every call of DigestTimeouts::expire, RoundExpirations::expire of   *)
(* any small heap at any round 0..3 also returns exactly the items due by  *)
(* then, equal rounds included, and keeps the rest: popping the heap's top *)
(* while it is due reaches every due item, whatever order they were added. *)
RoundExpireMatchesReference ==
    [][Expire => \A h \in Heaps, r \in 0..3 : RE!Expire(h, r) = ExpireReference(h, r)]_vars
=============================================================================
