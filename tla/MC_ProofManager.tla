-------------------------- MODULE MC_ProofManager --------------------------
(* Small instance of ProofManager for TLC.                                 *)
EXTENDS ProofManager, TLC

CONSTANTS d1, d2, d3

MCDigests == {d1, d2, d3}
MCLocalDigests == {d1}
MCRounds == 0..2

(* An exclusion filter or a committed block names at most one digest.    *)
MCSmallSets == {{}} \cup {{d} : d \in MCDigests}
MCTxnsOf == [d \in MCDigests |-> IF d = d2 THEN 2 ELSE 1]
MCBytesOf == [d \in MCDigests |-> IF d = d3 THEN 2 ELSE 1]

(* The remote digests d2 and d3 are interchangeable only when their sizes *)
(* are; they are not, so no symmetry set is declared.                      *)
=============================================================================
