------------------------- MODULE MC_BatchGeneration -------------------------
EXTENDS BatchGeneration

CONSTANTS t1, t2, t3, t4

MCTxns == {t1, t2, t3, t4}

(* Three transactions of one byte and one of two: t4 with any other fills  *)
(* max_bytes = 3 exactly, and three one-byte ones would pass max_txns = 2. *)
MCSizeOf == (t1 :> 1) @@ (t2 :> 1) @@ (t3 :> 1) @@ (t4 :> 2)

=============================================================================
