-------------------------- MODULE BatchAggregator --------------------------
(***************************************************************************)
(* BatchAggregator (quorum_store/batch_aggregator.rs, not part of this     *)
(* source tree: modelled from the spec, section 4.2).  It assembles the    *)
(* fragments of one source's batches: a fragment is accepted when it is    *)
(* the successor (same batch, next fragment id) of the previous one, or    *)
(* fragment 0 of a batch newer than the last one seen; any other fragment  *)
(* is rejected and the source's state is reset.  end_batch appends the    *)
(* final fragment and returns the whole payload; the digest is a hash of   *)
(* the payload, modelled as the payload itself.                            *)
(***************************************************************************)
EXTENDS Naturals, Sequences

(* batch: last batch id seen (0: none); open: a batch is being assembled.  *)
AggInit == [batch |-> 0, next |-> 0, open |-> FALSE, payload |-> <<>>]

IsSuccessor(agg, b, f) == agg.open /\ b = agg.batch /\ f = agg.next

(* A new batch must carry the id right after the last one seen.           *)
IsNextBatch(agg, b, f) == f = 0 /\ b = agg.batch + 1

IsNewBatch(agg, b, f) == f = 0 /\ b > agg.batch

(* append_transactions: [ok |-> accepted?, agg |-> the state after].       *)
AggAppend(agg, b, f, txns) ==
    IF IsSuccessor(agg, b, f)
      THEN [ok |-> TRUE,
            agg |-> [agg EXCEPT !.next = f + 1, !.payload = agg.payload \o txns]]
    ELSE IF IsNewBatch(agg, b, f)
      THEN [ok |-> TRUE,
            agg |-> [batch |-> b, next |-> 1, open |-> TRUE, payload |-> txns]]
    ELSE [ok |-> FALSE, agg |-> AggInit]

(* end_batch: [ok, agg, payload]; the batch is closed either way.          *)
AggEnd(agg, b, f, txns) ==
    LET r == AggAppend(agg, b, f, txns)
    IN  [ok |-> r.ok,
         agg |-> [r.agg EXCEPT !.open = FALSE, !.next = 0, !.payload = <<>>],
         payload |-> r.agg.payload]

=============================================================================
