---------------------------- MODULE BatchBuilder ----------------------------
(***************************************************************************)
(* BatchBuilder (consensus/src/quorum_store/utils.rs) as operators on its  *)
(* value.  The BatchGenerator's use of it (not in this tree; spec 4.1) is  *)
(* in BatchGeneration: transactions pulled from mempool are appended until *)
(* one does not fit; take_serialized_txns drains the data for a fragment   *)
(* and leaves the summaries, which stay until take_summaries ends the      *)
(* batch, so that the next mempool pull excludes them.                     *)
(***************************************************************************)
EXTENDS Naturals, Sequences, SequencesExt

CONSTANTS
    Txns,      \* signed transactions in mempool (model values)
    SizeOf,    \* [Txns -> Nat]: length of the serialized transaction
    MaxTxns,   \* max_txns of the builder
    MaxBytes   \* max_bytes of the builder

ASSUME SizeOf \in [Txns -> 1..MaxBytes] /\ MaxTxns \in Nat \ {0}

VARIABLE builder   \* the BatchBuilder value

(* BatchBuilder::new(batch_id, max_txns, max_bytes)                        *)
NewBuilder(batchId) ==
    [id |-> batchId, summaries |-> <<>>, data |-> <<>>, num_txns |-> 0, num_bytes |-> 0]

(* The condition of append_transaction with a strict byte limit.           *)
CanAppendStrictBytes(b, t) ==
    b.num_bytes + SizeOf[t] < MaxBytes /\ b.num_txns < MaxTxns

(* The condition of append_transaction with num_txns <= max_txns.          *)
CanAppendTxnsInclusive(b, t) ==
    b.num_bytes + SizeOf[t] <= MaxBytes /\ b.num_txns <= MaxTxns

CanAppend(b, t) ==
    b.num_bytes + SizeOf[t] <= MaxBytes /\ b.num_txns < MaxTxns

(* append_transaction when it returns true.                                *)
AppendTransaction(b, t) ==
    [b EXCEPT !.num_txns = @ + 1, !.num_bytes = @ + SizeOf[t],
              !.summaries = Append(@, t), !.data = Append(@, t)]

(* A take_serialized_txns that also drops the summaries.                   *)
TakeSerializedTxnsAll(b) == [b EXCEPT !.data = <<>>, !.summaries = <<>>]

(* take_serialized_txns: mem::take of data; the summaries stay.            *)
TakeSerializedTxns(b) == [b EXCEPT !.data = <<>>]

(* take_summaries: assert!(data.is_empty()), id incremented, counters and  *)
(* summaries cleared.                                                      *)
TakeSummariesKeep(b) ==
    [b EXCEPT !.id = @ + 1, !.num_bytes = 0, !.num_txns = 0]

TakeSummaries(b) ==
    [b EXCEPT !.id = @ + 1, !.num_bytes = 0, !.num_txns = 0, !.summaries = <<>>]

------------------------------------------------------------------------------
(* The builder never holds more than max_txns transactions or max_bytes    *)
(* bytes.                                                                  *)
TypeOK ==
    /\ builder.id \in Nat \ {0}
    /\ builder.summaries \in Seq(Txns) /\ builder.data \in Seq(Txns)
    /\ builder.num_txns \in 0..MaxTxns
    /\ builder.num_bytes \in 0..MaxBytes

=============================================================================
