-------------------------- MODULE BatchCoordinator --------------------------
(***************************************************************************)
(* The quorum store's BatchCoordinator (consensus/src/quorum_store/        *)
(* batch_coordinator.rs) with its environment: the local BatchGenerator,   *)
(* which feeds it AppendToBatch / EndBatch commands, and remote peers,     *)
(* whose fragments the NetworkListener forwards as RemoteFragment on the   *)
(* same command channel.  The generator, the peers and the aggregator are  *)
(* not part of this source tree and are modelled from the spec.            *)
(*                                                                         *)
(* A transaction is a tuple <<source, epoch, batch, fragment, i>>, so a    *)
(* payload says where each transaction came from; a digest is the payload  *)
(* itself (H is injective on the modelled payloads); an expiration is      *)
(* abstracted to its epoch, NoExp standing for maybe_expiration = None.    *)
(* num_bytes is left out: oversize batches are not modelled.               *)
(***************************************************************************)
EXTENDS Naturals, Sequences, FiniteSets, BatchAggregator

CONSTANTS
    Me,               \* my_peer_id
    Peers,            \* remote validators
    Epoch,            \* self.epoch
    OldEpoch,         \* an epoch a stale peer may still be in
    MaxBatches,       \* batch ids of the local generator: 1..MaxBatches
    MaxPeerBatches,   \* batch ids of a peer in one epoch: 1..MaxPeerBatches
    MaxFrags,         \* fragments per batch, the final one included
    LocalTxnCounts,   \* sizes of a local fragment
    MaxEpochChanges   \* how many times peers may move from OldEpoch to Epoch

NoExp == 0

ASSUME Me \notin Peers /\ OldEpoch < Epoch /\ OldEpoch > NoExp
ASSUME {MaxBatches, MaxPeerBatches, MaxFrags} \subseteq Nat \ {0}

VARIABLES
    command_rx,                 \* the coordinator's command channel
    local_batch_aggregator,
    remote_batch_aggregators,   \* PeerId -> BatchAggregator
    local_fragment_id,
    running,                    \* the start() loop has not returned
    crashed,                    \* an unreachable! fired (process-fatal)
    batch_store_tx,             \* Persist requests sent to BatchStore
    proof_coordinator_tx,       \* InitProof commands sent to ProofCoordinator
    broadcast,                  \* fragments broadcast to the peers
    \* the local BatchGenerator (spec 4.1)
    genBatch, genFrag, genPayload, built, shutdownSent,
    \* the remote peers' producers
    peerEpoch, peerBatch, peerFrag, peerPayload, peerIntact, peerBuilt,
    epochChanges

coordVars == <<local_batch_aggregator, remote_batch_aggregators, local_fragment_id,
               running, crashed>>
outVars == <<batch_store_tx, proof_coordinator_tx, broadcast>>
genVars == <<genBatch, genFrag, genPayload, built, shutdownSent>>
peerVars == <<peerEpoch, peerBatch, peerFrag, peerPayload, peerIntact, peerBuilt,
              epochChanges>>
vars == <<command_rx, coordVars, outVars, genVars, peerVars>>

BatchIds == 1..MaxBatches
Epochs == {OldEpoch, Epoch}
Sources == Peers \cup {Me}

Txn == Sources \X Epochs \X Nat \X Nat \X Nat

Txns(src, ep, b, f, n) == [i \in 1..n |-> <<src, ep, b, f, i>>]

(* A command; local commands leave source/frag/intact at defaults.  intact *)
(* is a history field: no earlier fragment of this batch was lost.        *)
Command(kind, src, b, f, txns, exp, intact) ==
    [kind |-> kind, source |-> src, batch |-> b, frag |-> f, txns |-> txns,
     exp |-> exp, intact |-> intact]

Fragment(ep, b, f, txns, exp, src) ==
    [epoch |-> ep, batch |-> b, frag |-> f, txns |-> txns, exp |-> exp, source |-> src]

PersistRequest(author, payload, exp) ==
    [author |-> author, payload |-> payload, exp |-> exp]

Init ==
    /\ command_rx = <<>>
    /\ local_batch_aggregator = AggInit
    /\ remote_batch_aggregators = [p \in Peers |-> AggInit]
    /\ local_fragment_id = 0
    /\ running = TRUE
    /\ crashed = FALSE
    /\ batch_store_tx = {}
    /\ proof_coordinator_tx = {}
    /\ broadcast = {}
    /\ genBatch = 1 /\ genFrag = 0 /\ genPayload = <<>>
    /\ built = [b \in BatchIds |-> <<>>]
    /\ shutdownSent = FALSE
    /\ peerEpoch \in [Peers -> Epochs]
    /\ peerBatch = [p \in Peers |-> 1]
    /\ peerFrag = [p \in Peers |-> 0]
    /\ peerPayload = [p \in Peers |-> <<>>]
    /\ peerIntact = [p \in Peers |-> TRUE]
    /\ peerBuilt = {}
    /\ epochChanges = 0

------------------------------------------------------------------------------
(* The environment.                                                        *)

(* BatchGenerator: an intermediate fragment (AppendToBatch).               *)
GenAppend(n) ==
    /\ ~shutdownSent
    /\ genBatch \in BatchIds /\ genFrag < MaxFrags - 1
    /\ LET txns == Txns(Me, Epoch, genBatch, genFrag, n)
       IN  /\ command_rx' = Append(command_rx, Command("append", Me, genBatch, 0, txns, NoExp, TRUE))
           /\ genPayload' = genPayload \o txns
    /\ genFrag' = genFrag + 1
    /\ UNCHANGED <<coordVars, outVars, built, genBatch, shutdownSent, peerVars>>

(* BatchGenerator: the final fragment (EndBatch); the batch id advances.   *)
GenEnd(n) ==
    /\ ~shutdownSent
    /\ genBatch \in BatchIds
    /\ LET txns == Txns(Me, Epoch, genBatch, genFrag, n)
       IN  /\ command_rx' = Append(command_rx, Command("end", Me, genBatch, 0, txns, Epoch, TRUE))
           /\ built' = [built EXCEPT ![genBatch] = genPayload \o txns]
    /\ genBatch' = genBatch + 1 /\ genFrag' = 0 /\ genPayload' = <<>>
    /\ UNCHANGED <<coordVars, outVars, shutdownSent, peerVars>>

(* QuorumStoreCoordinator: Shutdown, once the generator has been stopped.  *)
SendShutdown ==
    /\ ~shutdownSent
    /\ shutdownSent' = TRUE
    /\ command_rx' = Append(command_rx, Command("shutdown", Me, 0, 0, <<>>, NoExp, TRUE))
    /\ UNCHANGED <<coordVars, outVars, genBatch, genFrag, genPayload, built, peerVars>>

(* A peer emits its next fragment (final or not); the network may lose it, *)
(* and once the coordinator has returned nothing reaches its channel.      *)
PeerSend(p, final, deliver) ==
    /\ peerBatch[p] \in 1..MaxPeerBatches
    /\ final \/ peerFrag[p] < MaxFrags - 1
    /\ LET b == peerBatch[p]
           txns == Txns(p, peerEpoch[p], b, peerFrag[p], 1)
           exp == IF final THEN peerEpoch[p] ELSE NoExp
       IN  /\ command_rx' =
                 IF deliver /\ running
                   THEN Append(command_rx, Command("fragment", p, b, peerFrag[p], txns, exp,
                                                   peerIntact[p]))
                   ELSE command_rx
           /\ peerBuilt' =
                 IF final THEN peerBuilt \cup {[source |-> p, epoch |-> peerEpoch[p],
                                               payload |-> peerPayload[p] \o txns]}
                          ELSE peerBuilt
           /\ peerPayload' = [peerPayload EXCEPT ![p] = IF final THEN <<>> ELSE @ \o txns]
    /\ peerFrag' = [peerFrag EXCEPT ![p] = IF final THEN 0 ELSE @ + 1]
    /\ peerBatch' = [peerBatch EXCEPT ![p] = IF final THEN @ + 1 ELSE @]
    /\ peerIntact' = [peerIntact EXCEPT ![p] = final \/ (@ /\ deliver /\ running)]
    /\ UNCHANGED <<coordVars, outVars, genVars, peerEpoch, epochChanges>>

(* A peer still in the old epoch moves to ours, possibly in mid-batch;     *)
(* its batch ids restart from the BatchId row of the new epoch (none).     *)
PeerEpochChange(p) ==
    /\ peerEpoch[p] = OldEpoch /\ epochChanges < MaxEpochChanges
    /\ peerEpoch' = [peerEpoch EXCEPT ![p] = Epoch]
    /\ peerBatch' = [peerBatch EXCEPT ![p] = 1]
    /\ peerFrag' = [peerFrag EXCEPT ![p] = 0]
    /\ peerPayload' = [peerPayload EXCEPT ![p] = <<>>]
    /\ peerIntact' = [peerIntact EXCEPT ![p] = TRUE]
    /\ epochChanges' = epochChanges + 1
    /\ UNCHANGED <<command_rx, coordVars, outVars, genVars, peerBuilt>>

------------------------------------------------------------------------------
(* The coordinator: one action per arm of the match in start().            *)

IsHead(kind) == running /\ command_rx # <<>> /\ Head(command_rx).kind = kind

(* unreachable!: the task panics, which aborts the node.                   *)
Unreachable ==
    /\ crashed' = TRUE /\ running' = FALSE
    /\ UNCHANGED <<local_batch_aggregator, remote_batch_aggregators, local_fragment_id,
                   outVars>>

(* AppendToBatch: handle_append_to_batch, broadcast, local_fragment_id+1.  *)
HandleAppendToBatch ==
    /\ IsHead("append")
    /\ LET c == Head(command_rx)
           r == AggAppend(local_batch_aggregator, c.batch, local_fragment_id, c.txns)
       IN  IF r.ok
             THEN /\ local_batch_aggregator' = r.agg
                  /\ broadcast' = broadcast \cup
                        {Fragment(Epoch, c.batch, local_fragment_id, c.txns, NoExp, Me)}
                  /\ local_fragment_id' = local_fragment_id + 1
                  /\ UNCHANGED <<remote_batch_aggregators, running, crashed,
                                 batch_store_tx, proof_coordinator_tx>>
             ELSE Unreachable
    /\ command_rx' = Tail(command_rx)
    /\ UNCHANGED <<genVars, peerVars>>

(* A digest info whose num_txns counts only the final fragment.            *)
InitProofInfoFragmentLen(payload, fragment_payload, exp, b) ==
    [digest |-> payload, exp |-> exp, num_txns |-> Len(fragment_payload), batch |-> b]

(* The InitProof of handle_end_batch: SignedDigestInfo::new(digest,        *)
(* expiration, payload.len(), num_bytes) and the batch id.                 *)
InitProofInfo(payload, fragment_payload, exp, b) ==
    [digest |-> payload, exp |-> exp, num_txns |-> Len(payload), batch |-> b]

(* An EndBatch arm that forgets to reset the fragment counter.            *)
LocalFragmentIdKept == local_fragment_id

(* The EndBatch arm's last statement: self.local_fragment_id = 0.          *)
LocalFragmentIdAfterEnd == 0

(* EndBatch: handle_end_batch (InitProof to the ProofCoordinator), then    *)
(* broadcast of the final fragment, Persist to BatchStore, and the reset   *)
(* of local_fragment_id.                                                   *)
HandleEndBatch ==
    /\ IsHead("end")
    /\ LET c == Head(command_rx)
           r == AggEnd(local_batch_aggregator, c.batch, local_fragment_id, c.txns)
       IN  IF r.ok
             THEN /\ local_batch_aggregator' = r.agg
                  /\ proof_coordinator_tx' = proof_coordinator_tx \cup
                        {InitProofInfo(r.payload, c.txns, c.exp, c.batch)}
                  /\ broadcast' = broadcast \cup
                        {Fragment(Epoch, c.batch, local_fragment_id, c.txns, c.exp, Me)}
                  /\ batch_store_tx' = batch_store_tx \cup {PersistRequest(Me, r.payload, c.exp)}
                  /\ local_fragment_id' = LocalFragmentIdAfterEnd
                  /\ UNCHANGED <<remote_batch_aggregators, running, crashed>>
             ELSE Unreachable
    /\ command_rx' = Tail(command_rx)
    /\ UNCHANGED <<genVars, peerVars>>

(* A final fragment is accepted whatever epoch its expiration is in.       *)
ExpirationAnyEpoch(exp) == exp # NoExp

(* The epoch test of handle_fragment on a final fragment.                  *)
ExpirationInEpoch(exp) == exp = Epoch

(* RemoteFragment: handle_fragment.  A final fragment in our epoch ends    *)
(* the source's aggregator and, on success, is persisted with the source   *)
(* as author; one in another epoch is dropped and the aggregator left as   *)
(* it is; a non-final one extends the aggregator, errors dropped.          *)
HandleFragment ==
    /\ IsHead("fragment")
    /\ LET c == Head(command_rx)
           agg == remote_batch_aggregators[c.source]
           e == AggEnd(agg, c.batch, c.frag, c.txns)
           a == AggAppend(agg, c.batch, c.frag, c.txns)
       IN  IF c.exp = NoExp
             THEN /\ remote_batch_aggregators' = [remote_batch_aggregators EXCEPT ![c.source] = a.agg]
                  /\ UNCHANGED batch_store_tx
           ELSE IF ExpirationInEpoch(c.exp)
             THEN /\ remote_batch_aggregators' = [remote_batch_aggregators EXCEPT ![c.source] = e.agg]
                  /\ batch_store_tx' =
                        IF e.ok THEN batch_store_tx \cup {PersistRequest(c.source, e.payload, c.exp)}
                                ELSE batch_store_tx
           ELSE UNCHANGED <<remote_batch_aggregators, batch_store_tx>>
    /\ command_rx' = Tail(command_rx)
    /\ UNCHANGED <<local_batch_aggregator, local_fragment_id, running, crashed,
                   proof_coordinator_tx, broadcast, genVars, peerVars>>

(* Shutdown: ack and leave the loop; later commands are never received.    *)
HandleShutdown ==
    /\ IsHead("shutdown")
    /\ running' = FALSE
    /\ command_rx' = Tail(command_rx)
    /\ UNCHANGED <<local_batch_aggregator, remote_batch_aggregators, local_fragment_id,
                   crashed, outVars, genVars, peerVars>>

Next ==
    \/ \E n \in LocalTxnCounts : GenAppend(n) \/ GenEnd(n)
    \/ SendShutdown
    \/ \E p \in Peers, final, deliver \in BOOLEAN : PeerSend(p, final, deliver)
    \/ \E p \in Peers : PeerEpochChange(p)
    \/ HandleAppendToBatch
    \/ HandleEndBatch
    \/ HandleFragment
    \/ HandleShutdown

Spec == Init /\ [][Next]_vars

------------------------------------------------------------------------------
TypeOK ==
    /\ command_rx \in Seq([kind : {"append", "end", "fragment", "shutdown"},
                           source : Sources, batch : 0..MaxBatches \cup 1..MaxPeerBatches, frag : Nat,
                           txns : Seq(Txn),
                           exp : Epochs \cup {NoExp}, intact : BOOLEAN])
    /\ local_fragment_id \in 0..MaxFrags
    /\ batch_store_tx \subseteq [author : Sources, payload : Seq(Txn), exp : {Epoch}]
    /\ running \in BOOLEAN /\ crashed \in BOOLEAN
    /\ genBatch \in 1..MaxBatches + 1 /\ genFrag \in 0..MaxFrags - 1
    /\ peerEpoch \in [Peers -> Epochs] /\ peerBatch \in [Peers -> 1..MaxPeerBatches + 1]

(* The local aggregator never rejects a command of the generator, so the   *)
(* unreachable! arms of handle_append_to_batch / handle_end_batch are      *)
(* indeed unreachable: local_fragment_id tracks the generator's fragments. *)
NoLocalAggregationFailure == ~crashed

(* Every InitProof sent for a local batch carries that batch as the        *)
(* generator built it (digest and num_txns over all its fragments), and a  *)
(* Persist of the same payload and expiration goes to the BatchStore.      *)
LocalProofMatchesBatch ==
    \A ip \in proof_coordinator_tx :
        /\ ip.digest = built[ip.batch]
        /\ ip.num_txns = Len(built[ip.batch])
        /\ PersistRequest(Me, ip.digest, ip.exp) \in batch_store_tx

(* A remote batch is persisted only if its author built exactly that       *)
(* payload, in our epoch: fragments of other epochs, lost fragments and    *)
(* fragments of other batches never make it into a Persist.                *)
RemotePersistAuthentic ==
    \A ps \in batch_store_tx :
        ps.author # Me =>
            /\ ps.exp = Epoch
            /\ [source |-> ps.author, epoch |-> Epoch, payload |-> ps.payload] \in peerBuilt

(* An in-epoch final fragment whose batch lost no fragment on the way is   *)
(* persisted when handle_fragment takes it (spec 7: after a protocol       *)
(* violation the aggregator is reset so later well-formed batches are      *)
(* accepted).                                                              *)
CompleteRemoteBatchPersisted ==
    [][HandleFragment /\ Head(command_rx).exp = Epoch /\ Head(command_rx).intact =>
        batch_store_tx' # batch_store_tx]_vars

=============================================================================
