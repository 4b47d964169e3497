\* One local producer of two batches and one remote peer with one batch per
\* epoch, up to two fragments each; the peer may start in the old epoch and
\* move to ours once, possibly in mid-batch.
CONSTANTS
    Me = Me
    p1 = p1
    Peers <- MCPeers
    Epoch = 2
    OldEpoch = 1
    MaxBatches = 2
    MaxPeerBatches = 1
    MaxFrags = 2
    LocalTxnCounts = {1, 2}
    MaxEpochChanges = 1
SPECIFICATION Spec
INVARIANT TypeOK
INVARIANT NoLocalAggregationFailure
INVARIANT LocalProofMatchesBatch
\* Every behaviour ends once the generator and the peer are done and the
\* coordinator has taken its Shutdown, or crashed.
CHECK_DEADLOCK FALSE
