\* One local producer and one remote peer, two batches of up to two
\* fragments each; the peer may be in either epoch but never changes it.
CONSTANTS
    Me = Me
    p1 = p1
    Peers <- MCPeers
    Epoch = 2
    OldEpoch = 1
    MaxBatches = 2
    MaxPeerBatches = 2
    MaxFrags = 2
    LocalTxnCounts = {1, 2}
    MaxEpochChanges = 0
SPECIFICATION Spec
INVARIANT RemotePersistAuthentic
PROPERTY CompleteRemoteBatchPersisted
\* Every behaviour ends once the generator and the peer are done and the
\* coordinator has taken its Shutdown, or crashed.
CHECK_DEADLOCK FALSE
