CONSTANTS
    d1 = d1
    d2 = d2
    d3 = d3
    Absent = Absent
    Committed = Committed
    Digests <- MCDigests
    LocalDigests <- MCLocalDigests
    Rounds <- MCRounds
    TxnsOf <- MCTxnsOf
    BytesOf <- MCBytesOf
    ExcludedSets <- MCSmallSets
    CommitSets <- MCSmallSets
    BackPressureLimit = 0
    PullTxnLimits = {2}
    PullByteLimits = {3}
    MaxProofMsgs = 3
    MaxCommits = 1
    MaxProposals = 2

SPECIFICATION Spec

INVARIANT ProofEntriesQueued


\* The only states without a successor are those after Shutdown: the
\* actor has left its loop and the senders have stopped.
CHECK_DEADLOCK FALSE
