\* Four transactions, max_bytes 3 and max_txns 2, so that both limits and
\* an exact fit occur; two epochs, batch ids up to 3 and two crashes, so
\* that a crash falls before and after a save and a restart changes epoch.
CONSTANTS
    t1 = t1
    t2 = t2
    t3 = t3
    t4 = t4
    Txns <- MCTxns
    SizeOf <- MCSizeOf
    MaxTxns = 2
    MaxBytes = 3
    Epochs = {1, 2}
    MaxBatchId = 3
    MaxCrashes = 2
    None = None
SPECIFICATION Spec
INVARIANT TypeOK
INVARIANT ExcludeCoversBatch
 
PROPERTY EndedIdsIncrease
\* The generator stops for good after its last crash or its last batch id,
\* or waits on an empty mempool.
CHECK_DEADLOCK FALSE
