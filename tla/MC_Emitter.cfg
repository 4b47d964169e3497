\* Three accounts minted through one seed in batches of two, two retry
\* rounds per transaction; then worker 1 (the workers share nothing)
\* submitting up to three rounds of two transactions, over two phases.
CONSTANTS
    NumAccounts = 3
    MaxSubmitBatch = 2
    MaxRetries = 2
    Workers = {1}
    TxnsPerAccount = 2
    ExpirationSecs = 1
    AbortSecs = 2
    MaxWall = 7
    MaxRounds = 3
    NumPhases = 2

SPECIFICATION Spec

\* A job ends for good once it is joined or create_accounts failed.
CHECK_DEADLOCK FALSE

INVARIANT TypeOK
INVARIANT MintedInSync
INVARIANT NoWorkerPanic
INVARIANT SeqResynced
PROPERTY JobEnds
PROPERTY ModeParamsOnTarget
