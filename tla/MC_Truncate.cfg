\* Versions 0..4 with every state checkpoint, epoch end and pruning point
\* below them; ledger batches of 2, so that a truncation takes up to two
\* batches and a kill falls between them; two killed runs.  Session
\* effects over two group members and one plain resource, values 1 and 2.
CONSTANTS
    MaxVersion = 4
    BatchSize = 2
    MaxCrashes = 2
    r1 = r1
    r2 = r2
    r3 = r3
    g1 = g1
    i1 = i1
    a1 = a1
    NoGroup = NoGroup
    Absent = Absent
SPECIFICATION Spec
INVARIANT TypeOK
INVARIANT RerunPossible
INVARIANT TruncatedToTarget
INVARIANT PanicOnlyWhenPruned
INVARIANT BackupOfOriginal
PROPERTY Terminates
PROPERTY WriteSetsFromSessions
\* A run ends for good, done or panicked.
CHECK_DEADLOCK FALSE
