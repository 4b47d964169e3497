\* Two epochs, batch ids up to 3, two fragments per batch, two crashes.
CONSTANTS
    Epochs = {1, 2}
    MaxBatchId = 3
    MaxFrags = 2
    MaxCrashes = 2
    None = None
SPECIFICATION Spec
INVARIANT BatchIdNotReused
\* The generator stops for good after its last crash or its last batch id.
CHECK_DEADLOCK FALSE
