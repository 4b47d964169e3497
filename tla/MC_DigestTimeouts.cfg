\* The wall clock steps back once by up to 2 ms.
CONSTANTS
    g1 = g1
    g2 = g2
    g3 = g3
    Digests <- MCDigests
    Timeout = 2
    MaxClock = 5
    MaxStepBack = 2
    MaxBackSteps = 1

SPECIFICATION Spec

INVARIANT TypeOK
PROPERTY ExpireCompleteWhileMonotone
PROPERTY RoundExpireMatchesReference
