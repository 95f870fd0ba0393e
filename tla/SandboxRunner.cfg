SPECIFICATION Spec
CONSTANTS
    r1 = r1
    r2 = r2
    r3 = r3
    Runs <- ThreeRuns
    MaxConcurrent = 2
INVARIANTS TypeOK SlotsConserved ContainersOwned TimeoutReported PulledOnlyIfRemoved
PROPERTIES RunEnds
