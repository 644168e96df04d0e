CONSTANTS
    timeout = 3
    MaxPending = 2
SPECIFICATION Spec
INVARIANTS
    EveryRoundFindsBlock
PROPERTY
    ReportsOrLeaves
