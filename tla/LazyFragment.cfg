CONSTANTS
    LastPage = 4
    Parents = {1, 3}
SPECIFICATION Spec
INVARIANTS
    OnlyCurrentIsVisible
    LoadsAndStopsAlternate
PROPERTY AbandonedLoadIsLost
CHECK_DEADLOCK FALSE
