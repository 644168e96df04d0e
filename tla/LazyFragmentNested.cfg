CONSTANTS
    LastPage = 3
    Parents = {1, 2}
SPECIFICATION Spec
INVARIANT ShownChildIsLoaded
