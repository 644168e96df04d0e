CONSTANTS
    Dexes = {"classes_.dex", "classes2.dex"}
    Others = {"resources.arsc"}
    Versions = 2
SPECIFICATION Spec
INVARIANTS
    UndisturbedLoadsAll
PROPERTY DecryptedStaysDecrypted
