CONSTANTS
    Modules <- MCModules
    Declared <- MCDeclared
    Undeclared <- MCUndeclared
    compiled = "app"
    Builds <- MCBuilds
    Threads = {main}
    main = main
    Launcher = "/app/MainActivity"
    Callers <- MCCallers
    Fields <- MCFields
    Keys = {"intKey", "user"}
    CacheSize = 2
    None = None
SPECIFICATION ARouterSpec
INVARIANTS
    GroupFileCompiles
    BuiltRouteIsReached
    CachesAreTransparent
    ExtrasAreDelivered
    FieldsFollowAnnotations
