SPECIFICATION Spec
CONSTANTS
    Image <- MCImage
    Oracles <- MCOracles
    CFunction <- MCCFunction
    AncestorsOf <- MCAncestorsOf
    Main = "main"
    FailClass = "A"
    NoError = "no error"
    NoWork = "no work"
INVARIANTS
    RescueFramesNest
    WorkHasItsCall
    FramesMatchNesting
    StackMatchesFrame
    EndsAsDocumented
PROPERTIES
    Terminates
CHECK_DEADLOCK TRUE
