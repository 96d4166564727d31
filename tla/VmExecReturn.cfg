SPECIFICATION Spec
CONSTANTS
    Image <- MCImage
    Oracles <- MCOracles
    CFunction <- MCCFunction
    AncestorsOf <- MCAncestorsOf
    Main = "main"
    FailClass = "A"
    NoError = "no error"
    NoWork = "no work"
INVARIANTS
    ReturnRunsFinally
