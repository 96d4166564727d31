SPECIFICATION Spec
CONSTANTS
    Setter = {s1, s2, s3}
    Capacity = 2
INVARIANTS
    FlagHasByte
PROPERTIES
    ImplementsEventFlag
