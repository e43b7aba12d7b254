CONSTANTS
    Size = 4
    Modulus = 7
    MaxBytes = 14
SPECIFICATION Spec
CHECK_DEADLOCK FALSE
INVARIANTS
    SizeExact
    ReadsInOrder
    Consistent
