CONSTANTS
    a = a
    b = b
    Byte <- MCByte
    MaxHay = 6
    MaxNeedle = 4
SPECIFICATION FairSpec
INVARIANTS NoOverread ReturnsFirstPartial
PROPERTY Returns
