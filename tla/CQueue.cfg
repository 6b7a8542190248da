CONSTANTS
    Items = {a, b}
    Size = 5
    Blocks <- MCBlocks
    Lengths <- MCLengths
SPECIFICATION Spec
INVARIANTS WriteBehindRead
PROPERTIES IsFifo
