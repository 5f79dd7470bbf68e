\* Arrays of length up to 4, so that the one-line cap (3) and a length past
\* it both occur, with holes made by new_with_length and by delete.
CONSTANTS
    v1 = v1
    v2 = v2
    hole = hole
    Values <- MCValues
    Hole <- hole
    MaxLen = 4
    MaxIntId = 2
SPECIFICATION Spec
INVARIANTS FormatNeverPanics
