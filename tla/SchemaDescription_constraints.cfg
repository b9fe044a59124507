CONSTANTS
    Tables = {"film", "cast"}
    Catalogues <- MCCompositeKeys
    Trim <- MCTrim
    MaxChanges = 0
    Null = Null
SPECIFICATION Spec
INVARIANT ConstraintsAsDeclared
