CONSTANTS
    Tables = {"film", "cast"}
    Catalogues <- MCCatalogues
    Trim <- MCTrim
    MaxChanges = 2
    Null = Null
SPECIFICATION Spec
INVARIANT TypeOK
INVARIANT DescriptionObserved
INVARIANT ConstraintsOwn
INVARIANT EmptyOnlyWhenDropped
