CONSTANTS
    n1 = n1
    n2 = n2
    a1 = a1
    a2 = a2
    f1 = f1
    Names = {n1, n2}
    Addresses = {a1, a2, f1}
    Foreign = {f1}
SYMMETRY Symmetry
SPECIFICATION PropertiesSpec
INVARIANTS TypeOK MapsAreInverse BoundIsAlive CleanKeepsChecked
PROPERTIES ThrowingChangesNothing
