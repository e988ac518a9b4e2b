CONSTANTS
    Ids = {p1, p2, p3, p4}
    Chains = {"Bitcoin", "Ethereum", "EOS"}
    MaxProperties = 1
SYMMETRY PlaceSymmetry
SPECIFICATION Spec
INVARIANTS EveryObjectIsOwned ReferencesAreAlive AnswersAreComplete
