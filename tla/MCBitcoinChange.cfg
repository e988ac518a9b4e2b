\* The dust limit is above the size of an output, as 546 is above 34, and a
\* rate above the dust limit lets one longer signature make the change negative.
CONSTANTS
    Dust = 4
    OutputSize = 2
    MaxU64 = 12
    MaxLeftover = 24
    MaxRate = 5
    Bases = {1, 3}
    MaxSpread = 2
    Transactions <- SmallTransactions
SPECIFICATION Spec
INVARIANTS TypeOK NoDustChange FeeIsBounded FailsOnlyIfUnpayable RepeatIsStable
PROPERTIES ImplementsPolicy UpdateReturns
