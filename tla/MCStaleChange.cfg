\* An update(), a larger amount that the sources still cover, an update().
CONSTANTS
    Dust = 3
    OutputSize = 1
    MaxU64 = 14
    Overhead = 1
    InputSize = 1
    MessageSize = 1
    Nets = {TRUE}
    MaxSources = 1
    MaxDestinations = 2
    SourceAmounts = {20}
    Amounts = {5, 11}
    Rates = {2}
SPECIFICATION Spec
INVARIANT InsufficientMeansInsufficient
CHECK_DEADLOCK FALSE
