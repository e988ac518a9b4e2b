\* One amount that does not fit 64 bits, then any further call.
CONSTANTS
    Dust = 3
    OutputSize = 1
    MaxU64 = 14
    Overhead = 1
    InputSize = 1
    MessageSize = 1
    Nets = {TRUE}
    MaxSources = 1
    MaxDestinations = 2
    SourceAmounts = {20}
    Amounts = {11, 15}
    Rates = {2}
SPECIFICATION Spec
INVARIANT FailuresAreExceptions
CHECK_DEADLOCK FALSE
