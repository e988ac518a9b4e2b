\* The main net, and a net on which dust passes verify().
CONSTANTS
    Dust = 3
    OutputSize = 1
    MaxU64 = 14
    Overhead = 1
    InputSize = 1
    MessageSize = 1
    Nets = {TRUE, FALSE}
    MaxSources = 1
    MaxDestinations = 2
    SourceAmounts = {20}
    Amounts = {0, 2, 11, 15}
    Rates = {2}
SPECIFICATION Spec
INVARIANTS TypeOK OutputsArePaidFor OutputsAreRelayable SerializeAgreesWithUpdate
    SentSignalsReplaceability ChargeIsBounded
PROPERTIES CallsReturn
\* The program may end by dereferencing a null script (status "crash").
CHECK_DEADLOCK FALSE
