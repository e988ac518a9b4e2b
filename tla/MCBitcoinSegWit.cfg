CONSTANTS
    Outputs <- MCOutputs
    Keys = {"k", "l"}
    Addresses = {a}
    Amounts = {3, 4}
    SequenceNumbers = {"replaceable"}
    LockTimes = {1}
    NoAddress = nowhere
    MaxU64 = 3
    MaxSources = 2
    MaxDestinations = 1
SPECIFICATION Spec
INVARIANTS WitnessesCoverWhatIsSent SegWitSentIsFunded
