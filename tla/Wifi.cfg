\* Outages, transmissions that fail, a position that cannot be encoded.
CONSTANTS
    Texts <- MCTexts
    IdTypes <- MCIdTypes
    Coordinates <- MCCoordinates
    LocationTypes <- MCLocationTypes
    Areas <- MCAreas
    Configurations <- MCConfigurations
    Inputs <- MCInputs
    Readers <- MCReaders
    QueueLen = 1
    EncodableIdTypes <- MCIdTypes
    EncodableCoordinates <- MCEncodableCoordinates
    AuthEnabled = TRUE
    Builds <- MCBuilds
    CounterMod = 3
SPECIFICATION LiveSpec
INVARIANTS TypeOK OneLeakPerOutage SignedPackVerifies
PROPERTIES PackCountersConsecutive PacksKeepComing PacksFollowState
