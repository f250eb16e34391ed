\* The signed schedule under updates and outages; no send fails.
CONSTANTS
    Texts <- MCTexts
    IdTypes <- MCIdTypes
    Coordinates <- MCCoordinates
    LocationTypes <- MCLocationTypes
    Areas <- MCAreas
    Configurations <- MCCompleteOnly
    Inputs <- MCAuthInputs
    Readers = {ble4}
    QueueLen = 1
    AuthEnabled = TRUE
    EncodableIdTypes <- MCEncodableIdTypes
    EncodableCoordinates <- MCEncodableCoordinates
    AdvResults = {"ok"}
    CounterMod = 1
SPECIFICATION Spec
INVARIANTS AuthBurstCoherent SignedDynamicWasAired
