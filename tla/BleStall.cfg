\* A usable Basic ID whose id_type cannot be encoded.
CONSTANTS
    Texts <- MCTexts
    IdTypes <- MCIdTypes
    Coordinates <- MCCoordinates
    LocationTypes <- MCLocationTypes
    Areas <- MCAreas
    Configurations <- MCCompleteOnly
    Inputs <- MCFailingIdentity
    Readers = {ble4}
    QueueLen = 1
    AuthEnabled = FALSE
    EncodableIdTypes <- MCEncodableIdTypes
    EncodableCoordinates <- MCEncodableCoordinates
    AdvResults = {"ok"}
    CounterMod = 1
SPECIFICATION LiveSpec
PROPERTY LocationKeepsAiring
