\* Outages of the identity, failing sends, an identity that cannot be encoded.
CONSTANTS
    Texts <- MCTexts
    IdTypes <- MCIdTypes
    Coordinates <- MCCoordinates
    LocationTypes <- MCLocationTypes
    Areas <- MCAreas
    Configurations <- MCConfigurations
    Inputs <- MCOutageInputs
    Readers = {ble4}
    QueueLen = 1
    AuthEnabled = FALSE
    EncodableIdTypes <- MCEncodableIdTypes
    EncodableCoordinates <- MCEncodableCoordinates
    AdvResults = {"ok", "no_data", "no_start"}
    CounterMod = 2
SPECIFICATION Spec
INVARIANTS TypeOK PausedMeansSilent OneLeakPerOutage CountersConsecutive
